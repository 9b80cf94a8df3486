------------------------------- MODULE Levels -------------------------------
(***************************************************************************)
(* The levels of the tree: flushed tables arrive in level 0, the picker    *)
(* chooses compactions, the compactor merges tables into the next level,   *)
(* the engine swaps readers and removes the files, and a crash may come    *)
(* between any two of these (pkg/compactor, Engine.Compact, and the         *)
(* tables' part of Engine.Get and Engine.Open).                            *)
(*                                                                         *)
(* A table is a function from its keys to entries [seq, op].  Tables are   *)
(* written one write of a key per flush, so that the number of the flush   *)
(* is the number of its writes.  Sizes count entries.                      *)
(***************************************************************************)
EXTENDS Integers, FiniteSets, Sequences

CONSTANTS
    NumKeys,        \* keys are 1..NumKeys, in this order
    MaxLevels,      \* LevelConfig.MaxLevels: levels 0..MaxLevels-1 are searched
    L0CompactionTrigger,
    BaseLevelSize,  \* entries that level 1 should hold at most
    LevelMultiplier,
    TargetTableSize,\* entries at which an output table is finished
    FlushSets,      \* the sets of keys that a flush may write
    MaxFlushes, MaxCrashes, MaxFailures   \* bounds; how many compactions fail

Keys     == 1..NumKeys
AllLevels == 0..MaxLevels      \* a compaction of the last one writes past it
Searched == 0..(MaxLevels - 1)

ASSUME ConfigAssumption ==
    /\ NumKeys \in Nat \ {0} /\ MaxLevels \in Nat \ {0, 1}
    /\ L0CompactionTrigger \in Nat \ {0} /\ TargetTableSize \in Nat \ {0}
    /\ BaseLevelSize \in Nat \ {0} /\ LevelMultiplier \in Nat \ {0}
    /\ FlushSets \subseteq (SUBSET Keys) \ {{}}
    /\ MaxFlushes \in Nat /\ MaxCrashes \in Nat /\ MaxFailures \in Nat

VARIABLES
    sst,          \* table id -> contents, for the tables whose files exist
    levels,       \* the manifest: level -> its tables, oldest first
    nextID,
    open,         \* the engine is running
    readers,      \* ids of the tables with an open reader
    levelTables,  \* the levels that Get and Scan search
    stage,        \* of the holder of flushLock
    task,         \* the compaction under way
    outputs,      \* ids of the tables it has written
    flushes, crashes, failures,
    \* history
    latest,       \* key -> the entry last flushed for it
    unread        \* a compaction has left a table of the manifest without a reader

bounds    == <<flushes, crashes, failures>>
levelVars == <<sst, levels, nextID, open, readers, levelTables, stage, task, outputs,
               bounds, latest, unread>>

NoEntry == [seq |-> 0]
NoTask  == [from |-> -1]
IsTombstone(e) == e.op = "delete"
-----------------------------------------------------------------------------
\* Tables

SeqRange(s) == {s[i] : i \in 1..Len(s)}
Least(D)    == CHOOSE k \in D : \A j \in D : k <= j
Greatest(D) == CHOOSE k \in D : \A j \in D : k >= j
MinKey(t)   == Least(DOMAIN sst[t])
MaxKey(t)   == Greatest(DOMAIN sst[t])

\* A merge of the tables ids, in their order of precedence: every key once, with
\* the entry of the first table that has it, tombstones left out if so told.
Merged(ids, dropTombstones) ==
    LET First(k) == sst[ids[CHOOSE i \in 1..Len(ids) :
                               /\ k \in DOMAIN sst[ids[i]]
                               /\ \A j \in 1..(i - 1) : k \notin DOMAIN sst[ids[j]]]][k]
        AllKeys  == UNION {DOMAIN sst[t] : t \in SeqRange(ids)}
        Kept     == {k \in AllKeys : ~(dropTombstones /\ IsTombstone(First(k)))}
    IN  [k \in Kept |-> First(k)]

\* The number of the members of D that are less than k.
Rank(D, k) == Cardinality({j \in D : j < k})

\* The members of the sequence s that are in S, in their order (SelectSeq, which
\* is recursive and cannot be reasoned about here).
Keep(s, S) ==
    LET Places == {i \in 1..Len(s) : s[i] \in S}
    IN  [n \in 1..Cardinality(Places) |-> s[CHOOSE i \in Places : Rank(Places, i) = n - 1]]

\* Mutant of Split: the last table is finished even when it is empty.
SplitAlways(f) ==
    LET Count == Cardinality(DOMAIN f) \div TargetTableSize + 1
    IN  [i \in 1..Count |->
           [k \in {j \in DOMAIN f : Rank(DOMAIN f, j) \div TargetTableSize = i - 1} |-> f[k]]]

\* The compactor's output tables: a table is finished as soon as it is full.
Split(f) ==
    LET Count == (Cardinality(DOMAIN f) + TargetTableSize - 1) \div TargetTableSize
    IN  [i \in 1..Count |->
           [k \in {j \in DOMAIN f : Rank(DOMAIN f, j) \div TargetTableSize = i - 1} |-> f[k]]]
-----------------------------------------------------------------------------
\* The picker

\* A table without a reader counts for nothing.
SumOfSizes(ids) ==
    Cardinality({p \in (SeqRange(ids) \cap readers) \X Keys : p[2] \in DOMAIN sst[p[1]]})

MaxBytesForLevel(lvl) == BaseLevelSize * LevelMultiplier^(lvl - 1)

\* Arithmetic, for the provers know nothing of powers.
ASSUME LevelSizesAssumption == \A l \in Searched \ {0} : MaxBytesForLevel(l) \in Nat \ {0}

\* Mutant of IsBottomLevel: the levels below the output's are not looked at.
IsBottomAlways(lvl) == lvl > 0

IsBottomLevel(lvl) == \A l \in Searched : l > lvl => levels[l] = <<>>

\* Mutant of FindOverlapping: ranges that share one key only do not overlap.
FindOverlappingStrictly(from, to) ==
    LET Known == SeqRange(from) \cap readers
    IN  Keep(to, {t \in readers : /\ \E f \in Known : MaxKey(t) > MinKey(f)
                                  /\ \E f \in Known : MinKey(t) < MaxKey(f)})

\* The tables of the next level whose range meets the range of all of `from',
\* as far as they have readers.
FindOverlapping(from, to) ==
    LET Known == SeqRange(from) \cap readers
    IN  Keep(to, {t \in readers : /\ \E f \in Known : MaxKey(t) >= MinKey(f)
                                  /\ \E f \in Known : MinKey(t) <= MaxKey(f)})

Task(lvl, from) ==
    [from |-> lvl, inFrom |-> from, inTo |-> FindOverlapping(from, levels[lvl + 1]),
     bottom |-> IsBottomLevel(lvl + 1)]

\* Mutants of PickCompaction: of level 0 the newest table alone ...
PickNewest ==
    IF Len(levels[0]) >= L0CompactionTrigger THEN Task(0, <<levels[0][Len(levels[0])]>>)
    ELSE NoTask

\* ... or level 0 only when it is over its trigger.
PickOverTrigger ==
    IF Len(levels[0]) > L0CompactionTrigger THEN Task(0, levels[0]) ELSE NoTask

\* Level 0 by its number of tables, then the fullest of the levels over their size.
PickCompaction ==
    LET Over == {l \in Searched \ {0} : SumOfSizes(levels[l]) > MaxBytesForLevel(l)}
        Score(l, m) == SumOfSizes(levels[l]) * MaxBytesForLevel(m)
        Best == CHOOSE l \in Over : \A m \in Over :
                    Score(l, m) > Score(m, l) \/ (Score(l, m) = Score(m, l) /\ l <= m)
    IN  IF Len(levels[0]) >= L0CompactionTrigger THEN Task(0, levels[0])
        ELSE IF Over # {} THEN Task(Best, <<levels[Best][1]>>)
        ELSE NoTask

\* Mutant of AllInputs: the next level's tables take precedence.
AllInputsReversed(tk) == tk.inTo \o tk.inFrom

AllInputs(tk) == tk.inFrom \o tk.inTo

\* Mutant of LogAndApply: the added tables come first in their level.
LogAndApplyFirst(lvl, added, deleted) ==
    levels' = [l \in AllLevels |->
                 (IF l = lvl THEN added ELSE <<>>) \o Keep(levels[l], SeqRange(levels[l]) \ deleted)]

\* The manifest's LogAndApply: one atomic, durable edit.
LogAndApply(lvl, added, deleted) ==
    levels' = [l \in AllLevels |->
                 Keep(levels[l], SeqRange(levels[l]) \ deleted) \o (IF l = lvl THEN added ELSE <<>>)]

SearchedOf(lv) == [l \in Searched |-> lv[l]]
-----------------------------------------------------------------------------
Init ==
    /\ sst = [t \in {} |-> <<>>]
    /\ levels = [l \in AllLevels |-> <<>>]
    /\ nextID = 1
    /\ open = TRUE
    /\ readers = {}
    /\ levelTables = SearchedOf(levels)
    /\ stage = "idle" /\ task = NoTask /\ outputs = <<>>
    /\ flushes = 0 /\ crashes = 0 /\ failures = 0
    /\ latest = [k \in Keys |-> NoEntry] /\ unread = FALSE

\* flushMemTableDirect up to its commit: a memtable with the contents f becomes
\* the newest table of level 0.
FlushTable(f) ==
    /\ open /\ stage = "idle" /\ flushes < MaxFlushes
    /\ sst' = [t \in DOMAIN sst \cup {nextID} |-> IF t = nextID THEN f ELSE sst[t]]
    /\ nextID' = nextID + 1
    /\ LogAndApply(0, <<nextID>>, {})
    /\ latest' = [k \in Keys |-> IF k \in DOMAIN f THEN f[k] ELSE latest[k]]
    /\ flushes' = flushes + 1
    /\ outputs' = <<nextID>>
    /\ stage' = "flushed"
    /\ UNCHANGED <<open, readers, levelTables, task, crashes, failures, unread>>

\* Here the memtable has the keys ks, the keys of dels deleted.
FlushCommit(ks, dels) ==
    FlushTable([k \in ks |-> [seq |-> flushes + 1, op |-> IF k \in dels THEN "delete" ELSE "put"]])

\* ... and its last step, in the critical section of readersMu.
FlushInstall ==
    /\ stage = "flushed"
    /\ readers' = readers \cup SeqRange(outputs)
    /\ levelTables' = SearchedOf(levels)
    /\ stage' = "idle" /\ outputs' = <<>>
    /\ UNCHANGED <<sst, levels, nextID, open, task, bounds, latest, unread>>

\* Compact picks a task, merges its inputs and writes the output tables.
CompactMerge ==
    \E tk \in {PickCompaction} :
        /\ open /\ stage = "idle"
        /\ tk # NoTask
        /\ SeqRange(AllInputs(tk)) \subseteq readers
        /\ task' = tk
        /\ \E out \in {Split(Merged(AllInputs(tk), tk.bottom))} :
             LET New == nextID..(nextID + Len(out) - 1)
             IN  /\ outputs' = [i \in 1..Len(out) |-> nextID + i - 1]
                 /\ sst' = [t \in DOMAIN sst \cup New |->
                              IF t \in New THEN out[t - nextID + 1] ELSE sst[t]]
                 /\ nextID' = nextID + Len(out)
        /\ stage' = "merged"
        /\ UNCHANGED <<levels, open, readers, levelTables, bounds, latest, unread>>

CompactCommit ==
    /\ stage = "merged"
    /\ LogAndApply(task.from + 1, outputs, SeqRange(AllInputs(task)))
    /\ stage' = "committed"
    /\ UNCHANGED <<sst, nextID, open, readers, levelTables, task, outputs, bounds, latest, unread>>

\* Mutants of CompactInstall: the inputs' readers stay open ...
CompactInstallLeaks ==
    /\ stage = "committed"
    /\ readers' = readers \cup SeqRange(outputs)
    /\ levelTables' = SearchedOf(levels)
    /\ stage' = "installed"
    /\ UNCHANGED <<sst, levels, nextID, open, task, outputs, bounds, latest, unread>>

\* ... or the levels that readers search are not updated.
CompactInstallForgets ==
    /\ stage = "committed"
    /\ readers' = (readers \cup SeqRange(outputs)) \ SeqRange(AllInputs(task))
    /\ stage' = "installed"
    /\ UNCHANGED <<sst, levels, nextID, open, levelTables, task, outputs, bounds, latest, unread>>

\* The engine opens readers for the outputs, closes those of the inputs and shows
\* the new levels, in one critical section of readersMu.
CompactInstall ==
    /\ stage = "committed"
    /\ readers' = (readers \cup SeqRange(outputs)) \ SeqRange(AllInputs(task))
    /\ levelTables' = SearchedOf(levels)
    /\ stage' = "installed"
    /\ UNCHANGED <<sst, levels, nextID, open, task, outputs, bounds, latest, unread>>

Fails ==
    /\ failures < MaxFailures
    /\ failures' = failures + 1
    /\ stage' = "idle" /\ task' = NoTask /\ outputs' = <<>>
    /\ UNCHANGED <<sst, levels, nextID, open, readers, levelTables, flushes, crashes, latest>>

\* Mutant of InstallFails: the error path removes the outputs, committed as they are.
InstallFailsUnlinks ==
    /\ stage = "committed" /\ outputs # <<>>
    /\ failures < MaxFailures
    /\ failures' = failures + 1
    /\ stage' = "idle" /\ task' = NoTask /\ outputs' = <<>>
    /\ sst' = [t \in DOMAIN sst \ SeqRange(outputs) |-> sst[t]]
    /\ unread' = TRUE
    /\ UNCHANGED <<levels, nextID, open, readers, levelTables, flushes, crashes, latest>>

\* Compact returns an error: an output cannot be written or the edit not logged, ...
CompactFails ==
    /\ stage = "merged"
    /\ Fails
    /\ UNCHANGED unread

\* ... or, after the commit, a reader for an output cannot be opened.
InstallFails ==
    /\ stage = "committed" /\ outputs # <<>>
    /\ Fails
    /\ unread' = TRUE

CompactUnlink ==
    /\ stage = "installed"
    /\ sst' = [t \in DOMAIN sst \ SeqRange(AllInputs(task)) |-> sst[t]]
    /\ stage' = "idle" /\ task' = NoTask /\ outputs' = <<>>
    /\ UNCHANGED <<levels, nextID, open, readers, levelTables, bounds, latest, unread>>

\* The process ends; the manifest and the files stay as they are.
Crash ==
    /\ open /\ crashes < MaxCrashes
    /\ crashes' = crashes + 1
    /\ open' = FALSE
    /\ readers' = {}
    /\ levelTables' = [l \in Searched |-> <<>>]
    /\ stage' = "idle" /\ task' = NoTask /\ outputs' = <<>>
    /\ UNCHANGED <<sst, levels, nextID, flushes, failures, latest, unread>>

\* Open needs the files of every table in the manifest.
Open ==
    /\ ~open
    /\ \A l \in AllLevels : SeqRange(levels[l]) \subseteq DOMAIN sst
    /\ open' = TRUE
    /\ readers' = UNION {SeqRange(levels[l]) : l \in AllLevels}
    /\ levelTables' = SearchedOf(levels)
    /\ UNCHANGED <<sst, levels, nextID, stage, task, outputs, bounds, latest, unread>>

CompactStep == \/ CompactMerge \/ CompactCommit \/ CompactInstall \/ CompactUnlink
               \/ CompactFails \/ InstallFails

Next ==
    \/ \E ks \in FlushSets : \E dels \in SUBSET ks : FlushCommit(ks, dels)
    \/ FlushInstall
    \/ CompactStep
    \/ Crash
    \/ Open

Spec == Init /\ [][Next]_levelVars

\* The flush worker and the compaction worker go on, and a crashed engine is
\* opened again.
FairSpec == Spec /\ WF_levelVars(FlushInstall) /\ WF_levelVars(CompactStep) /\ WF_levelVars(Open)
-----------------------------------------------------------------------------
\* What Get finds in the tables ts of a level, given by their list, when the
\* tables rd have readers: in level 0 the newest table with the key; below it
\* the first table whose range has the key, and no other.  A table without a
\* reader is passed over.
GetFromL0(ts, rd, k) ==
    LET Hits == {i \in 1..Len(ts) : ts[i] \in rd /\ k \in DOMAIN sst[ts[i]]}
    IN  IF Hits = {} THEN NoEntry
        ELSE sst[ts[CHOOSE i \in Hits : \A j \in Hits : j <= i]][k]

GetFromLevel(ts, rd, k) ==
    LET Covering == {i \in 1..Len(ts) : ts[i] \in rd /\ MinKey(ts[i]) <= k /\ k <= MaxKey(ts[i])}
        First    == ts[CHOOSE i \in Covering : \A j \in Covering : i <= j]
    IN  IF Covering = {} THEN NoEntry
        ELSE IF k \in DOMAIN sst[First] THEN sst[First][k] ELSE NoEntry

\* Get looks for the key level by level and stops at the first entry.
Lookup(lv, rd, k) ==
    LET At   == [l \in Searched |-> IF l = 0 THEN GetFromL0(lv[0], rd, k)
                                    ELSE GetFromLevel(lv[l], rd, k)]
        Hits == {l \in Searched : At[l] # NoEntry}
    IN  IF Hits = {} THEN NoEntry ELSE At[CHOOSE l \in Hits : \A m \in Hits : l <= m]

Get(k) == Lookup(levelTables, readers, k)

\* The answer: a deleted key and one never written are both `not found'.
Answer(e) == IF e = NoEntry THEN NoEntry ELSE IF IsTombstone(e) THEN NoEntry ELSE e
=============================================================================
