------------------------------ MODULE ReadPath ------------------------------
(***************************************************************************)
(* Engine.Get and Engine.Scan against writers, the flush worker and the    *)
(* compaction worker: the memtables of the engine on top of the levels of  *)
(* module Levels, whose actions are composed here with what they do to the *)
(* memtables.  A read has two critical sections, of mu for the memtables   *)
(* and then of readersMu for the tables, and the iterator that Scan         *)
(* returns goes on reading blocks with no lock at all.                     *)
(*                                                                         *)
(* The size of a memtable is not modelled: it may be full after any write. *)
(* Crashes and failures are those of Engine and Levels, and not here.      *)
(***************************************************************************)
EXTENDS Levels

CONSTANTS
    BlockLen,               \* entries of a table's data block
    Ranges,                 \* pairs <<startKey, endKey>> that callers scan
    Stored,                 \* keys that level 1 has already when the engine is opened
    MaxWrites, MaxDeletes   \* bounds

ASSUME ReadAssumption ==
    /\ BlockLen \in Nat \ {0} /\ Ranges \subseteq Keys \X Keys
    /\ Stored \subseteq Keys /\ Stored # {}
    /\ MaxWrites \in Nat /\ MaxDeletes \in Nat

VARIABLES
    activeMem, immMem,  \* their contents, as those of a table; immMem is empty for nil
    flushing,           \* flushImmutable holds flushLock and has read immMem
    reader,             \* the Get or Scan under way
    \* history
    hist,               \* every write
    demoted             \* keys a compaction met twice in level 0 (see LevelsOldestWins)

memVars  == <<activeMem, immMem>>
readVars == <<levelVars, memVars, flushing, reader, hist, demoted>>

Ops    == {"put", "delete"}
Empty  == [k \in {} |-> NoEntry]
Idle   == [pc |-> "idle"]
writes == Cardinality(hist)

\* The last write of key k.
Newest(k) ==
    LET Of == {r \in hist : r.key = k}
    IN  IF Of = {} THEN NoEntry ELSE CHOOSE r \in Of : \A q \in Of : q.seq <= r.seq

Put(mem, e) == [k \in DOMAIN mem \cup {e.key} |-> IF k = e.key THEN e ELSE mem[k]]
-----------------------------------------------------------------------------
\* Writing and flushing

\* Put or Delete, in the critical section of mu: the active memtable takes the
\* entry, and if it is full then and there is no immutable one it becomes that.
Write ==
    \E k \in Keys, op \in Ops, full \in BOOLEAN :
        LET e   == [key |-> k, seq |-> writes + 1, op |-> op]
            mem == Put(activeMem, e)
        IN  /\ writes < Cardinality(Stored) + MaxWrites
            /\ op = "delete" => Cardinality({r \in hist : r.op = "delete"}) < MaxDeletes
            /\ full => immMem = Empty
            /\ activeMem' = IF full THEN Empty ELSE mem
            /\ immMem' = IF full THEN mem ELSE immMem
            /\ hist' = hist \cup {e}
            /\ UNCHANGED <<levelVars, flushing, reader, demoted>>

\* flushImmutable: the immutable memtable becomes a table of the manifest, ...
FlushStart ==
    /\ ~flushing /\ immMem # Empty
    /\ FlushTable(immMem)
    /\ flushing' = TRUE
    /\ UNCHANGED <<memVars, reader, hist, demoted>>

\* A Scan holds readersMu until it has its iterator.
ReadersMuFree == reader.pc # "opening"

\* ... readers can search it, ...
FlushShow ==
    /\ flushing /\ ReadersMuFree
    /\ FlushInstall
    /\ UNCHANGED <<memVars, flushing, reader, hist, demoted>>

\* Mutant of FlushClear: the memtable is dropped as soon as the manifest has its table.
FlushClearEarly ==
    /\ flushing /\ immMem # Empty
    /\ immMem' = Empty
    /\ flushing' = (stage = "flushed")
    /\ UNCHANGED <<levelVars, activeMem, reader, hist, demoted>>

\* ... and in a critical section of mu it is dropped, or the active one takes its
\* place if that is full by now.
FlushClear ==
    /\ flushing /\ stage = "idle"
    /\ flushing' = FALSE
    /\ \/ immMem' = Empty /\ UNCHANGED activeMem
       \/ activeMem # Empty /\ immMem' = activeMem /\ activeMem' = Empty
    /\ UNCHANGED <<levelVars, reader, hist, demoted>>
-----------------------------------------------------------------------------
\* Compacting

Merge  == ~flushing /\ CompactMerge /\ UNCHANGED <<memVars, flushing, reader, hist, demoted>>
Commit == CompactCommit /\ UNCHANGED <<memVars, flushing, reader, hist, demoted>>
Unlink == CompactUnlink /\ UNCHANGED <<memVars, flushing, reader, hist, demoted>>

\* The inputs' readers are closed under the iterators that still use them.
Install ==
    /\ ReadersMuFree
    /\ CompactInstall
    /\ demoted' = demoted \cup
         {k \in Keys : task.from = 0 /\
            Cardinality({t \in SeqRange(task.inFrom) : k \in DOMAIN sst[t]}) > 1}
    /\ UNCHANGED <<memVars, flushing, reader, hist>>
-----------------------------------------------------------------------------
\* Get

FindInMem(k) == IF k \in DOMAIN activeMem THEN activeMem[k]
                ELSE IF k \in DOMAIN immMem THEN immMem[k] ELSE NoEntry

\* The critical section of mu: an entry in a memtable is the answer.
GetMem(k) ==
    /\ reader = Idle
    /\ reader' = [pc |-> IF FindInMem(k) = NoEntry THEN "tables" ELSE "got",
                  key |-> k, got |-> FindInMem(k), floor |-> Newest(k).seq]
    /\ UNCHANGED <<levelVars, memVars, flushing, hist, demoted>>

\* The critical section of readersMu.
GetTables ==
    /\ reader.pc = "tables"
    /\ reader' = [reader EXCEPT !.pc = "got", !.got = Get(reader.key)]
    /\ UNCHANGED <<levelVars, memVars, flushing, hist, demoted>>
-----------------------------------------------------------------------------
\* Scan.  A stream is an iterator over the contents f of a memtable (id 0) or of
\* table id, and stands at key `at', or at 0 when it is not valid.

FirstIn(S)  == IF S = {} THEN 0 ELSE Least(S)
Block(s, k) == Rank(DOMAIN s.f, k) \div BlockLen
Stream(id, f, lo) == [id |-> id, f |-> f, at |-> FirstIn({k \in DOMAIN f : k >= lo})]

Following(s) == {k \in DOMAIN s.f : k > s.at}

\* The next entry is in a block that cannot be read: a compaction has closed the
\* table's file.
IsCut(s) == /\ s.id # 0 /\ s.id \notin readers
            /\ Following(s) # {} /\ Block(s, FirstIn(Following(s))) # Block(s, s.at)

\* SSTableIterator.Next drops that error, and is at its end.
Moved(s) == [s EXCEPT !.at = IF IsCut(s) THEN 0 ELSE FirstIn(Following(s))]

\* The place of a stream among the iterators, which is the list of them in the code,
\* is a pair: the memtables come first, then the levels, then in each its tables.
Precedes(p, q) == p[1] < q[1] \/ (p[1] = q[1] /\ p[2] <= q[2])

Meets(t, lo, hi) == MinKey(t) <= hi /\ MaxKey(t) >= lo

\* Mutant of TableAt: level 0 from its oldest table.
TableAtOldestFirst(p) == levelTables[p[1] - 1][p[2]]

\* The table at a place: level 0 from its newest table.
TableAt(p) == IF p[1] = 1 THEN levelTables[0][Len(levelTables[0]) + 1 - p[2]]
              ELSE levelTables[p[1] - 1][p[2]]

\* The places that a scan of lo..hi reads: all of level 0, below it the tables whose
\* range meets lo..hi, as far as they are open.
PlacesFor(lo, hi) ==
    UNION {{l + 1} \X {i \in 1..Len(levelTables[l]) :
                         TableAt(<<l + 1, i>>) \in readers
                           /\ (l = 0 \/ Meets(TableAt(<<l + 1, i>>), lo, hi))} : l \in Searched}

MemPlaces == {<<0, 1>>, <<0, 2>>}

\* The critical section of mu: iterators over snapshots of the memtables.
ScanMem(lo, hi) ==
    /\ reader = Idle
    /\ reader' = [pc |-> "memtables", lo |-> lo, hi |-> hi,
                  streams |-> [p \in MemPlaces |-> Stream(0, IF p[2] = 1 THEN activeMem ELSE immMem, lo)],
                  floor |-> [k \in Keys |-> Newest(k).seq]]
    /\ UNCHANGED <<levelVars, memVars, flushing, hist, demoted>>

\* readersMu: iterators over the tables that are open, each at its first entry
\* in the range.
ScanTables ==
    /\ reader.pc = "memtables"
    /\ LET tables == PlacesFor(reader.lo, reader.hi)
       IN  reader' = [pc |-> "opening", lo |-> reader.lo, hi |-> reader.hi,
                      streams |-> [p \in MemPlaces \cup tables |->
                          IF p \in MemPlaces THEN reader.streams[p]
                          ELSE Stream(TableAt(p), sst[TableAt(p)], reader.lo)],
                      floor |-> reader.floor, top |-> writes,
                      at |-> 0, out |-> Empty, lost |-> {}]
    /\ UNCHANGED <<levelVars, memVars, flushing, hist, demoted>>

Valid(r) == {i \in DOMAIN r.streams : r.streams[i].at # 0}

\* The root of the merging iterator's heap.
Root(r) == CHOOSE i \in Valid(r) : \A j \in Valid(r) :
               LET a == r.streams[i].at
                   b == r.streams[j].at
               IN  a < b \/ (a = b /\ Precedes(i, j))

\* One step of the merging iterator's advance, part of Scan at first and of the
\* caller's Next later: the first entry of a key is returned unless it is a
\* tombstone, every other one is passed over, and its iterator moves on.
ScanStep ==
    /\ reader.pc \in {"opening", "scanning"}
    /\ Valid(reader) # {}
    /\ \E i \in {Root(reader)} :
         LET s == reader.streams[i]
             e == s.f[s.at]
             shown == s.at # reader.at /\ ~IsTombstone(e)
         IN  /\ s.at <= reader.hi
             /\ reader' = [reader EXCEPT
                  !.streams[i] = Moved(s),
                  !.at   = s.at,
                  !.out  = IF shown THEN Put(@, e) ELSE @,
                  !.lost = IF IsCut(s) THEN @ \cup Following(s) ELSE @]
    /\ UNCHANGED <<levelVars, memVars, flushing, hist, demoted>>

AtEnd(r) == \A i \in Valid(r) : r.streams[i].at > r.hi

\* Scan returns when its iterator has an entry and has passed every version of
\* it, or has come to its end.
ScanReturn ==
    /\ reader.pc = "opening"
    /\ \/ AtEnd(reader)
       \/ reader.out # Empty /\ \A i \in Valid(reader) : reader.streams[i].at # reader.at
    /\ reader' = [reader EXCEPT !.pc = "scanning"]
    /\ UNCHANGED <<levelVars, memVars, flushing, hist, demoted>>

\* The caller has its answer; whether it reads a scan to its end is its affair.
Finish ==
    /\ reader.pc \in {"got", "scanning"}
    /\ reader' = Idle
    /\ UNCHANGED <<levelVars, memVars, flushing, hist, demoted>>
-----------------------------------------------------------------------------
\* An engine opened on a directory with one table, in level 1.
ReadInit ==
    LET f == [k \in Stored |-> [key |-> k, seq |-> Cardinality({j \in Stored : j <= k}), op |-> "put"]]
    IN  /\ sst = [t \in {1} |-> f]
        /\ levels = [l \in AllLevels |-> IF l = 1 THEN <<1>> ELSE <<>>]
        /\ nextID = 2
        /\ open = TRUE
        /\ readers = {1} /\ levelTables = SearchedOf(levels)
        /\ stage = "idle" /\ task = NoTask /\ outputs = <<>>
        /\ flushes = 0 /\ crashes = 0 /\ failures = 0
        /\ latest = [k \in Keys |-> IF k \in Stored THEN f[k] ELSE NoEntry]
        /\ unread = FALSE
        /\ activeMem = Empty /\ immMem = Empty
        /\ flushing = FALSE
        /\ reader = Idle
        /\ hist = {f[k] : k \in Stored} /\ demoted = {}

ReadNext ==
    \/ Write
    \/ FlushStart \/ FlushShow \/ FlushClear
    \/ Merge \/ Commit \/ Install \/ Unlink
    \/ \E k \in Keys : GetMem(k)
    \/ GetTables
    \/ \E r \in Ranges : ScanMem(r[1], r[2])
    \/ ScanTables \/ ScanStep \/ ScanReturn
    \/ Finish

ReadSpec == ReadInit /\ [][ReadNext]_readVars
=============================================================================
