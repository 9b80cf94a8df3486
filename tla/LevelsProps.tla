----------------------------- MODULE LevelsProps -----------------------------
(***************************************************************************)
(* What the levels of module Levels promise.                               *)
(***************************************************************************)
EXTENDS Levels

Tables == UNION {SeqRange(levels[l]) : l \in AllLevels}

TypeOK ==
    /\ nextID \in Nat /\ DOMAIN sst \subseteq 1..(nextID - 1)
    /\ \A t \in DOMAIN sst : DOMAIN sst[t] \in (SUBSET Keys) \ {{}}
    /\ \A l \in AllLevels : levels[l] \in Seq(1..(nextID - 1))
    /\ readers \subseteq 1..(nextID - 1)
    /\ \A l \in Searched : levelTables[l] \in Seq(1..(nextID - 1))
    /\ stage \in {"idle", "flushed", "merged", "committed", "installed"}
    /\ open \in BOOLEAN

\* Within a level below 0 no two tables' ranges meet, though outputs are cut by
\* size and join the tables the picker left alone.  Get stops at the first table
\* whose range has the key (engine.go: `Only one SSTable per level can contain
\* the key'), so a single overlap would hide keys.
LevelsDisjoint ==
    ~unread => \A l \in AllLevels \ {0} : \A i, j \in 1..Len(levels[l]) :
        i # j => \/ MaxKey(levels[l][i]) < MinKey(levels[l][j])
                 \/ MaxKey(levels[l][j]) < MinKey(levels[l][i])

\* The files of every table in the manifest exist at every moment, so that Open
\* succeeds whenever the process ends (compactor commits before the engine unlinks).
ManifestHasFiles == Tables \subseteq DOMAIN sst

\* The tables that Get and Scan look at.
Shown == UNION {SeqRange(levelTables[l]) : l \in Searched}

\* Get and Scan never pass over a table because it has no reader, no reader outlives
\* its table's file, and none is left open on a table that is not searched, other than
\* those of the level past the last one (Open reads them) and, while a compaction is
\* committed but not installed, its inputs.
ReadersMatch ==
    open => /\ readers \subseteq DOMAIN sst
            /\ ~unread =>
                 /\ Shown \subseteq readers
                 /\ readers \subseteq Shown \cup SeqRange(levels[MaxLevels])
                                    \cup (IF stage = "committed" THEN SeqRange(AllInputs(task)) ELSE {})

\* Place i of level l comes before place j of level m in the order of precedence:
\* level by level, and in level 0 from the last table to the first.
Precedent(l, i, m, j) == l < m \/ (l = 0 /\ m = 0 /\ j < i)

\* A table that takes precedence over another never has an older entry of a key, in
\* level 0 as between levels: Get stops at the first entry it meets.
NewerAbove ==
    ~unread => \A l, m \in AllLevels : \A i \in 1..Len(levels[l]), j \in 1..Len(levels[m]) :
        Precedent(l, i, m, j) =>
            \A k \in DOMAIN sst[levels[l][i]] \cap DOMAIN sst[levels[m][j]] :
                sst[levels[l][i]][k].seq > sst[levels[m][j]][k].seq

\* The versions of key k in level 0 as it is searched.
L0Versions(k) == {t \in SeqRange(levelTables[0]) : k \in DOMAIN sst[t]}

\* Compaction changes no answer for a key that has one version in level 0:
\* merging, cutting, dropping tombstones at the bottom, swapping readers and
\* unlinking files are invisible.
CompactionKeepsAnswers ==
    [][open /\ open' /\ ~unread' /\ stage # "flushed" =>
         \A k \in Keys : Cardinality(L0Versions(k)) <= 1 => Answer(Get(k)') = Answer(Get(k))]_levelVars

\* Nor does a crash at any moment, followed by Open: the manifest, which is what
\* Open reads, gives the answers that readers get now, also between the commit of
\* a compaction and its installation.
RestartKeepsAnswers ==
    open /\ ~unread /\ stage # "flushed" =>
      \A k \in Keys : Cardinality(L0Versions(k)) <= 1 =>
          Answer(Lookup(SearchedOf(levels), Tables, k)) = Answer(Get(k))

\* README: `newer timestamps supersede older versions, and tombstones suppress
\* deleted keys': what Get answers is the write that was flushed last.
NewestWins ==
    open /\ ~unread /\ stage # "flushed" => \A k \in Keys : Answer(Get(k)) = Answer(latest[k])

\* Level 0 does not stay at its trigger for ever.
Level0Drains == Len(levels[0]) >= L0CompactionTrigger ~> Len(levels[0]) < L0CompactionTrigger
=============================================================================
