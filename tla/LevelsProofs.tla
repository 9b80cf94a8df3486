---------------------------- MODULE LevelsProofs ----------------------------
(***************************************************************************)
(* The levels keep their order and their files: the invariants of module   *)
(* LevelsProps that speak of tables hold for every number of keys and      *)
(* levels, every flush, every crash and every failed compaction; and       *)
(* compaction and restart change no answer, as long as the last level that *)
(* is searched can hold all the keys.                                      *)
(*                                                                         *)
(* The second half is about reads over the levels: what module ReadProps   *)
(* promises of Get and Scan holds for every number of writes and ranges,   *)
(* and for every interleaving of a reader with writers, flushes and        *)
(* compactions, under the same condition.                                  *)
(***************************************************************************)
EXTENDS LevelsProps, ReadProps, FiniteSetTheorems, NatLemmas, TLAPS

\* The tables that the compaction under way replaces, and those it has written.
InputsOf(tk) == SeqRange(AllInputs(tk))
Inputs       == InputsOf(task)
Outputs      == SeqRange(outputs)

\* Entries carry the number of their write, which is at least 1.
Numbered ==
    /\ nextID # 0
    /\ \A t \in DOMAIN sst : \A k \in DOMAIN sst[t] : sst[t][k].seq \in Nat \ {0}

\* In module Levels that is the number of the flush.
Counted ==
    /\ flushes \in Nat
    /\ \A t \in DOMAIN sst : \A k \in DOMAIN sst[t] : sst[t][k].seq <= flushes

\* What flushLock's holder has in hand, stage by stage.
StageFacts ==
    /\ outputs \in Seq(1..(nextID - 1)) /\ Outputs \subseteq DOMAIN sst
    /\ stage # "idle" => open
    /\ stage = "idle" => outputs = <<>>
    /\ stage \in {"merged", "committed", "installed"} =>
         /\ task.from \in Searched
         /\ task.inFrom \in Seq(1..(nextID - 1)) /\ task.inTo \in Seq(1..(nextID - 1))
         /\ Inputs \cap Outputs = {}
    /\ stage \in {"committed", "installed"} => Inputs \cap Tables = {}
    /\ stage = "installed" => Inputs \cap readers = {}

\* Readers: none without a file, and one for every table but those being installed.
Unopened == IF stage \in {"flushed", "committed"} THEN Outputs ELSE {}

ReaderFacts ==
    /\ readers \subseteq DOMAIN sst
    /\ open /\ ~unread =>
         /\ Tables \subseteq readers \cup Unopened
         /\ \A l \in Searched : SeqRange(levelTables[l]) \subseteq readers
         /\ stage \in {"idle", "merged", "installed"} => levelTables = SearchedOf(levels)

\* The inputs of a compaction: all of level 0 or one table, and with them every table
\* of the next level that their range meets.
InputFacts(tk) ==
    /\ SeqRange(tk.inFrom) \subseteq SeqRange(levels[tk.from])
    /\ SeqRange(tk.inTo) \subseteq SeqRange(levels[tk.from + 1])
    /\ tk.from = 0 => SeqRange(tk.inFrom) = SeqRange(levels[0])
    /\ tk.bottom = (\A l \in Searched : l > tk.from + 1 => levels[l] = <<>>)
    /\ \A t \in SeqRange(levels[tk.from + 1]) \ InputsOf(tk), s \in InputsOf(tk) :
         DOMAIN sst[t] \cap DOMAIN sst[s] = {}

\* The output has, of each key, the entry of an input, and of one from the upper level
\* if there is any; the keys it leaves out have a tombstone there.
SourceOf(tk, t, k) ==
    /\ t \in InputsOf(tk) /\ k \in DOMAIN sst[t]
    /\ t \in SeqRange(tk.inFrom) \/ \A u \in SeqRange(tk.inFrom) : k \notin DOMAIN sst[u]

OutputFacts ==
    /\ \A o \in Outputs : \A k \in DOMAIN sst[o] :
         \E t \in Inputs : SourceOf(task, t, k) /\ sst[o][k] = sst[t][k]
    /\ \A t \in Inputs : \A k \in DOMAIN sst[t] :
         \/ \E o \in Outputs : k \in DOMAIN sst[o]
         \/ task.bottom /\ \E u \in Inputs : SourceOf(task, u, k) /\ IsTombstone(sst[u][k])

\* Output tables are cut in the order of the keys, and lie apart from the tables of
\* their level that are left alone.
Apart(t, u) == MaxKey(t) < MinKey(u) \/ MaxKey(u) < MinKey(t)

OutputsFit ==
    /\ \A i, j \in 1..Len(outputs) : i < j => MaxKey(outputs[i]) < MinKey(outputs[j])
    /\ \A o \in Outputs : \A t \in SeqRange(levels[task.from + 1]) \ Inputs : Apart(o, t)

\* Of two levels, the upper one has the newer entries.
NewerByLevel ==
    ~unread => \A l, m \in AllLevels : \A t \in SeqRange(levels[l]), u \in SeqRange(levels[m]) :
        \A k \in DOMAIN sst[t] \cap DOMAIN sst[u] : l < m => sst[t][k].seq > sst[u][k].seq

\* The inductive invariant.
LInv ==
    /\ TypeOK /\ Numbered /\ StageFacts /\ ManifestHasFiles /\ ReaderFacts
    /\ LevelsDisjoint /\ NewerByLevel
    /\ ~unread /\ stage = "merged" => InputFacts(task) /\ OutputFacts /\ OutputsFit
-----------------------------------------------------------------------------
\* Ranks number the members of a finite set of naturals from 0, in their order.
LEMMA RankType ==
    ASSUME NEW D \in SUBSET Nat, IsFiniteSet(D), NEW k \in D
    PROVE  Rank(D, k) \in Nat /\ Rank(D, k) < Cardinality(D) /\ Cardinality(D) \in Nat
<1> DEFINE B == {j \in D : j < k}
<1>1. B \in SUBSET D /\ B # D
  OBVIOUS
<1>2. IsFiniteSet(B) /\ Cardinality(B) <= Cardinality(D) /\ (Cardinality(D) = Cardinality(B) => D = B)
  <2> HIDE DEF B
  <2> QED BY <1>1, FS_Subset
<1>3. Cardinality(B) \in Nat /\ Cardinality(D) \in Nat
  BY <1>2, FS_CardinalityType
<1>4. Rank(D, k) = Cardinality(B)
  BY DEF Rank
<1> HIDE DEF B
<1> QED BY <1>1, <1>2, <1>3, <1>4

LEMMA RankGrows ==
    ASSUME NEW D \in SUBSET Nat, IsFiniteSet(D), NEW j \in D, NEW k \in D, j < k
    PROVE  Rank(D, j) < Rank(D, k)
<1> DEFINE B == {i \in D : i < j}
           C == {i \in D : i < k}
<1>1. B \in SUBSET C /\ C \in SUBSET D /\ j \in C /\ j \notin B
  <2>1. j \in Nat /\ k \in Nat /\ \A i \in D : i \in Nat
    OBVIOUS
  <2>2. \A i \in D : i < j => i < k
    BY <2>1
  <2>3. j \notin B
    BY <2>1
  <2>4. j \in C
    OBVIOUS
  <2>5. B \subseteq C /\ C \subseteq D
    BY <2>2
  <2> QED BY <2>3, <2>4, <2>5
<1>2. IsFiniteSet(C)
  <2> HIDE DEF C
  <2> QED BY <1>1, FS_Subset
<1>3. IsFiniteSet(B) /\ Cardinality(B) <= Cardinality(C) /\ (Cardinality(C) = Cardinality(B) => C = B)
  <2> HIDE DEF B, C
  <2> QED BY <1>1, <1>2, FS_Subset
<1>4. Cardinality(B) \in Nat /\ Cardinality(C) \in Nat
  <2> HIDE DEF B, C
  <2> QED BY <1>2, <1>3, FS_CardinalityType
<1>5. Rank(D, j) = Cardinality(B) /\ Rank(D, k) = Cardinality(C)
  BY DEF Rank
<1> HIDE DEF B, C
<1> QED BY <1>1, <1>3, <1>4, <1>5

\* Every number below the size of the set is the rank of a member.
LEMMA RankOnto ==
    ASSUME NEW b \in Nat, NEW D \in SUBSET (0..b), NEW r \in Nat, r < Cardinality(D)
    PROVE  \E k \in D : Rank(D, k) = r
<1> DEFINE U == {k \in D : Rank(D, k) >= r}
<1>1. D \in SUBSET Nat /\ IsFiniteSet(D)
  <2>1. IsFiniteSet(0..b) /\ 0..b \in SUBSET Nat
    BY FS_Interval
  <2> QED BY <2>1, FS_Subset
<1>2. Cardinality(D) \in Nat /\ D # {}
  BY <1>1, FS_CardinalityType, FS_EmptySet
<1>3. PICK top \in D : \A k \in D : k <= top
  <2>1. \A k \in D : k <= b
    OBVIOUS
  <2> QED BY <1>1, <1>2, <2>1, MaxExists
<1>4. Rank(D, top) = Cardinality(D) - 1
  <2>1. \A j \in D : j < top <=> j # top
    BY <1>1, <1>3
  <2>2. {j \in D : j < top} = D \ {top}
    BY <2>1
  <2> QED BY <2>2, <1>1, FS_RemoveElement DEF Rank
<1>5. U \in SUBSET Nat /\ U # {}
  <2>1. Rank(D, top) >= r
    BY <1>2, <1>4
  <2> QED BY <1>1, <1>3, <2>1
<1>6. PICK m \in U : \A k \in U : m <= k
  <2> HIDE DEF U
  <2> QED BY <1>5, MinExists
<1>7. m \in D /\ Rank(D, m) >= r /\ Rank(D, m) \in Nat
  BY <1>1, <1>6, RankType
<1>8. \A k \in D : k < m => Rank(D, k) < r
  <2> SUFFICES ASSUME NEW k \in D, k < m, ~(Rank(D, k) < r) PROVE FALSE
    OBVIOUS
  <2>1. Rank(D, k) \in Nat
    BY <1>1, RankType
  <2> QED BY <2>1, <1>6
<1> DEFINE B == {j \in D : j < m}
<1>9. B \in SUBSET D /\ Rank(D, m) = Cardinality(B) /\ IsFiniteSet(B)
  <2>1. B \in SUBSET D
    OBVIOUS
  <2>2. IsFiniteSet(B)
    <3> HIDE DEF B
    <3> QED BY <2>1, <1>1, FS_Subset
  <2> QED BY <2>1, <2>2 DEF Rank
<1>10. CASE B = {}
  <2>1. Rank(D, m) = 0
    <3> HIDE DEF B
    <3> QED BY <1>9, <1>10, FS_EmptySet
  <2> QED BY <2>1, <1>7
<1>11. CASE B # {}
  <2>1. PICK p \in B : \A k \in B : k <= p
    <3>1. B \in SUBSET Nat /\ \A k \in B : k <= b
      <4>1. \A k \in D : k <= b
        OBVIOUS
      <4> QED BY <1>1, <4>1
    <3> HIDE DEF B
    <3> QED BY <3>1, <1>11, MaxExists
  <2>2. {j \in D : j < p} = B \ {p}
    <3>1. p \in D /\ p < m /\ p \in Nat /\ m \in Nat /\ \A j \in D : j \in Nat
      BY <2>1, <1>1, <1>7
    <3>2. \A j \in D : j < p <=> (j < m /\ j # p)
      BY <2>1, <3>1
    <3> QED BY <3>2
  <2>3. Rank(D, p) = Cardinality(B \ {p})
    BY <2>2 DEF Rank
  <2>4. p \in D /\ p < m
    BY <2>1
  <2>5. Cardinality(B \ {p}) = Cardinality(B) - 1 /\ Cardinality(B) \in Nat
    <3> HIDE DEF B
    <3> QED BY <2>1, <1>9, FS_RemoveElement, FS_CardinalityType
  <2>6. Cardinality(B) - 1 < r
    BY <2>3, <2>4, <2>5, <1>8
  <2> HIDE DEF B
  <2> QED BY <2>5, <2>6, <1>7, <1>9
<1> QED BY <1>10, <1>11

\* Any two places of u hold what two places of s hold, in the same order.
InOrderOf(u, s) ==
    \A m, n \in 1..Len(u) : m < n => \E i, j \in 1..Len(s) : i < j /\ u[m] = s[i] /\ u[n] = s[j]

\* Keep returns the members of the sequence that are in the set, in their order.
LEMMA KeepFacts ==
    ASSUME NEW T, NEW s \in Seq(T), NEW S
    PROVE  /\ Keep(s, S) \in Seq(T)
           /\ SeqRange(Keep(s, S)) = SeqRange(s) \cap S
           /\ InOrderOf(Keep(s, S), s)
<1> DEFINE P == {i \in 1..Len(s) : s[i] \in S}
           At(n) == CHOOSE i \in P : Rank(P, i) = n - 1
           N == Cardinality(P)
<1>1. P \in SUBSET (0..Len(s)) /\ P \in SUBSET Nat /\ IsFiniteSet(P) /\ Len(s) \in Nat
  <2>1. P \in SUBSET (0..Len(s)) /\ Len(s) \in Nat
    OBVIOUS
  <2>2. P \in SUBSET Nat
    OBVIOUS
  <2>3. IsFiniteSet(0..Len(s))
    BY <2>1, FS_Interval
  <2> HIDE DEF P
  <2> QED BY <2>1, <2>2, <2>3, FS_Subset
<1>2. N \in Nat
  BY <1>1, FS_CardinalityType
<1>3. Keep(s, S) = [n \in 1..N |-> s[At(n)]]
  BY DEF Keep
<1>4. ASSUME NEW n \in 1..N PROVE At(n) \in P /\ Rank(P, At(n)) = n - 1
  <2> HIDE DEF P
  <2>1. n - 1 \in Nat /\ n - 1 < Cardinality(P)
    BY <1>2
  <2>2. \E i \in P : Rank(P, i) = n - 1
    BY <2>1, <1>1, RankOnto
  <2> QED BY <2>2
<1>5. Len(Keep(s, S)) = N /\ Keep(s, S) \in Seq(T)
  <2>1. \A n \in 1..N : s[At(n)] \in T
    <3>1. \A i \in P : s[i] \in T
      OBVIOUS
    <3> HIDE DEF P, At
    <3> QED BY <3>1, <1>4
  <2> HIDE DEF P, At, N
  <2> QED BY <2>1, <1>2, <1>3
<1>6. ASSUME NEW i \in P
      PROVE  \E n \in 1..N : At(n) = i
  <2> HIDE DEF P
  <2>1. Rank(P, i) \in Nat /\ Rank(P, i) < N
    BY <1>1, RankType
  <2> DEFINE n == Rank(P, i) + 1
  <2>2. n \in 1..N /\ n - 1 = Rank(P, i)
    BY <2>1, <1>2
  <2>3. At(n) \in P /\ Rank(P, At(n)) = Rank(P, i)
    BY <2>2, <1>4
  <2> HIDE DEF n, At
  <2>4. At(n) \in Nat /\ i \in Nat
    BY <2>3, <1>1
  <2>6. ~(At(n) < i) /\ ~(i < At(n))
    <3>1. /\ At(n) < i => Rank(P, At(n)) < Rank(P, i)
          /\ i < At(n) => Rank(P, i) < Rank(P, At(n))
      BY <2>3, <1>1, RankGrows
    <3> QED BY <3>1, <2>3, <2>1
  <2>5. At(n) = i
    BY <2>4, <2>6
  <2> QED BY <2>2, <2>5
<1>7. SeqRange(Keep(s, S)) = {s[At(n)] : n \in 1..N}
  <2> HIDE DEF P, At, N
  <2> QED BY <1>3, <1>5 DEF SeqRange
<1>8. {s[At(n)] : n \in 1..N} = {s[i] : i \in P}
  <2> HIDE DEF P, At, N
  <2> QED BY <1>4, <1>6
<1>9. {s[i] : i \in P} = SeqRange(s) \cap S
  BY DEF SeqRange
<1>10. ASSUME NEW m \in 1..N, NEW n \in 1..N, m < n
       PROVE  At(m) < At(n)
  <2> HIDE DEF P
  <2>1. /\ At(m) \in P /\ Rank(P, At(m)) = m - 1
        /\ At(n) \in P /\ Rank(P, At(n)) = n - 1
    BY <1>4
  <2> HIDE DEF At
  <2>2. At(m) \in Nat /\ At(n) \in Nat
    BY <2>1, <1>1
  <2>3. Rank(P, At(m)) < Rank(P, At(n))
    BY <2>1, <1>10, <1>2
  <2>4. ~(At(n) < At(m))
    <3>1. At(n) < At(m) => Rank(P, At(n)) < Rank(P, At(m))
      BY <2>1, <1>1, RankGrows
    <3>2. ~(Rank(P, At(n)) < Rank(P, At(m)))
      BY <2>1, <1>2, <1>10
    <3> QED BY <3>1, <3>2
  <2>5. At(m) # At(n)
    BY <2>1, <2>3, <1>2
  <2> QED BY <2>2, <2>4, <2>5
<1>11. ASSUME NEW m \in 1..N, NEW n \in 1..N, m < n
       PROVE  \E i, j \in 1..Len(s) : i < j /\ Keep(s, S)[m] = s[i] /\ Keep(s, S)[n] = s[j]
  <2>1. At(m) \in 1..Len(s) /\ At(n) \in 1..Len(s)
    <3>1. P \subseteq 1..Len(s)
      OBVIOUS
    <3> HIDE DEF P, At
    <3> QED BY <3>1, <1>4
  <2> HIDE DEF P, At, N
  <2> QED BY <2>1, <1>3, <1>10, <1>11
<1> HIDE DEF P, At, N
<1> QED BY <1>5, <1>7, <1>8, <1>9, <1>11 DEF InOrderOf
-----------------------------------------------------------------------------
\* The first and last keys of a table.
LEMMA Ends ==
    ASSUME NEW D \in SUBSET Keys, D # {}
    PROVE  /\ Least(D) \in D /\ \A j \in D : Least(D) <= j
           /\ Greatest(D) \in D /\ \A j \in D : Greatest(D) >= j
<1>1. D \in SUBSET Nat /\ NumKeys \in Nat /\ \A k \in D : k <= NumKeys
  BY ConfigAssumption DEF Keys
<1>2. \E k \in D : \A j \in D : k <= j
  BY <1>1, MinExists
<1>3. \E k \in D : \A j \in D : k >= j
  <2>1. PICK k \in D : \A j \in D : j <= k
    BY <1>1, MaxExists
  <2>2. \A j \in D : k >= j
    BY <1>1, <2>1
  <2> QED BY <2>2
<1> QED BY <1>2, <1>3 DEF Least, Greatest

LEMMA KeyRange ==
    ASSUME NEW t, DOMAIN sst[t] \in (SUBSET Keys) \ {{}}
    PROVE  /\ MinKey(t) \in DOMAIN sst[t] /\ MaxKey(t) \in DOMAIN sst[t]
           /\ MinKey(t) \in Nat /\ MaxKey(t) \in Nat
           /\ \A k \in DOMAIN sst[t] : k \in Nat /\ MinKey(t) <= k /\ k <= MaxKey(t)
<1>1. /\ MinKey(t) \in DOMAIN sst[t] /\ MaxKey(t) \in DOMAIN sst[t]
      /\ \A k \in DOMAIN sst[t] : MinKey(t) <= k /\ MaxKey(t) >= k
  BY Ends DEF MinKey, MaxKey
<1>2. \A k \in DOMAIN sst[t] : k \in Nat
  BY DEF Keys
<1> QED BY <1>1, <1>2

\* What it means for a table to lie below another in the order of the keys.
LEMMA Below ==
    ASSUME NEW t, NEW u, DOMAIN sst[t] \in (SUBSET Keys) \ {{}},
           DOMAIN sst[u] \in (SUBSET Keys) \ {{}}
    PROVE  MaxKey(t) < MinKey(u) <=> \A k \in DOMAIN sst[t], h \in DOMAIN sst[u] : k < h
<1>1. ASSUME MaxKey(t) < MinKey(u), NEW k \in DOMAIN sst[t], NEW h \in DOMAIN sst[u]
      PROVE  k < h
  <2>1. k <= MaxKey(t) /\ MinKey(u) <= h /\ k \in Nat /\ h \in Nat /\ MaxKey(t) \in Nat /\ MinKey(u) \in Nat
    BY KeyRange
  <2> QED BY <2>1, <1>1
<1>2. ASSUME \A k \in DOMAIN sst[t], h \in DOMAIN sst[u] : k < h
      PROVE  MaxKey(t) < MinKey(u)
  BY <1>2, KeyRange
<1> QED BY <1>1, <1>2
-----------------------------------------------------------------------------
\* The first of the tables ids with the key k.
FirstWith(ids, i, k) ==
    k \in DOMAIN sst[ids[i]] /\ \A j \in 1..(i - 1) : k \notin DOMAIN sst[ids[j]]

\* A merge has every key of its inputs once, with the entry of the first table that
\* has it, except the tombstones it is told to drop.
HasFirsts(f, ids) ==
    \A k \in DOMAIN f : \E i \in 1..Len(ids) : FirstWith(ids, i, k) /\ f[k] = sst[ids[i]][k]

HasAllBut(f, ids, drop) ==
    \A t \in SeqRange(ids) : \A k \in DOMAIN sst[t] :
        \/ k \in DOMAIN f
        \/ drop /\ \E i \in 1..Len(ids) : FirstWith(ids, i, k) /\ IsTombstone(sst[ids[i]][k])

LEMMA MergedFacts ==
    ASSUME NEW T, NEW ids \in Seq(T), NEW drop
    PROVE  HasFirsts(Merged(ids, drop), ids) /\ HasAllBut(Merged(ids, drop), ids, drop)
<1> DEFINE I(k) == CHOOSE i \in 1..Len(ids) :
                      /\ k \in DOMAIN sst[ids[i]]
                      /\ \A j \in 1..(i - 1) : k \notin DOMAIN sst[ids[j]]
           All == UNION {DOMAIN sst[t] : t \in SeqRange(ids)}
<1>1. ASSUME NEW k \in All
      PROVE  I(k) \in 1..Len(ids) /\ FirstWith(ids, I(k), k)
  <2> DEFINE H == {i \in 1..Len(ids) : k \in DOMAIN sst[ids[i]]}
  <2>1. H \in SUBSET Nat /\ H # {}
    BY DEF SeqRange
  <2>2. PICK m \in H : \A n \in H : m <= n
    <3> HIDE DEF H
    <3> QED BY <2>1, MinExists
  <2>3. \A j \in 1..(m - 1) : k \notin DOMAIN sst[ids[j]]
    BY <2>2
  <2> QED BY <2>2, <2>3 DEF FirstWith
<1> DEFINE Kept == {k \in All : ~(drop /\ IsTombstone(sst[ids[I(k)]][k]))}
<1>2. Merged(ids, drop) = [k \in Kept |-> sst[ids[I(k)]][k]]
  BY DEF Merged
<1> HIDE DEF I
<1>3. ASSUME NEW k \in DOMAIN Merged(ids, drop)
      PROVE  \E i \in 1..Len(ids) : FirstWith(ids, i, k) /\ Merged(ids, drop)[k] = sst[ids[i]][k]
  BY <1>1, <1>2
<1>4. ASSUME NEW t \in SeqRange(ids), NEW k \in DOMAIN sst[t]
      PROVE  \/ k \in DOMAIN Merged(ids, drop)
             \/ drop /\ \E i \in 1..Len(ids) : FirstWith(ids, i, k) /\ IsTombstone(sst[ids[i]][k])
  <2>1. k \in All
    OBVIOUS
  <2> QED BY <2>1, <1>1, <1>2
<1> QED BY <1>3, <1>4 DEF HasFirsts, HasAllBut

\* The output tables are the parts of the merge, none empty, in the order of the keys.
LEMMA SplitFacts ==
    ASSUME NEW f, DOMAIN f \in SUBSET Keys
    PROVE  /\ Split(f) = [i \in 1..Len(Split(f)) |-> Split(f)[i]] /\ Len(Split(f)) \in Nat
           /\ \A i \in 1..Len(Split(f)) :
                /\ DOMAIN Split(f)[i] \in (SUBSET DOMAIN f) \ {{}}
                /\ \A k \in DOMAIN Split(f)[i] : Split(f)[i][k] = f[k]
           /\ \A k \in DOMAIN f : \E i \in 1..Len(Split(f)) : k \in DOMAIN Split(f)[i]
           /\ \A i, j \in 1..Len(Split(f)) : i < j =>
                \A k \in DOMAIN Split(f)[i], h \in DOMAIN Split(f)[j] : k < h
<1> DEFINE D == DOMAIN f
           T == TargetTableSize
           C == Cardinality(D)
           N == (C + T - 1) \div T
           Part(i) == {j \in D : Rank(D, j) \div T = i - 1}
<1>1. D \in SUBSET Nat /\ D \in SUBSET (0..NumKeys) /\ IsFiniteSet(D) /\ NumKeys \in Nat
  <2>1. NumKeys \in Nat /\ D \in SUBSET Nat /\ D \in SUBSET (0..NumKeys) /\ IsFiniteSet(0..NumKeys)
    BY ConfigAssumption, FS_Interval DEF Keys
  <2> QED BY <2>1, FS_Subset
<1>2. C \in Nat /\ T \in Nat \ {0} /\ N \in Nat
  BY <1>1, FS_CardinalityType, ConfigAssumption
<1>3. Split(f) = [i \in 1..N |-> [k \in Part(i) |-> f[k]]]
  BY DEF Split
<1>4. Len(Split(f)) = N
  <2> HIDE DEF N, Part
  <2> QED BY <1>2, <1>3
<1> HIDE DEF D
<1>5. ASSUME NEW i \in 1..N PROVE Part(i) # {} /\ Part(i) \subseteq D
  <2> DEFINE r == (i - 1) * T
  <2>1. r \in Nat /\ r < C /\ r \div T = i - 1
    <3>1. i - 1 \in Nat /\ i - 1 < N
      BY <1>2
    <3>2. \A q \in Nat : q < (C + T - 1) \div T => q * T \in Nat /\ q * T < C /\ (q * T) \div T = q
      <4> HIDE DEF C, T
      <4> QED BY <1>2
    <3> QED BY <3>1, <3>2
  <2>2. PICK k \in D : Rank(D, k) = r
    <3> HIDE DEF r
    <3> QED BY <2>1, <1>1, RankOnto
  <2> QED BY <2>1, <2>2
<1>6. ASSUME NEW k \in D PROVE \E i \in 1..N : k \in Part(i)
  <2>1. Rank(D, k) \in Nat /\ Rank(D, k) < C
    BY <1>1, RankType
  <2>2. \A r \in Nat : r < C => r \div T \in Nat /\ r \div T < (C + T - 1) \div T
    <3> HIDE DEF C, T
    <3> QED BY <1>2
  <2> DEFINE i == Rank(D, k) \div T + 1
  <2>3. i \in 1..N /\ i - 1 = Rank(D, k) \div T
    <3>1. Rank(D, k) \div T \in Nat /\ Rank(D, k) \div T < N
      BY <2>1, <2>2
    <3> HIDE DEF N
    <3> QED BY <1>2, <3>1
  <2> QED BY <2>3
<1>7. ASSUME NEW i \in 1..N, NEW j \in 1..N, i < j, NEW k \in Part(i), NEW h \in Part(j)
      PROVE  k < h
  <2>1. k \in D /\ h \in D /\ k \in Nat /\ h \in Nat
    BY <1>1
  <2>2. Rank(D, k) \in Nat /\ Rank(D, h) \in Nat /\ Rank(D, k) \div T = i - 1 /\ Rank(D, h) \div T = j - 1
    BY <1>1, <2>1, RankType
  <2>3. \A a, b \in Nat : a <= b => a \div T <= b \div T
    <3> HIDE DEF T
    <3> QED BY <1>2
  <2>4. Rank(D, k) < Rank(D, h)
    <3>1. i - 1 < j - 1 /\ i - 1 \in Nat /\ j - 1 \in Nat
      BY <1>2, <1>7
    <3>2. ~(Rank(D, h) <= Rank(D, k))
      <4>1. Rank(D, h) <= Rank(D, k) => j - 1 <= i - 1
        BY <2>2, <2>3
      <4> QED BY <4>1, <3>1
    <3> QED BY <2>2, <3>2
  <2>5. k # h
    BY <2>2, <2>4
  <2>6. ~(h < k)
    <3>1. h < k => Rank(D, h) < Rank(D, k)
      BY <1>1, <2>1, RankGrows
    <3> QED BY <3>1, <2>2, <2>4
  <2> QED BY <2>1, <2>5, <2>6
<1> HIDE DEF N, Part, C, T
<1>8. \A i \in 1..N : DOMAIN Split(f)[i] = Part(i) /\ \A k \in Part(i) : Split(f)[i][k] = f[k]
  BY <1>3
<1>9. Split(f) = [i \in 1..N |-> Split(f)[i]]
  BY <1>3
<1>10. \A i \in 1..N : DOMAIN Split(f)[i] \in (SUBSET D) \ {{}}
  BY <1>5, <1>8
<1>11. \A k \in D : \E i \in 1..N : k \in DOMAIN Split(f)[i]
  BY <1>6, <1>8
<1>12. \A i, j \in 1..N : i < j => \A k \in DOMAIN Split(f)[i], h \in DOMAIN Split(f)[j] : k < h
  BY <1>7, <1>8
<1> QED BY <1>2, <1>4, <1>8, <1>9, <1>10, <1>11, <1>12 DEF D
-----------------------------------------------------------------------------
\* Sizes are numbers, 0 for an empty level and at most the number of keys for a
\* level whose tables share none.
LEMMA SizeFacts ==
    ASSUME NEW T, NEW ids \in Seq(T)
    PROVE  /\ SumOfSizes(ids) \in Nat
           /\ ids = <<>> => SumOfSizes(ids) = 0
           /\ (\A t, u \in SeqRange(ids) : t # u => DOMAIN sst[t] \cap DOMAIN sst[u] = {})
                 => SumOfSizes(ids) <= NumKeys
<1> DEFINE R == SeqRange(ids) \cap readers
           P == {p \in R \X Keys : p[2] \in DOMAIN sst[p[1]]}
<1>1. IsFiniteSet(Keys) /\ Cardinality(Keys) = NumKeys
  BY FS_Interval, ConfigAssumption DEF Keys
<1>2. IsFiniteSet(R)
  <2> DEFINE f == [i \in 1..Len(ids) |-> ids[i]]
  <2>1. f \in Surjection(1..Len(ids), SeqRange(ids)) /\ IsFiniteSet(1..Len(ids))
    <3>1. f \in [1..Len(ids) -> SeqRange(ids)] /\ \A t \in SeqRange(ids) : \E i \in 1..Len(ids) : f[i] = t
      BY DEF SeqRange
    <3>2. IsFiniteSet(1..Len(ids))
      BY FS_Interval
    <3> HIDE DEF f
    <3> QED BY <3>1, <3>2 DEF Surjection
  <2>2. IsFiniteSet(SeqRange(ids))
    <3> HIDE DEF f
    <3> QED BY <2>1, FS_Surjection
  <2> QED BY <2>2, FS_Intersection
<1>3. IsFiniteSet(P) /\ Cardinality(P) \in Nat
  <2>1. IsFiniteSet(R \X Keys)
    <3> HIDE DEF R
    <3> QED BY <1>1, <1>2, FS_Product
  <2>2. P \in SUBSET (R \X Keys)
    OBVIOUS
  <2> HIDE DEF P, R
  <2> QED BY <2>1, <2>2, FS_Subset, FS_CardinalityType
<1>4. SumOfSizes(ids) = Cardinality(P)
  BY DEF SumOfSizes
<1>5. ids = <<>> => P = {}
  BY DEF SeqRange
<1>6. ASSUME \A t, u \in SeqRange(ids) : t # u => DOMAIN sst[t] \cap DOMAIN sst[u] = {}
      PROVE  Cardinality(P) <= NumKeys
  <2> DEFINE g == [p \in P |-> p[2]]
  <2>1. g \in Injection(P, Keys)
    <3>1. \A p \in P : p = <<p[1], p[2]>> /\ p[1] \in SeqRange(ids) /\ p[2] \in Keys /\ p[2] \in DOMAIN sst[p[1]]
      OBVIOUS
    <3>2. \A p, q \in P : p[2] = q[2] => p = q
      BY <3>1, <1>6
    <3>3. \A p \in P : p[2] \in Keys
      BY <3>1
    <3> HIDE DEF P
    <3>4. g \in [P -> Keys] /\ \A p, q \in P : g[p] = g[q] => p = q
      BY <3>2, <3>3
    <3> HIDE DEF g
    <3> QED BY <3>4 DEF Injection, IsInjective
  <2> HIDE DEF g, P
  <2> QED BY <2>1, <1>1, FS_Injection
<1> HIDE DEF P
<1> QED BY <1>3, <1>4, <1>5, <1>6, FS_EmptySet

\* Among the levels over their size there is one with the best score: what the
\* picker's loop ends with is defined.
LEMMA BestExists ==
    ASSUME NEW L \in SUBSET Nat, IsFiniteSet(L), L # {},
           NEW S \in [L -> Nat], NEW M \in [L -> Nat \ {0}]
    PROVE  \E l \in L : \A m \in L :
              S[l] * M[m] > S[m] * M[l] \/ (S[l] * M[m] = S[m] * M[l] /\ l <= m)
<1> DEFINE Beats(l, m) == S[l] * M[m] > S[m] * M[l] \/ (S[l] * M[m] = S[m] * M[l] /\ l < m)
           Above(l) == {m \in L : Beats(m, l)}
           Ranks == {Cardinality(Above(l)) : l \in L}
<1>1. ASSUME NEW a \in L, NEW b \in L, NEW c \in L, Beats(a, b), Beats(b, c)
      PROVE  Beats(a, c)
  <2>1. \A p, q, r \in Nat, x, y, z \in Nat \ {0}, i, j, k \in Nat :
           /\ p * y > q * x \/ (p * y = q * x /\ i < j)
           /\ q * z > r * y \/ (q * z = r * y /\ j < k)
           => p * z > r * x \/ (p * z = r * x /\ i < k)
    <3> SUFFICES ASSUME NEW p \in Nat, NEW q \in Nat, NEW r \in Nat, NEW x \in Nat \ {0},
                        NEW y \in Nat \ {0}, NEW z \in Nat \ {0},
                        NEW i \in Nat, NEW j \in Nat, NEW k \in Nat,
                        p * y > q * x \/ (p * y = q * x /\ i < j),
                        q * z > r * y \/ (q * z = r * y /\ j < k)
                 PROVE  p * z > r * x \/ (p * z = r * x /\ i < k)
      OBVIOUS
    <3>1. CASE p * y = q * x /\ q * z = r * y
      <4>1. y * (p * z) = y * (r * x)
        <5>1. y * (p * z) = z * (p * y) /\ y * (r * x) = x * (r * y) /\ z * (q * x) = x * (q * z)
          OBVIOUS
        <5> QED BY <5>1, <3>1
      <4>2. p * z = r * x
        BY <4>1
      <4> QED BY <4>2, <3>1
    <3>2. CASE p * y > q * x \/ q * z > r * y
      <4>1. p * y >= q * x /\ q * z >= r * y
        OBVIOUS
      <4>2. z * (p * y) >= z * (q * x) /\ x * (q * z) >= x * (r * y)
        BY <4>1
      <4>3. z * (p * y) > z * (q * x) \/ x * (q * z) > x * (r * y)
        BY <3>2
      <4>4. z * (p * y) > x * (r * y)
        <5>1. z * (q * x) = x * (q * z)
          OBVIOUS
        <5> QED BY <5>1, <4>2, <4>3
      <4>5. y * (p * z) > y * (r * x)
        <5>1. y * (p * z) = z * (p * y) /\ y * (r * x) = x * (r * y)
          OBVIOUS
        <5> QED BY <5>1, <4>4
      <4>6. p * z > r * x
        BY <4>5
      <4> QED BY <4>6
    <3> QED BY <3>1, <3>2
  <2> QED BY <2>1, <1>1, SMTT(30)
<1>2. \A l \in L : ~Beats(l, l)
  <2>1. \A p \in Nat, x \in Nat, l \in Nat : ~(p * x > p * x) /\ ~(l < l)
    OBVIOUS
  <2> QED BY <2>1
<1>3. \A l, m \in L : Beats(l, m) \/ Beats(m, l) \/ l = m
  <2>1. \A p, q, x, y, l, m \in Nat :
           p * x > q * y \/ q * y > p * x \/ (p * x = q * y /\ (l < m \/ m < l \/ l = m))
    OBVIOUS
  <2>2. \A l, m \in L : S[l] \in Nat /\ S[m] \in Nat /\ M[l] \in Nat /\ M[m] \in Nat /\ l \in Nat /\ m \in Nat
    OBVIOUS
  <2> QED BY <2>1, <2>2
<1> HIDE DEF Beats
<1>4. \A l \in L : Above(l) \in SUBSET L /\ IsFiniteSet(Above(l)) /\ Cardinality(Above(l)) \in Nat
  <2>1. \A l \in L : Above(l) \in SUBSET L
    OBVIOUS
  <2> HIDE DEF Above
  <2> QED BY <2>1, FS_Subset, FS_CardinalityType
<1>5. PICK n \in Ranks : \A m \in Ranks : n <= m
  <2>1. Ranks \in SUBSET Nat /\ Ranks # {}
    <3> HIDE DEF Above
    <3> QED BY <1>4
  <2> HIDE DEF Ranks
  <2> QED BY <2>1, MinExists
<1>6. PICK l \in L : n = Cardinality(Above(l))
  BY <1>5
<1>10. \A m \in L : Cardinality(Above(l)) <= Cardinality(Above(m))
  BY <1>5, <1>6
<1>7. Above(l) = {}
  <2> SUFFICES ASSUME NEW m \in Above(l) PROVE FALSE
    OBVIOUS
  <2>1. m \in L /\ Beats(m, l)
    OBVIOUS
  <2>2. Above(m) \in SUBSET Above(l) /\ m \notin Above(m)
    BY <2>1, <1>1, <1>2
  <2>3. Cardinality(Above(m)) < Cardinality(Above(l))
    <3>1. Above(m) # Above(l)
      BY <2>2
    <3> HIDE DEF Above
    <3>2. /\ Cardinality(Above(m)) <= Cardinality(Above(l))
          /\ Cardinality(Above(l)) = Cardinality(Above(m)) => Above(l) = Above(m)
      BY <2>2, <1>4, FS_Subset
    <3> QED BY <3>1, <3>2, <2>1, <1>4
  <2> HIDE DEF Above
  <2> QED BY <2>1, <2>3, <1>4, <1>10
<1>8. \A m \in L : Beats(l, m) \/ l = m
  BY <1>7, <1>3
<1>9. ASSUME NEW m \in L
      PROVE  S[l] * M[m] > S[m] * M[l] \/ (S[l] * M[m] = S[m] * M[l] /\ l <= m)
  <2>1. l \in Nat /\ m \in Nat
    OBVIOUS
  <2> QED BY <1>8, <2>1 DEF Beats
<1> QED BY <1>9
-----------------------------------------------------------------------------
LEMMA RangeType ==
    ASSUME NEW T, NEW s \in Seq(T)
    PROVE  SeqRange(s) \subseteq T /\ Len(s) \in Nat /\ \A i \in 1..Len(s) : s[i] \in SeqRange(s)
BY DEF SeqRange

LEMMA SeqGrows == ASSUME NEW S, NEW T, S \subseteq T, NEW s \in Seq(S) PROVE s \in Seq(T)
<1>1. Len(s) \in Nat /\ s = [i \in 1..Len(s) |-> s[i]] /\ \A i \in 1..Len(s) : s[i] \in T
  BY RangeType
<1> QED BY <1>1

LEMMA ConcatFacts ==
    ASSUME NEW T, NEW K \in Seq(T), NEW A \in Seq(T)
    PROVE  /\ K \o A \in Seq(T) /\ Len(K \o A) = Len(K) + Len(A)
           /\ Len(K) \in Nat /\ Len(A) \in Nat
           /\ \A i \in 1..Len(K) : (K \o A)[i] = K[i]
           /\ \A i \in 1..Len(K \o A) : i > Len(K) =>
                i - Len(K) \in 1..Len(A) /\ (K \o A)[i] = A[i - Len(K)]
           /\ SeqRange(K \o A) = SeqRange(K) \cup SeqRange(A)
<1> DEFINE c == K \o A
<1>1. /\ c \in Seq(T) /\ Len(c) = Len(K) + Len(A)
      /\ Len(K) \in Nat /\ Len(A) \in Nat
      /\ \A i \in 1..Len(K) : c[i] = K[i]
      /\ \A i \in 1..Len(A) : c[Len(K) + i] = A[i]
      /\ \A i \in 1..Len(c) : i > Len(K) => i - Len(K) \in 1..Len(A) /\ c[i] = A[i - Len(K)]
  OBVIOUS
<1> HIDE DEF c
<1>2. SeqRange(c) = SeqRange(K) \cup SeqRange(A)
  <2>1. \A i \in 1..Len(K) : i \in 1..Len(c)
    BY <1>1
  <2>2. \A i \in 1..Len(A) : Len(K) + i \in 1..Len(c)
    BY <1>1
  <2>3. \A i \in 1..Len(c) : i \in 1..Len(K) \/ i > Len(K)
    BY <1>1
  <2>4. ASSUME NEW x \in SeqRange(c) PROVE x \in SeqRange(K) \cup SeqRange(A)
    <3>1. PICK i \in 1..Len(c) : x = c[i]
      BY DEF SeqRange
    <3>2. CASE i \in 1..Len(K)
      BY <3>1, <3>2, <1>1 DEF SeqRange
    <3>3. CASE i > Len(K)
      BY <3>1, <3>3, <1>1 DEF SeqRange
    <3> QED BY <3>2, <3>3, <2>3
  <2>5. ASSUME NEW x \in SeqRange(K) PROVE x \in SeqRange(c)
    BY <1>1, <2>1 DEF SeqRange
  <2>6. ASSUME NEW x \in SeqRange(A) PROVE x \in SeqRange(c)
    <3>1. PICK i \in 1..Len(A) : x = A[i]
      BY DEF SeqRange
    <3>2. Len(K) + i \in 1..Len(c) /\ c[Len(K) + i] = x
      BY <3>1, <1>1, <2>2
    <3> QED BY <3>2 DEF SeqRange
  <2> QED BY <2>4, <2>5, <2>6
<1> QED BY <1>1, <1>2 DEF c

LEMMA LevelTypes ==
    ASSUME TypeOK
    PROVE  /\ \A l \in AllLevels : /\ levels[l] \in Seq(1..(nextID - 1))
                                   /\ SeqRange(levels[l]) \subseteq 1..(nextID - 1)
           /\ 0 \in Searched /\ \A l \in Searched : l \in AllLevels /\ l + 1 \in AllLevels /\ l \in Nat
           /\ \A l \in AllLevels : l \in Nat
           /\ \A t \in DOMAIN sst : t \in Nat /\ t < nextID
<1>1. \A s \in Seq(1..(nextID - 1)) : SeqRange(s) \subseteq 1..(nextID - 1)
  BY RangeType
<1>2. MaxLevels \in Nat \ {0, 1}
  BY ConfigAssumption
<1>3. 0 \in Searched /\ \A l \in Searched : l \in AllLevels /\ l + 1 \in AllLevels /\ l \in Nat
  BY <1>2 DEF Searched, AllLevels
<1>4. \A l \in AllLevels : l \in Nat
  BY <1>2 DEF AllLevels
<1>5. \A t \in DOMAIN sst : t \in Nat /\ t < nextID
  BY DEF TypeOK
<1> QED BY <1>1, <1>3, <1>4, <1>5 DEF TypeOK

\* What the picker chooses: all of level 0, or the first table of a level that is over
\* its size; with it the tables of the next level that it meets.
LEMMA PickFacts ==
    ASSUME TypeOK, NEW tk, tk = PickCompaction, tk # NoTask
    PROVE  /\ tk.from \in Searched
           /\ tk.inFrom \in Seq(1..(nextID - 1)) /\ tk.inFrom # <<>>
           /\ SeqRange(tk.inFrom) \subseteq SeqRange(levels[tk.from])
           /\ tk.from = 0 => tk.inFrom = levels[0]
           /\ tk.inTo = FindOverlapping(tk.inFrom, levels[tk.from + 1])
           /\ tk.bottom = IsBottomLevel(tk.from + 1)
           /\ tk.from # 0 => SumOfSizes(levels[tk.from]) > MaxBytesForLevel(tk.from)
<1> DEFINE L == {l \in Searched \ {0} : SumOfSizes(levels[l]) > MaxBytesForLevel(l)}
           Good(l) == \A m \in L :
              \/ SumOfSizes(levels[l]) * MaxBytesForLevel(m) > SumOfSizes(levels[m]) * MaxBytesForLevel(l)
              \/ /\ SumOfSizes(levels[l]) * MaxBytesForLevel(m) = SumOfSizes(levels[m]) * MaxBytesForLevel(l)
                 /\ l <= m
           Best == CHOOSE l \in L : Good(l)
<1>1. PickCompaction = IF Len(levels[0]) >= L0CompactionTrigger THEN Task(0, levels[0])
                       ELSE IF L # {} THEN Task(Best, <<levels[Best][1]>>) ELSE NoTask
  BY DEF PickCompaction
<1>2. CASE Len(levels[0]) >= L0CompactionTrigger
  <2>1. tk = Task(0, levels[0])
    BY <1>1, <1>2
  <2>2. levels[0] # <<>> /\ levels[0] \in Seq(1..(nextID - 1)) /\ 0 \in Searched
    <3>1. levels[0] = <<>> => Len(levels[0]) = 0
      OBVIOUS
    <3>2. L0CompactionTrigger \in Nat \ {0}
      BY ConfigAssumption
    <3> QED BY <3>1, <3>2, <1>2, LevelTypes
  <2>3. tk.from = 0 /\ tk.inFrom = levels[0]
        /\ tk.inTo = FindOverlapping(levels[0], levels[0 + 1]) /\ tk.bottom = IsBottomLevel(0 + 1)
    BY <2>1 DEF Task
  <2> QED BY <2>2, <2>3
<1>3. CASE ~(Len(levels[0]) >= L0CompactionTrigger) /\ L # {}
  <2> DEFINE S == [l \in L |-> SumOfSizes(levels[l])]
             M == [l \in L |-> MaxBytesForLevel(l)]
  <2>1. L \in SUBSET Nat /\ IsFiniteSet(L)
    <3>1. L \in SUBSET Searched /\ Searched \in SUBSET Nat /\ IsFiniteSet(Searched)
      BY LevelTypes, FS_Interval, ConfigAssumption DEF Searched
    <3> HIDE DEF L
    <3> QED BY <3>1, FS_Subset
  <2>2. S \in [L -> Nat] /\ M \in [L -> Nat \ {0}]
    <3>1. \A l \in L : SumOfSizes(levels[l]) \in Nat /\ MaxBytesForLevel(l) \in Nat \ {0}
      <4>1. \A l \in L : l \in AllLevels /\ l \in Searched \ {0}
        BY LevelTypes
      <4> HIDE DEF L
      <4> QED BY <4>1, LevelTypes, SizeFacts, LevelSizesAssumption
    <3> HIDE DEF L
    <3> QED BY <3>1
  <2>3. \E l \in L : Good(l)
    <3>1. \E l \in L : \A m \in L : S[l] * M[m] > S[m] * M[l] \/ (S[l] * M[m] = S[m] * M[l] /\ l <= m)
      <4> HIDE DEF S, M, L
      <4> QED BY <2>1, <2>2, <1>3, BestExists
    <3> HIDE DEF L
    <3> QED BY <3>1
  <2>4. Best \in L
    <3> HIDE DEF L, Good
    <3> QED BY <2>3
  <2> HIDE DEF Best
  <2>5. Best \in Searched /\ Best # 0 /\ SumOfSizes(levels[Best]) > MaxBytesForLevel(Best)
    BY <2>4
  <2>6. levels[Best] # <<>>
    <3>1. levels[Best] = <<>> => SumOfSizes(levels[Best]) = 0
      BY <2>5, LevelTypes, SizeFacts
    <3>2. MaxBytesForLevel(Best) \in Nat
      BY <2>5, LevelSizesAssumption
    <3> QED BY <2>5, <3>1, <3>2
  <2>7. levels[Best] \in Seq(1..(nextID - 1)) /\ 1 \in 1..Len(levels[Best])
    BY <2>5, <2>6, LevelTypes
  <2> DEFINE t == levels[Best][1]
  <2>8. t \in SeqRange(levels[Best]) /\ t \in 1..(nextID - 1)
    BY <2>7, RangeType
  <2>9. tk = Task(Best, <<t>>)
    BY <1>1, <1>3
  <2>10. tk.from = Best /\ tk.inFrom = <<t>>
         /\ tk.inTo = FindOverlapping(<<t>>, levels[Best + 1]) /\ tk.bottom = IsBottomLevel(Best + 1)
    BY <2>9 DEF Task
  <2> HIDE DEF t
  <2>11. SeqRange(<<t>>) = {t} /\ <<t>> # <<>> /\ <<t>> \in Seq(1..(nextID - 1))
    BY <2>8 DEF SeqRange
  <2> QED BY <2>5, <2>8, <2>10, <2>11
<1> QED BY <1>1, <1>2, <1>3
-----------------------------------------------------------------------------
\* What the invariants say of the tables of the manifest depends on their files alone.
LEMMA SameTables ==
    ASSUME LevelsDisjoint, NewerByLevel, levels' = levels, \A t \in Tables : sst'[t] = sst[t],
           ~unread' => ~unread
    PROVE  LevelsDisjoint' /\ NewerByLevel' /\ Tables' = Tables
<1>1. Tables' = Tables
  BY DEF Tables, SeqRange
<1>2. \A l \in AllLevels : \A t \in SeqRange(levels[l]) : sst'[t] = sst[t]
  BY DEF Tables
<1>3. LevelsDisjoint'
  <2> SUFFICES ASSUME ~unread', NEW l \in AllLevels \ {0}, NEW i \in 1..Len(levels[l]),
                      NEW j \in 1..Len(levels[l]), i # j
               PROVE  (\/ MaxKey(levels[l][i]) < MinKey(levels[l][j])
                       \/ MaxKey(levels[l][j]) < MinKey(levels[l][i]))'
    BY DEF LevelsDisjoint
  <2>1. levels[l][i] \in SeqRange(levels[l]) /\ levels[l][j] \in SeqRange(levels[l])
    BY DEF SeqRange
  <2>2. sst'[levels[l][i]] = sst[levels[l][i]] /\ sst'[levels[l][j]] = sst[levels[l][j]]
    BY <1>2, <2>1
  <2>3. \/ MaxKey(levels[l][i]) < MinKey(levels[l][j])
        \/ MaxKey(levels[l][j]) < MinKey(levels[l][i])
    BY DEF LevelsDisjoint
  <2> QED BY <2>2, <2>3 DEF MinKey, MaxKey
<1>4. NewerByLevel'
  BY <1>2 DEF NewerByLevel
<1> QED BY <1>1, <1>3, <1>4

LEMMA InitLInv == Init => LInv
<1> SUFFICES ASSUME Init PROVE LInv
  OBVIOUS
<1> USE DEF Init
<1>1. Tables = {} /\ \A l \in AllLevels : Len(levels[l]) = 0 /\ SeqRange(levels[l]) = {}
  BY DEF Tables, SeqRange
<1>2. \A l \in Searched : levelTables[l] = <<>> /\ l \in AllLevels
  BY ConfigAssumption DEF SearchedOf, Searched, AllLevels
<1>3. TypeOK /\ Numbered
  <2>1. DOMAIN sst = {}
    OBVIOUS
  <2>2. \A l \in AllLevels : levels[l] \in Seq(1..(nextID - 1))
    OBVIOUS
  <2>3. \A l \in Searched : levelTables[l] \in Seq(1..(nextID - 1))
    <3>1. <<>> \in Seq(1..(nextID - 1))
      OBVIOUS
    <3> QED BY <1>2, <3>1
  <2>4. nextID \in Nat /\ DOMAIN sst \subseteq 1..(nextID - 1) /\ flushes \in Nat
    BY <2>1
  <2> QED BY <2>1, <2>2, <2>3, <2>4 DEF TypeOK, Numbered
<1>4. StageFacts /\ ManifestHasFiles
  BY <1>1 DEF StageFacts, ManifestHasFiles, Outputs, SeqRange
<1>5. ReaderFacts
  BY <1>1, <1>2 DEF ReaderFacts, SeqRange
<1>6. LevelsDisjoint /\ NewerByLevel
  BY <1>1 DEF LevelsDisjoint, NewerByLevel
<1> QED BY <1>3, <1>4, <1>5, <1>6 DEF LInv
-----------------------------------------------------------------------------
\* Steps that only open or close readers.

LEMMA QuietParts ==
    ASSUME LInv, UNCHANGED <<sst, levels, nextID>>, ~unread' => ~unread
    PROVE  /\ LevelsDisjoint' /\ NewerByLevel' /\ Tables' = Tables /\ ManifestHasFiles' /\ Numbered'
           /\ Tables \subseteq DOMAIN sst /\ SeqRange(<<>>) = {}
           /\ Outputs \subseteq 1..(nextID - 1)
<1>1. LevelsDisjoint' /\ NewerByLevel' /\ Tables' = Tables
  BY SameTables DEF LInv
<1>2. ManifestHasFiles' /\ Numbered' /\ Tables \subseteq DOMAIN sst
  BY <1>1 DEF LInv, ManifestHasFiles, Numbered
<1>3. SeqRange(<<>>) = {}
  BY DEF SeqRange
<1>4. Outputs \subseteq 1..(nextID - 1)
  BY DEF LInv, StageFacts, TypeOK
<1> QED BY <1>1, <1>2, <1>3, <1>4

LEMMA FlushInstallStep == ASSUME LInv, FlushInstall PROVE LInv'
<1>1. UNCHANGED <<sst, levels, nextID, flushes, unread>> /\ Tables \subseteq DOMAIN sst
  BY DEF FlushInstall, bounds, LInv, ManifestHasFiles
<1>2. readers' = readers \cup Outputs /\ levelTables' = SearchedOf(levels) /\ stage = "flushed"
      /\ stage' = "idle" /\ outputs' = <<>> /\ open' = open /\ task' = task
  BY DEF FlushInstall, Outputs
<1>3. TypeOK'
  <2>1. readers' \subseteq 1..(nextID - 1)
    BY <1>1, <1>2, QuietParts DEF LInv, TypeOK
  <2>2. \A l \in Searched : levelTables'[l] \in Seq(1..(nextID - 1))
    BY <1>2, LevelTypes DEF LInv, SearchedOf
  <2> QED BY <1>1, <1>2, <2>1, <2>2 DEF LInv, TypeOK
<1>4. StageFacts'
  BY <1>1, <1>2, QuietParts DEF StageFacts, Outputs
<1>5. ReaderFacts'
  <2>1. readers' \subseteq DOMAIN sst'
    BY <1>1, <1>2 DEF LInv, ReaderFacts, StageFacts
  <2>2. open' /\ ~unread' => Tables \subseteq readers'
    BY <1>1, <1>2 DEF LInv, ReaderFacts, Unopened
  <2>3. \A l \in Searched : SeqRange(levelTables'[l]) \subseteq Tables /\ levelTables' = SearchedOf(levels)'
    BY <1>1, <1>2, LevelTypes DEF LInv, SearchedOf, Tables
  <2> QED BY <1>1, <1>2, <2>1, <2>2, <2>3, QuietParts DEF ReaderFacts, SeqRange
<1> QED BY <1>1, <1>2, <1>3, <1>4, <1>5, QuietParts DEF LInv
LEMMA CompactInstallStep == ASSUME LInv, CompactInstall PROVE LInv'
<1>1. UNCHANGED <<sst, levels, nextID, flushes, unread>> /\ Tables \subseteq DOMAIN sst
  BY DEF CompactInstall, bounds, LInv, ManifestHasFiles
<1>2. readers' = (readers \cup Outputs) \ Inputs /\ levelTables' = SearchedOf(levels)
      /\ stage = "committed" /\ stage' = "installed" /\ UNCHANGED <<open, task, outputs>>
  BY DEF CompactInstall, Outputs, Inputs, InputsOf
<1>3. TypeOK'
  <2>1. readers' \subseteq 1..(nextID - 1)
    BY <1>1, <1>2, QuietParts DEF LInv, TypeOK
  <2>2. \A l \in Searched : levelTables'[l] \in Seq(1..(nextID - 1))
    BY <1>2, LevelTypes DEF LInv, SearchedOf
  <2> QED BY <1>1, <1>2, <2>1, <2>2 DEF LInv, TypeOK
<1>4. Inputs' = Inputs /\ Outputs' = Outputs /\ Inputs \cap Tables = {} /\ Inputs \cap Outputs = {}
  BY <1>2 DEF Inputs, InputsOf, Outputs, AllInputs, SeqRange, LInv, StageFacts
<1>5. StageFacts'
  <2>1. readers' \cap Inputs = {}
    BY <1>2
  <2> QED BY <1>1, <1>2, <1>4, <2>1, QuietParts DEF LInv, StageFacts
<1>6. ReaderFacts'
  <2>1. readers' \subseteq DOMAIN sst'
    BY <1>1, <1>2 DEF LInv, ReaderFacts, StageFacts
  <2>2. open' /\ ~unread' => Tables \subseteq readers'
    BY <1>1, <1>2, <1>4 DEF LInv, ReaderFacts, Unopened
  <2>3. \A l \in Searched : SeqRange(levelTables'[l]) \subseteq Tables /\ levelTables' = SearchedOf(levels)'
    BY <1>1, <1>2, LevelTypes DEF LInv, SearchedOf, Tables
  <2> QED BY <1>1, <1>2, <2>1, <2>2, <2>3, QuietParts DEF ReaderFacts, SeqRange
<1> QED BY <1>1, <1>2, <1>3, <1>5, <1>6, QuietParts DEF LInv

\* Errors leave the manifest and the readers as they are; once the edit is committed
\* some table may have no reader.
LEMMA FailSteps == ASSUME LInv, CompactFails \/ InstallFails PROVE LInv'
<1>1. UNCHANGED <<sst, levels, nextID, flushes, open, readers, levelTables>> /\ stage' = "idle"
      /\ outputs' = <<>> /\ stage \in {"merged", "committed"}
      /\ (~unread' => ~unread /\ stage = "merged")
  BY DEF CompactFails, InstallFails, Fails
<1>2. TypeOK'
  BY <1>1 DEF LInv, TypeOK
<1>3. StageFacts'
  BY <1>1, QuietParts DEF StageFacts, Outputs
<1>4. ReaderFacts'
  <2>1. open' /\ ~unread' =>
          /\ Tables \subseteq readers
          /\ \A l \in Searched : SeqRange(levelTables[l]) \subseteq readers
          /\ levelTables = SearchedOf(levels)
    BY <1>1 DEF LInv, ReaderFacts, Unopened
  <2>2. readers \subseteq DOMAIN sst
    BY DEF LInv, ReaderFacts
  <2> QED BY <1>1, <2>1, <2>2, QuietParts DEF ReaderFacts, SearchedOf, SeqRange
<1> QED BY <1>1, <1>2, <1>3, <1>4, QuietParts DEF LInv

\* The inputs' files go last, when neither the manifest nor a reader has them.
LEMMA CompactUnlinkStep == ASSUME LInv, CompactUnlink PROVE LInv'
<1>1. sst' = [t \in DOMAIN sst \ Inputs |-> sst[t]] /\ stage = "installed" /\ stage' = "idle"
      /\ outputs' = <<>> /\ UNCHANGED <<levels, nextID, open, readers, levelTables, flushes, unread>>
  BY DEF CompactUnlink, Inputs, InputsOf, bounds
<1>2. Inputs \cap Tables = {} /\ Inputs \cap readers = {} /\ Tables \subseteq DOMAIN sst
      /\ readers \subseteq DOMAIN sst
  BY <1>1 DEF LInv, StageFacts, ManifestHasFiles, ReaderFacts
<1>3. DOMAIN sst' = DOMAIN sst \ Inputs /\ \A t \in DOMAIN sst' : sst'[t] = sst[t]
  BY <1>1
<1>4. LevelsDisjoint' /\ NewerByLevel' /\ Tables' = Tables
  BY <1>1, <1>2, <1>3, SameTables DEF LInv
<1>5. TypeOK' /\ Numbered'
  BY <1>1, <1>3 DEF LInv, TypeOK, Numbered
<1>6. StageFacts'
  BY <1>1 DEF StageFacts, Outputs, SeqRange
<1>7. ManifestHasFiles' /\ readers' \subseteq DOMAIN sst'
  BY <1>1, <1>2, <1>3, <1>4 DEF ManifestHasFiles
<1>8. ReaderFacts'
  <2>1. open' /\ ~unread' =>
          /\ Tables \subseteq readers
          /\ \A l \in Searched : SeqRange(levelTables[l]) \subseteq readers
          /\ levelTables = SearchedOf(levels)
    BY <1>1 DEF LInv, ReaderFacts, Unopened
  <2> QED BY <1>1, <1>4, <1>7, <2>1 DEF ReaderFacts, SearchedOf, SeqRange
<1> QED BY <1>1, <1>4, <1>5, <1>6, <1>7, <1>8 DEF LInv

LEMMA CrashStep == ASSUME LInv, Crash PROVE LInv'
<1>1. UNCHANGED <<sst, levels, nextID, flushes, unread>> /\ open' = FALSE /\ readers' = {}
      /\ levelTables' = [l \in Searched |-> <<>>] /\ stage' = "idle" /\ outputs' = <<>>
  BY DEF Crash
<1>2. TypeOK'
  <2>1. \A l \in Searched : levelTables'[l] \in Seq(1..(nextID - 1))
    <3>1. <<>> \in Seq(1..(nextID - 1))
      OBVIOUS
    <3> QED BY <1>1, <3>1
  <2> QED BY <1>1, <2>1 DEF LInv, TypeOK
<1>3. StageFacts' /\ ReaderFacts'
  BY <1>1, QuietParts DEF StageFacts, Outputs, ReaderFacts
<1> QED BY <1>1, <1>2, <1>3, QuietParts DEF LInv

LEMMA OpenStep == ASSUME LInv, Open PROVE LInv'
<1>1. UNCHANGED <<sst, levels, nextID, flushes, unread, stage, task, outputs>> /\ ~open /\ open' = TRUE
      /\ readers' = Tables /\ levelTables' = SearchedOf(levels) /\ stage = "idle"
  BY DEF Open, bounds, Tables, LInv, StageFacts, TypeOK
<1>2. Tables \subseteq DOMAIN sst
  BY QuietParts, <1>1
<1>3. TypeOK'
  <2>1. \A l \in Searched : levelTables'[l] \in Seq(1..(nextID - 1))
    BY <1>1, LevelTypes DEF LInv, SearchedOf
  <2> QED BY <1>1, <1>2, <2>1 DEF LInv, TypeOK
<1>4. StageFacts'
  BY <1>1, QuietParts DEF LInv, StageFacts, Outputs
<1>5. ReaderFacts'
  <2>1. \A l \in Searched : SeqRange(levelTables'[l]) \subseteq Tables /\ levelTables' = SearchedOf(levels)'
    BY <1>1, LevelTypes DEF LInv, SearchedOf, Tables
  <2> QED BY <1>1, <1>2, <2>1, QuietParts DEF ReaderFacts, SeqRange
<1> QED BY <1>1, <1>3, <1>4, <1>5, QuietParts DEF LInv
-----------------------------------------------------------------------------
\* The manifest's edit: the deleted tables leave every level, the added ones come last
\* in theirs, and the order of the rest stays.
Edited(u, s, deleted, added) ==
    \A m, n \in 1..Len(u) : m < n =>
        \/ \E i, j \in 1..Len(s) : i < j /\ u[m] = s[i] /\ u[n] = s[j]
        \/ u[m] \in SeqRange(s) \ deleted /\ u[n] \in SeqRange(added)
        \/ \E i, j \in 1..Len(added) : i < j /\ u[m] = added[i] /\ u[n] = added[j]

LEMMA ApplyFacts ==
    ASSUME NEW T, NEW lvl, NEW added \in Seq(T), NEW deleted, LogAndApply(lvl, added, deleted),
           NEW l \in AllLevels, levels[l] \in Seq(T)
    PROVE  /\ levels'[l] \in Seq(T)
           /\ SeqRange(levels'[l]) = (SeqRange(levels[l]) \ deleted)
                                       \cup (IF l = lvl THEN SeqRange(added) ELSE {})
           /\ Edited(levels'[l], levels[l], deleted, IF l = lvl THEN added ELSE <<>>)
<1> DEFINE K == Keep(levels[l], SeqRange(levels[l]) \ deleted)
           A == IF l = lvl THEN added ELSE <<>>
<1>1. levels'[l] = K \o A
  BY DEF LogAndApply
<1>2. K \in Seq(T) /\ SeqRange(K) = SeqRange(levels[l]) \ deleted /\ InOrderOf(K, levels[l])
  <2> DEFINE S == SeqRange(levels[l]) \ deleted
  <2>1. SeqRange(levels[l]) \cap S = S
    OBVIOUS
  <2> HIDE DEF S
  <2>2. /\ Keep(levels[l], S) \in Seq(T) /\ SeqRange(Keep(levels[l], S)) = SeqRange(levels[l]) \cap S
        /\ InOrderOf(Keep(levels[l], S), levels[l])
    BY KeepFacts
  <2> QED BY <2>1, <2>2 DEF S
<1> HIDE DEF K
<1>3. A \in Seq(T) /\ (l # lvl => Len(A) = 0)
  OBVIOUS
<1>4. SeqRange(A) = IF l = lvl THEN SeqRange(added) ELSE {}
  BY <1>3 DEF SeqRange
<1>5. A = IF l = lvl THEN added ELSE <<>>
  OBVIOUS
<1> HIDE DEF A
<1>6. /\ levels'[l] \in Seq(T) /\ Len(levels'[l]) = Len(K) + Len(A)
      /\ Len(K) \in Nat /\ Len(A) \in Nat
      /\ \A i \in 1..Len(K) : levels'[l][i] = K[i]
      /\ \A i \in 1..Len(levels'[l]) : i > Len(K) => i - Len(K) \in 1..Len(A) /\ levels'[l][i] = A[i - Len(K)]
      /\ SeqRange(levels'[l]) = SeqRange(K) \cup SeqRange(A)
  <2> DEFINE c == K \o A
  <2>1. c = levels'[l]
    BY <1>1
  <2>2. /\ c \in Seq(T) /\ Len(c) = Len(K) + Len(A)
        /\ Len(K) \in Nat /\ Len(A) \in Nat
        /\ \A i \in 1..Len(K) : c[i] = K[i]
        /\ \A i \in 1..Len(c) : i > Len(K) => i - Len(K) \in 1..Len(A) /\ c[i] = A[i - Len(K)]
        /\ SeqRange(c) = SeqRange(K) \cup SeqRange(A)
    BY <1>2, <1>3, ConcatFacts
  <2> QED BY <2>1, <2>2
<1>8. ASSUME NEW m \in 1..Len(levels'[l]), NEW n \in 1..Len(levels'[l]), m < n
      PROVE  \/ \E i, j \in 1..Len(levels[l]) :
                  i < j /\ levels'[l][m] = levels[l][i] /\ levels'[l][n] = levels[l][j]
             \/ levels'[l][m] \in SeqRange(levels[l]) \ deleted /\ levels'[l][n] \in SeqRange(A)
             \/ \E i, j \in 1..Len(A) :
                  i < j /\ levels'[l][m] = A[i] /\ levels'[l][n] = A[j]
  <2>0. m \in Nat /\ n \in Nat
    OBVIOUS
  <2>1. CASE n <= Len(K)
    <3>1. m \in 1..Len(K) /\ n \in 1..Len(K)
      BY <2>0, <2>1, <1>6, <1>8
    <3>2. levels'[l][m] = K[m] /\ levels'[l][n] = K[n]
      BY <3>1, <1>6
    <3>3. PICK i, j \in 1..Len(levels[l]) : i < j /\ K[m] = levels[l][i] /\ K[n] = levels[l][j]
      BY <3>1, <1>2, <1>8 DEF InOrderOf
    <3> QED BY <3>2, <3>3
  <2>2. CASE n > Len(K) /\ m <= Len(K)
    <3>1. m \in 1..Len(K) /\ n - Len(K) \in 1..Len(A) /\ levels'[l][n] = A[n - Len(K)]
      BY <2>2, <1>6
    <3>2. levels'[l][m] \in SeqRange(K)
      BY <3>1, <1>6 DEF SeqRange
    <3>3. levels'[l][n] \in SeqRange(A)
      BY <3>1 DEF SeqRange
    <3> QED BY <3>2, <3>3, <1>2
  <2>3. CASE m > Len(K)
    <3>1. /\ m - Len(K) \in 1..Len(A) /\ levels'[l][m] = A[m - Len(K)]
          /\ n - Len(K) \in 1..Len(A) /\ levels'[l][n] = A[n - Len(K)] /\ m - Len(K) < n - Len(K)
      <4>1. n > Len(K)
        BY <2>0, <2>3, <1>6, <1>8
      <4> QED BY <2>0, <2>3, <4>1, <1>6, <1>8
    <3> QED BY <3>1
  <2> QED BY <2>0, <2>1, <2>2, <2>3, <1>6
<1>9. Edited(levels'[l], levels[l], deleted, A)
  BY <1>8 DEF Edited
<1> QED BY <1>2, <1>4, <1>5, <1>6, <1>9

\* The flush of a memtable adds one table, the newest of level 0.
LEMMA FlushTableFacts ==
    ASSUME LInv, NEW f, FlushTable(f)
    PROVE  /\ nextID \in Nat /\ nextID \notin DOMAIN sst /\ nextID' = nextID + 1
           /\ 1..(nextID - 1) \subseteq 1..(nextID' - 1) /\ nextID \in 1..(nextID' - 1)
           /\ DOMAIN sst' = DOMAIN sst \cup {nextID} /\ sst'[nextID] = f
           /\ \A t \in DOMAIN sst : sst'[t] = sst[t]
           /\ \A l \in AllLevels :
                /\ levels'[l] \in Seq(1..(nextID' - 1))
                /\ SeqRange(levels'[l]) = SeqRange(levels[l]) \cup (IF l = 0 THEN {nextID} ELSE {})
                /\ Edited(levels'[l], levels[l], {}, IF l = 0 THEN <<nextID>> ELSE <<>>)
                /\ l # 0 => \A m, n \in 1..Len(levels'[l]) : m < n => \E i, j \in 1..Len(levels[l]) :
                     i # j /\ levels'[l][m] = levels[l][i] /\ levels'[l][n] = levels[l][j]
           /\ Tables' = Tables \cup {nextID}
           /\ Tables \subseteq DOMAIN sst /\ readers \subseteq DOMAIN sst /\ DOMAIN sst \subseteq 1..(nextID - 1)
<1>1. /\ sst' = [t \in DOMAIN sst \cup {nextID} |-> IF t = nextID THEN f ELSE sst[t]]
      /\ nextID' = nextID + 1 /\ LogAndApply(0, <<nextID>>, {})
  BY DEF FlushTable
<1>3. nextID \in Nat /\ nextID \notin DOMAIN sst
      /\ Tables \subseteq DOMAIN sst /\ readers \subseteq DOMAIN sst /\ DOMAIN sst \subseteq 1..(nextID - 1)
  BY DEF LInv, TypeOK, Numbered, ManifestHasFiles, ReaderFacts
<1>4. /\ DOMAIN sst' = DOMAIN sst \cup {nextID} /\ sst'[nextID] = f
      /\ \A t \in DOMAIN sst : sst'[t] = sst[t]
  BY <1>1, <1>3
<1>5. 1..(nextID - 1) \subseteq 1..(nextID' - 1) /\ nextID \in 1..(nextID' - 1)
  <2>1. nextID # 0
    BY DEF LInv, Numbered
  <2> QED BY <1>1, <1>3, <2>1
<1>6. ASSUME NEW l \in AllLevels
      PROVE  /\ levels'[l] \in Seq(1..(nextID' - 1))
             /\ SeqRange(levels'[l]) = SeqRange(levels[l]) \cup (IF l = 0 THEN {nextID} ELSE {})
             /\ Edited(levels'[l], levels[l], {}, IF l = 0 THEN <<nextID>> ELSE <<>>)
             /\ l # 0 => \A m, n \in 1..Len(levels'[l]) : m < n => \E i, j \in 1..Len(levels[l]) :
                  i # j /\ levels'[l][m] = levels[l][i] /\ levels'[l][n] = levels[l][j]
  <2> DEFINE T == 1..(nextID' - 1)
  <2>1. levels[l] \in Seq(T) /\ <<nextID>> \in Seq(T) /\ Len(levels[l]) \in Nat
    <3>1. levels[l] \in Seq(1..(nextID - 1))
      BY LevelTypes DEF LInv
    <3>2. levels[l] \in Seq(T)
      BY <3>1, <1>5, SeqGrows
    <3>3. <<nextID>> \in Seq(T)
      BY <1>5
    <3> QED BY <3>2, <3>3
  <2>2. SeqRange(<<nextID>>) = {nextID} /\ SeqRange(levels[l]) \ {} = SeqRange(levels[l])
    BY DEF SeqRange
  <2> HIDE DEF T
  <2>3. /\ levels'[l] \in Seq(T)
        /\ SeqRange(levels'[l]) = (SeqRange(levels[l]) \ {})
                                    \cup (IF l = 0 THEN SeqRange(<<nextID>>) ELSE {})
        /\ Edited(levels'[l], levels[l], {}, IF l = 0 THEN <<nextID>> ELSE <<>>)
    BY <1>1, <2>1, ApplyFacts
  <2>4. ASSUME l # 0, NEW m \in 1..Len(levels'[l]), NEW n \in 1..Len(levels'[l]), m < n
        PROVE  \E i, j \in 1..Len(levels[l]) :
                  i # j /\ levels'[l][m] = levels[l][i] /\ levels'[l][n] = levels[l][j]
    <3>1. Edited(levels'[l], levels[l], {}, <<>>) /\ SeqRange(<<>>) = {} /\ 1..Len(<<>>) = {}
      BY <2>3, <2>4 DEF SeqRange
    <3>2. PICK i, j \in 1..Len(levels[l]) :
                  i < j /\ levels'[l][m] = levels[l][i] /\ levels'[l][n] = levels[l][j]
      BY <3>1, <2>4 DEF Edited
    <3> QED BY <3>2
  <2> QED BY <2>2, <2>3, <2>4 DEF T
<1>7. Tables' = Tables \cup {nextID}
  <2>1. 0 \in AllLevels
    BY LevelTypes DEF LInv
  <2>2. Tables' = UNION {SeqRange(levels'[l]) : l \in AllLevels}
    BY DEF Tables, SeqRange
  <2>3. ASSUME NEW t \in Tables' PROVE t \in Tables \cup {nextID}
    <3>1. PICK l \in AllLevels : t \in SeqRange(levels'[l])
      BY <2>2
    <3> QED BY <3>1, <1>6 DEF Tables
  <2>4. ASSUME NEW t \in Tables PROVE t \in Tables'
    <3>1. PICK l \in AllLevels : t \in SeqRange(levels[l])
      BY DEF Tables
    <3>2. t \in SeqRange(levels'[l])
      BY <3>1, <1>6
    <3> QED BY <3>2, <2>2
  <2>5. nextID \in SeqRange(levels'[0])
    BY <1>6, <2>1
  <2>6. nextID \in Tables'
    BY <2>1, <2>2, <2>5
  <2> QED BY <2>3, <2>4, <2>6
<1> QED BY <1>1, <1>3, <1>4, <1>5, <1>6, <1>7

\* If its entries are newer than all there are, the levels keep their order.
LEMMA FlushTableStep ==
    ASSUME LInv, NEW f, FlushTable(f), DOMAIN f \in (SUBSET Keys) \ {{}},
           \A k \in DOMAIN f : f[k].seq \in Nat \ {0},
           \A t \in DOMAIN sst : \A k \in DOMAIN f \cap DOMAIN sst[t] : sst[t][k].seq < f[k].seq
    PROVE  LInv'
<1>1. /\ outputs' = <<nextID>> /\ stage = "idle" /\ stage' = "flushed" /\ open
      /\ UNCHANGED <<open, readers, levelTables, task, unread>>
  BY DEF FlushTable
<1>2. DOMAIN f \in (SUBSET Keys) \ {{}}
  OBVIOUS
<1>3. nextID \in Nat /\ nextID \notin DOMAIN sst
      /\ Tables \subseteq DOMAIN sst /\ readers \subseteq DOMAIN sst /\ DOMAIN sst \subseteq 1..(nextID - 1)
  BY FlushTableFacts
<1>4. /\ DOMAIN sst' = DOMAIN sst \cup {nextID} /\ sst'[nextID] = f
      /\ \A t \in DOMAIN sst : sst'[t] = sst[t]
  BY FlushTableFacts
<1>5. 1..(nextID - 1) \subseteq 1..(nextID' - 1) /\ nextID \in 1..(nextID' - 1) /\ nextID' = nextID + 1
  BY FlushTableFacts
<1>6. \A l \in AllLevels :
             /\ levels'[l] \in Seq(1..(nextID' - 1))
             /\ SeqRange(levels'[l]) = SeqRange(levels[l]) \cup (IF l = 0 THEN {nextID} ELSE {})
             /\ l # 0 => \A m, n \in 1..Len(levels'[l]) : m < n => \E i, j \in 1..Len(levels[l]) :
                  i # j /\ levels'[l][m] = levels[l][i] /\ levels'[l][n] = levels[l][j]
  BY FlushTableFacts
<1>7. Tables' = Tables \cup {nextID}
  BY FlushTableFacts
<1>8. TypeOK'
  <2>1. \A l \in Searched : levelTables[l] \in Seq(1..(nextID' - 1))
    <3>1. \A l \in Searched : levelTables[l] \in Seq(1..(nextID - 1))
      BY DEF LInv, TypeOK
    <3> QED BY <3>1, <1>5, SeqGrows
  <2>2. \A t \in DOMAIN sst' : DOMAIN sst'[t] \in (SUBSET Keys) \ {{}}
    BY <1>2, <1>4 DEF LInv, TypeOK
  <2>3. DOMAIN sst' \subseteq 1..(nextID' - 1) /\ readers' \subseteq 1..(nextID' - 1)
    BY <1>1, <1>3, <1>4, <1>5
  <2>4. nextID' \in Nat
    BY <1>3, <1>5
  <2> QED BY <1>1, <1>6, <2>1, <2>2, <2>3, <2>4 DEF TypeOK
<1>9. Numbered'
  <2>1. nextID' # 0
    BY <1>3, <1>5
  <2> QED BY <2>1, <1>4 DEF LInv, Numbered
<1>10. Outputs' = {nextID} /\ outputs' \in Seq(1..(nextID' - 1))
  BY <1>1, <1>5 DEF Outputs, SeqRange
<1>11. StageFacts'
  BY <1>1, <1>4, <1>10 DEF StageFacts
<1>12. ManifestHasFiles'
  BY <1>3, <1>4, <1>7 DEF ManifestHasFiles
<1>13. ReaderFacts'
  <2>1. open /\ ~unread => Tables \subseteq readers /\ \A l \in Searched : SeqRange(levelTables[l]) \subseteq readers
    BY <1>1 DEF LInv, ReaderFacts, Unopened
  <2> QED BY <1>1, <1>3, <1>4, <1>7, <1>10, <2>1 DEF ReaderFacts, Unopened, SeqRange
<1>14. LevelsDisjoint'
  <2> SUFFICES ASSUME ~unread', NEW l \in AllLevels \ {0}, NEW m \in 1..Len(levels'[l]),
                      NEW n \in 1..Len(levels'[l]), m < n
               PROVE  (Apart(levels[l][m], levels[l][n]))'
    <3>1. \A l \in AllLevels : Len(levels'[l]) \in Nat
      BY <1>6
    <3> QED BY <3>1 DEF LevelsDisjoint, Apart
  <2>1. PICK i, j \in 1..Len(levels[l]) :
            i # j /\ levels'[l][m] = levels[l][i] /\ levels'[l][n] = levels[l][j]
    BY <1>6
  <2>2. Apart(levels[l][i], levels[l][j])
    BY <2>1, <1>1 DEF LInv, LevelsDisjoint, Apart
  <2>3. levels[l][i] \in DOMAIN sst /\ levels[l][j] \in DOMAIN sst
    BY <1>3 DEF Tables, SeqRange
  <2> QED BY <2>1, <2>2, <2>3, <1>4 DEF Apart, MinKey, MaxKey
<1>15. NewerByLevel'
  <2> SUFFICES ASSUME ~unread', NEW l \in AllLevels, NEW m \in AllLevels, l < m,
                      NEW t \in SeqRange(levels'[l]), NEW u \in SeqRange(levels'[m]),
                      NEW k \in DOMAIN sst'[t] \cap DOMAIN sst'[u]
               PROVE  sst'[t][k].seq > sst'[u][k].seq
    BY DEF NewerByLevel
  <2>1. l \in Nat /\ m \in Nat /\ m # 0
    BY LevelTypes DEF LInv
  <2>2. u \in SeqRange(levels[m]) /\ u \in DOMAIN sst /\ sst'[u] = sst[u]
    <3>1. u \in SeqRange(levels[m])
      BY <1>6, <2>1
    <3>2. u \in DOMAIN sst
      BY <3>1, <1>3 DEF Tables
    <3> QED BY <3>1, <3>2, <1>4
  <2>3. CASE t = nextID
    <3>1. sst[u][k].seq < f[k].seq /\ sst[u][k].seq \in Nat /\ f[k].seq \in Nat
      BY <2>2, <2>3, <1>4 DEF LInv, Numbered
    <3> QED BY <2>2, <2>3, <3>1, <1>4
  <2>4. CASE t # nextID
    <3>1. t \in SeqRange(levels[l])
      <4>1. SeqRange(levels'[l]) \subseteq SeqRange(levels[l]) \cup {nextID}
        BY <1>6
      <4> QED BY <4>1, <2>4
    <3>2. t \in DOMAIN sst
      BY <3>1, <1>3 DEF Tables
    <3>3. sst'[t] = sst[t]
      BY <3>2, <1>4
    <3> QED BY <2>2, <3>1, <3>3, <1>1 DEF LInv, NewerByLevel
  <2> QED BY <2>3, <2>4
<1> QED BY <1>1, <1>8, <1>9, <1>11, <1>12, <1>13, <1>14, <1>15 DEF LInv

LEMMA FlushCommitStep ==
    ASSUME LInv, Counted, NEW ks \in FlushSets, NEW dels, FlushCommit(ks, dels)
    PROVE  LInv' /\ Counted'
<1> DEFINE f == [k \in ks |-> [seq |-> flushes + 1, op |-> IF k \in dels THEN "delete" ELSE "put"]]
<1>1. FlushTable(f) /\ flushes' = flushes + 1
  BY DEF FlushCommit, FlushTable
<1>2. DOMAIN f = ks /\ ks \in (SUBSET Keys) \ {{}} /\ \A k \in ks : f[k].seq = flushes + 1
  BY ConfigAssumption
<1> HIDE DEF f
<1>3. flushes \in Nat /\ \A t \in DOMAIN sst : \A k \in DOMAIN sst[t] :
        sst[t][k].seq <= flushes /\ sst[t][k].seq \in Nat
  BY DEF Counted, LInv, Numbered
<1>4. LInv'
  <2>1. \A t \in DOMAIN sst : \A k \in DOMAIN f \cap DOMAIN sst[t] : sst[t][k].seq < f[k].seq
    BY <1>2, <1>3
  <2>2. \A k \in DOMAIN f : f[k].seq \in Nat \ {0}
    BY <1>2, <1>3
  <2> QED BY <1>1, <1>2, <2>1, <2>2, FlushTableStep
<1>5. Counted'
  <2>1. /\ DOMAIN sst' = DOMAIN sst \cup {nextID} /\ sst'[nextID] = f
        /\ \A t \in DOMAIN sst : sst'[t] = sst[t]
    BY <1>1, FlushTableFacts
  <2>2. ASSUME NEW t \in DOMAIN sst', NEW k \in DOMAIN sst'[t] PROVE sst'[t][k].seq <= flushes'
    <3>1. CASE t \in DOMAIN sst
      BY <3>1, <2>1, <1>1, <1>3
    <3>2. CASE t = nextID
      BY <3>2, <2>1, <1>1, <1>2, <1>3
    <3> QED BY <3>1, <3>2, <2>1
  <2> QED BY <2>2, <1>1, <1>3 DEF Counted
<1> QED BY <1>4, <1>5
-----------------------------------------------------------------------------
\* What FindOverlapping returns: the tables of the next level whose range meets that of
\* the tables from.
LEMMA OverlapFacts ==
    ASSUME NEW T, NEW from, NEW to \in Seq(T), SeqRange(from) \subseteq readers, SeqRange(to) \subseteq readers
    PROVE  /\ FindOverlapping(from, to) \in Seq(T)
           /\ SeqRange(FindOverlapping(from, to)) =
                {t \in SeqRange(to) : /\ \E f \in SeqRange(from) : MaxKey(t) >= MinKey(f)
                                      /\ \E f \in SeqRange(from) : MinKey(t) <= MaxKey(f)}
<1> DEFINE S == {t \in readers : /\ \E f \in SeqRange(from) \cap readers : MaxKey(t) >= MinKey(f)
                                 /\ \E f \in SeqRange(from) \cap readers : MinKey(t) <= MaxKey(f)}
<1>1. FindOverlapping(from, to) = Keep(to, S)
  BY DEF FindOverlapping
<1>2. SeqRange(to) \cap S = {t \in SeqRange(to) :
                               /\ \E f \in SeqRange(from) : MaxKey(t) >= MinKey(f)
                               /\ \E f \in SeqRange(from) : MinKey(t) <= MaxKey(f)}
  OBVIOUS
<1> HIDE DEF S
<1>3. Keep(to, S) \in Seq(T) /\ SeqRange(Keep(to, S)) = SeqRange(to) \cap S
  BY KeepFacts
<1> QED BY <1>1, <1>2, <1>3

\* No two tables of a level below 0 share a key.
LEMMA LevelShares ==
    ASSUME LInv, ~unread, NEW l \in AllLevels \ {0}, NEW t \in SeqRange(levels[l]),
           NEW u \in SeqRange(levels[l]), NEW k, k \in DOMAIN sst[t], k \in DOMAIN sst[u]
    PROVE  t = u
<1>1. PICK i, j \in 1..Len(levels[l]) : t = levels[l][i] /\ u = levels[l][j]
  BY DEF SeqRange
<1>2. t \in DOMAIN sst /\ u \in DOMAIN sst
  BY DEF LInv, ManifestHasFiles, Tables
<1>3. /\ DOMAIN sst[t] \in (SUBSET Keys) \ {{}} /\ DOMAIN sst[u] \in (SUBSET Keys) \ {{}}
      /\ k \in Nat
  BY <1>2 DEF LInv, TypeOK, Keys
<1>4. CASE i = j
  BY <1>1, <1>4
<1>5. CASE i # j
  <2>1. MaxKey(t) < MinKey(u) \/ MaxKey(u) < MinKey(t)
    BY <1>1, <1>5 DEF LInv, LevelsDisjoint
  <2>2. k < k
    BY <2>1, <1>3, Below
  <2> QED BY <2>2, <1>3
<1> QED BY <1>4, <1>5

\* The inputs of the compaction that is picked, and that every table of the next level
\* that is left alone lies below or above all of them.
LEMMA TaskFacts ==
    ASSUME LInv, open, stage = "idle", NEW tk, tk = PickCompaction, tk # NoTask,
           InputsOf(tk) \subseteq readers
    PROVE  /\ tk.from \in Searched
           /\ tk.inFrom \in Seq(1..(nextID - 1)) /\ tk.inTo \in Seq(1..(nextID - 1))
           /\ AllInputs(tk) \in Seq(1..(nextID - 1))
           /\ InputsOf(tk) = SeqRange(tk.inFrom) \cup SeqRange(tk.inTo)
           /\ ~unread =>
                /\ InputFacts(tk)
                /\ \A t \in SeqRange(levels[tk.from + 1]) \ InputsOf(tk) :
                     \/ \A s \in InputsOf(tk) : \A k \in DOMAIN sst[s] : MaxKey(t) < k
                     \/ \A s \in InputsOf(tk) : \A k \in DOMAIN sst[s] : k < MinKey(t)
<1>1. /\ tk.from \in Searched
      /\ tk.inFrom \in Seq(1..(nextID - 1)) /\ tk.inFrom # <<>>
      /\ SeqRange(tk.inFrom) \subseteq SeqRange(levels[tk.from])
      /\ tk.from = 0 => tk.inFrom = levels[0]
      /\ tk.inTo = FindOverlapping(tk.inFrom, levels[tk.from + 1])
      /\ tk.bottom = IsBottomLevel(tk.from + 1)
  BY PickFacts DEF LInv
<1>2. tk.from + 1 \in AllLevels /\ levels[tk.from + 1] \in Seq(1..(nextID - 1)) /\ tk.from \in AllLevels
      /\ tk.from + 1 # 0
  BY <1>1, LevelTypes DEF LInv
<1>3. tk.inTo \in Seq(1..(nextID - 1))
  <2> DEFINE S == {t \in readers : /\ \E f \in SeqRange(tk.inFrom) \cap readers : MaxKey(t) >= MinKey(f)
                                   /\ \E f \in SeqRange(tk.inFrom) \cap readers : MinKey(t) <= MaxKey(f)}
  <2>1. tk.inTo = Keep(levels[tk.from + 1], S)
    BY <1>1 DEF FindOverlapping
  <2> HIDE DEF S
  <2> QED BY <2>1, <1>2, KeepFacts
<1>4. AllInputs(tk) \in Seq(1..(nextID - 1)) /\ InputsOf(tk) = SeqRange(tk.inFrom) \cup SeqRange(tk.inTo)
  <2>1. AllInputs(tk) = tk.inFrom \o tk.inTo
    BY DEF AllInputs
  <2> QED BY <2>1, <1>1, <1>3, ConcatFacts DEF InputsOf
<1>5. ASSUME ~unread
      PROVE  /\ InputFacts(tk)
             /\ \A t \in SeqRange(levels[tk.from + 1]) \ InputsOf(tk) :
                  \/ \A s \in InputsOf(tk) : \A k \in DOMAIN sst[s] : MaxKey(t) < k
                  \/ \A s \in InputsOf(tk) : \A k \in DOMAIN sst[s] : k < MinKey(t)
  <2> DEFINE F == SeqRange(tk.inFrom)
             N == SeqRange(levels[tk.from + 1])
  <2>1. F \subseteq readers /\ N \subseteq Tables /\ F \subseteq Tables /\ Tables \subseteq readers
    BY <1>1, <1>2, <1>4, <1>5 DEF LInv, ReaderFacts, Unopened, Tables
  <2>2. SeqRange(tk.inTo) = {t \in N : /\ \E f \in F : MaxKey(t) >= MinKey(f)
                                       /\ \E f \in F : MinKey(t) <= MaxKey(f)}
    <3>1. F \subseteq readers /\ N \subseteq readers
      BY <2>1
    <3> QED BY <3>1, <1>1, <1>2, OverlapFacts
  <2>3. /\ SeqRange(tk.inFrom) \subseteq SeqRange(levels[tk.from])
        /\ SeqRange(tk.inTo) \subseteq SeqRange(levels[tk.from + 1])
        /\ tk.from = 0 => SeqRange(tk.inFrom) = SeqRange(levels[0])
        /\ tk.bottom = (\A l \in Searched : l > tk.from + 1 => levels[l] = <<>>)
    BY <1>1, <2>2 DEF IsBottomLevel
  <2>4. \A t \in Tables : /\ MinKey(t) \in Nat /\ MaxKey(t) \in Nat /\ MinKey(t) <= MaxKey(t)
                          /\ \A k \in DOMAIN sst[t] : k \in Nat /\ MinKey(t) <= k /\ k <= MaxKey(t)
    <3>1. \A t \in Tables : DOMAIN sst[t] \in (SUBSET Keys) \ {{}}
      BY DEF LInv, TypeOK, ManifestHasFiles
    <3>2. \A t \in Tables : /\ MinKey(t) \in Nat /\ MaxKey(t) \in Nat /\ MinKey(t) \in DOMAIN sst[t]
                            /\ \A k \in DOMAIN sst[t] : k \in Nat /\ MinKey(t) <= k /\ k <= MaxKey(t)
      BY <3>1, KeyRange
    <3> QED BY <3>2
  <2>5. ASSUME NEW t \in N \ InputsOf(tk)
        PROVE  \/ \A s \in InputsOf(tk) : \A k \in DOMAIN sst[s] : MaxKey(t) < k
               \/ \A s \in InputsOf(tk) : \A k \in DOMAIN sst[s] : k < MinKey(t)
    <3>1. t \in Tables /\ t \notin SeqRange(tk.inTo)
      BY <2>1, <1>4
    <3>2. ASSUME NEW s \in SeqRange(tk.inTo) PROVE Apart(s, t) /\ s \in Tables /\ s \in N
      <4>1. s \in N /\ s # t
        BY <2>2, <3>1
      <4>2. PICK i, j \in 1..Len(levels[tk.from + 1]) :
                s = levels[tk.from + 1][i] /\ t = levels[tk.from + 1][j]
        BY <4>1 DEF SeqRange
      <4>3. i # j
        BY <4>1, <4>2
      <4>4. Apart(s, t)
        BY <4>2, <4>3, <1>2, <1>5 DEF LInv, LevelsDisjoint, Apart
      <4> QED BY <4>1, <4>4, <2>1
    <3>3. CASE \A f \in F : ~(MaxKey(t) >= MinKey(f))
      <4>1. ASSUME NEW s \in InputsOf(tk), NEW k \in DOMAIN sst[s] PROVE MaxKey(t) < k
        <5>1. CASE s \in F
          <6>1. MaxKey(t) < MinKey(s) /\ MinKey(s) <= k /\ k \in Nat /\ MinKey(s) \in Nat /\ MaxKey(t) \in Nat
            BY <5>1, <3>3, <3>1, <2>1, <2>4
          <6> QED BY <6>1
        <5>2. CASE s \in SeqRange(tk.inTo)
          <6>1. PICK f \in F : MaxKey(s) >= MinKey(f)
            BY <5>2, <2>2
          <6>2. MaxKey(t) < MinKey(f)
            BY <6>1, <3>3, <3>1, <2>1, <2>4
          <6>3. ~(MaxKey(s) < MinKey(t))
            BY <6>1, <6>2, <3>1, <3>2, <5>2, <2>1, <2>4
          <6>4. MaxKey(t) < MinKey(s)
            BY <6>3, <3>2, <5>2 DEF Apart
          <6> QED BY <6>4, <3>1, <3>2, <5>2, <2>4
        <5> QED BY <5>1, <5>2, <1>4
      <4> QED BY <4>1
    <3>4. CASE \A f \in F : ~(MinKey(t) <= MaxKey(f))
      <4>1. ASSUME NEW s \in InputsOf(tk), NEW k \in DOMAIN sst[s] PROVE k < MinKey(t)
        <5>1. CASE s \in F
          <6>1. MaxKey(s) < MinKey(t) /\ k <= MaxKey(s) /\ k \in Nat /\ MaxKey(s) \in Nat /\ MinKey(t) \in Nat
            BY <5>1, <3>4, <3>1, <2>1, <2>4
          <6> QED BY <6>1
        <5>2. CASE s \in SeqRange(tk.inTo)
          <6>1. PICK f \in F : MinKey(s) <= MaxKey(f)
            BY <5>2, <2>2
          <6>2. MaxKey(f) < MinKey(t)
            BY <6>1, <3>4, <3>1, <2>1, <2>4
          <6>3. ~(MaxKey(t) < MinKey(s))
            BY <6>1, <6>2, <3>1, <3>2, <5>2, <2>1, <2>4
          <6>4. MaxKey(s) < MinKey(t)
            BY <6>3, <3>2, <5>2 DEF Apart
          <6> QED BY <6>4, <3>1, <3>2, <5>2, <2>4
        <5> QED BY <5>1, <5>2, <1>4
      <4> QED BY <4>1
    <3>5. ~((\E f \in F : MaxKey(t) >= MinKey(f)) /\ (\E f \in F : MinKey(t) <= MaxKey(f)))
      BY <3>1, <2>2
    <3> QED BY <3>3, <3>4, <3>5
  <2>6. ASSUME NEW t \in N \ InputsOf(tk), NEW s \in InputsOf(tk), NEW k \in DOMAIN sst[t] \cap DOMAIN sst[s]
        PROVE  FALSE
    <3>1. k \in Nat /\ MinKey(t) <= k /\ k <= MaxKey(t) /\ MinKey(t) \in Nat /\ MaxKey(t) \in Nat
      BY <2>1, <2>4
    <3>2. MaxKey(t) < k \/ k < MinKey(t)
      BY <2>5
    <3> QED BY <3>1, <3>2
  <2>7. InputFacts(tk)
    BY <2>3, <2>6 DEF InputFacts
  <2> QED BY <2>5, <2>7
<1> QED BY <1>1, <1>3, <1>4, <1>5

\* The output tables of the compaction that is picked.
LEMMA OutFacts ==
    ASSUME LInv, open, stage = "idle", NEW tk, tk = PickCompaction, tk # NoTask,
           InputsOf(tk) \subseteq readers,
           NEW out, out = Split(Merged(AllInputs(tk), tk.bottom))
    PROVE  /\ Len(out) \in Nat
           /\ \A i \in 1..Len(out) :
                /\ DOMAIN out[i] \in (SUBSET Keys) \ {{}}
                /\ \A k \in DOMAIN out[i] :
                     \E t \in InputsOf(tk) : SourceOf(tk, t, k) /\ out[i][k] = sst[t][k]
           /\ \A t \in InputsOf(tk) : \A k \in DOMAIN sst[t] :
                \/ \E i \in 1..Len(out) : k \in DOMAIN out[i]
                \/ tk.bottom /\ \E u \in InputsOf(tk) : SourceOf(tk, u, k) /\ IsTombstone(sst[u][k])
           /\ \A i, j \in 1..Len(out) : i < j =>
                \A k \in DOMAIN out[i], h \in DOMAIN out[j] : k < h
<1> DEFINE ids == AllInputs(tk)
           f == Merged(ids, tk.bottom)
           T == 1..(nextID - 1)
<1>1. /\ tk.inFrom \in Seq(T) /\ tk.inTo \in Seq(T) /\ ids \in Seq(T) /\ ids = tk.inFrom \o tk.inTo
      /\ InputsOf(tk) = SeqRange(ids)
  BY TaskFacts DEF AllInputs, InputsOf
<1>2. HasFirsts(f, ids) /\ HasAllBut(f, ids, tk.bottom)
  <2> HIDE DEF ids, T
  <2> QED BY <1>1, MergedFacts
<1>3. ASSUME NEW k, NEW i \in 1..Len(ids), FirstWith(ids, i, k)
      PROVE  SourceOf(tk, ids[i], k)
  <2>1. /\ Len(ids) = Len(tk.inFrom) + Len(tk.inTo) /\ Len(tk.inFrom) \in Nat /\ Len(ids) \in Nat
        /\ \A j \in 1..Len(tk.inFrom) : j \in 1..Len(ids) /\ ids[j] = tk.inFrom[j]
    <3> DEFINE a == tk.inFrom
               b == tk.inTo
    <3>1. a \in Seq(T) /\ b \in Seq(T) /\ ids = a \o b
      BY <1>1
    <3> HIDE DEF a, b, T, ids
    <3>2. Len(a \o b) = Len(a) + Len(b) /\ Len(a) \in Nat /\ Len(b) \in Nat
      BY <3>1, ConcatFacts
    <3>3. \A j \in 1..Len(a) : (a \o b)[j] = a[j]
      BY <3>1, ConcatFacts
    <3>4. \A j \in 1..Len(a) : j \in 1..(Len(a) + Len(b))
      BY <3>2
    <3>5. a = tk.inFrom /\ b = tk.inTo
      BY DEF a, b
    <3>6. Len(ids) = Len(a) + Len(b) /\ Len(ids) \in Nat
      BY <3>1, <3>2
    <3>7. \A j \in 1..Len(a) : j \in 1..Len(ids) /\ ids[j] = a[j]
      BY <3>1, <3>3, <3>4, <3>6
    <3> QED BY <3>2, <3>5, <3>6, <3>7
  <2> HIDE DEF ids
  <2>2. ids[i] \in InputsOf(tk) /\ k \in DOMAIN sst[ids[i]]
    BY <1>1, <1>3 DEF FirstWith, SeqRange
  <2>3. CASE i \in 1..Len(tk.inFrom)
    <3>1. ids[i] \in SeqRange(tk.inFrom)
      BY <2>1, <2>3 DEF SeqRange
    <3> QED BY <2>2, <3>1 DEF SourceOf
  <2>4. CASE i > Len(tk.inFrom)
    <3>1. ASSUME NEW u \in SeqRange(tk.inFrom) PROVE k \notin DOMAIN sst[u]
      <4>1. PICK j \in 1..Len(tk.inFrom) : u = tk.inFrom[j]
        BY DEF SeqRange
      <4>2. j \in 1..(i - 1) /\ u = ids[j]
        <5>1. j \in Nat /\ 1 <= j /\ j <= Len(tk.inFrom) /\ i \in Nat /\ Len(tk.inFrom) \in Nat
          BY <2>1
        <5>2. j < i
          BY <5>1, <2>4
        <5>3. j \in 1..(i - 1)
          BY <5>1, <5>2
        <5>4. u = ids[j]
          BY <4>1, <2>1
        <5> QED BY <5>3, <5>4
      <4> QED BY <4>2, <1>3 DEF FirstWith
    <3> QED BY <2>2, <3>1 DEF SourceOf
  <2> QED BY <2>1, <2>3, <2>4
<1>4. DOMAIN f \in SUBSET Keys
  <2> SUFFICES ASSUME NEW k \in DOMAIN f PROVE k \in Keys
    OBVIOUS
  <2>1. PICK i \in 1..Len(ids) : FirstWith(ids, i, k)
    <3> HIDE DEF f, ids
    <3> QED BY <1>2 DEF HasFirsts
  <2>2. ids[i] \in DOMAIN sst /\ k \in DOMAIN sst[ids[i]]
    <3> HIDE DEF ids, f
    <3> QED BY <2>1, <1>1 DEF FirstWith, SeqRange, LInv, ReaderFacts
  <2> HIDE DEF ids, f
  <2> QED BY <2>2 DEF LInv, TypeOK
<1> HIDE DEF f
<1>5. /\ Len(out) \in Nat
      /\ \A i \in 1..Len(out) :
           /\ DOMAIN out[i] \in (SUBSET DOMAIN f) \ {{}}
           /\ \A k \in DOMAIN out[i] : out[i][k] = f[k]
      /\ \A k \in DOMAIN f : \E i \in 1..Len(out) : k \in DOMAIN out[i]
      /\ \A i, j \in 1..Len(out) : i < j =>
           \A k \in DOMAIN out[i], h \in DOMAIN out[j] : k < h
  <2>1. out = Split(f)
    BY DEF f
  <2> QED BY <2>1, <1>4, SplitFacts
<1> HIDE DEF ids
<1>6. ASSUME NEW i \in 1..Len(out), NEW k \in DOMAIN out[i]
      PROVE  \E t \in InputsOf(tk) : SourceOf(tk, t, k) /\ out[i][k] = sst[t][k]
  <2>1. k \in DOMAIN f /\ out[i][k] = f[k]
    BY <1>5
  <2>2. PICK j \in 1..Len(ids) : FirstWith(ids, j, k) /\ f[k] = sst[ids[j]][k]
    BY <1>2, <2>1 DEF HasFirsts
  <2>3. SourceOf(tk, ids[j], k)
    BY <1>3, <2>2
  <2> QED BY <2>1, <2>2, <2>3 DEF SourceOf
<1>7. ASSUME NEW t \in InputsOf(tk), NEW k \in DOMAIN sst[t]
      PROVE  \/ \E i \in 1..Len(out) : k \in DOMAIN out[i]
             \/ tk.bottom /\ \E u \in InputsOf(tk) : SourceOf(tk, u, k) /\ IsTombstone(sst[u][k])
  <2>1. \/ k \in DOMAIN f
        \/ tk.bottom /\ \E i \in 1..Len(ids) : FirstWith(ids, i, k) /\ IsTombstone(sst[ids[i]][k])
    BY <1>1, <1>2 DEF HasAllBut
  <2>2. CASE k \in DOMAIN f
    BY <2>2, <1>5
  <2>3. CASE tk.bottom /\ \E i \in 1..Len(ids) : FirstWith(ids, i, k) /\ IsTombstone(sst[ids[i]][k])
    <3>1. PICK i \in 1..Len(ids) : FirstWith(ids, i, k) /\ IsTombstone(sst[ids[i]][k])
      BY <2>3
    <3>2. SourceOf(tk, ids[i], k)
      BY <3>1, <1>3
    <3> QED BY <2>3, <3>1, <3>2 DEF SourceOf
  <2> QED BY <2>1, <2>2, <2>3
<1>8. \A i \in 1..Len(out) : DOMAIN out[i] \in (SUBSET Keys) \ {{}}
  BY <1>4, <1>5
<1> QED BY <1>5, <1>6, <1>7, <1>8

\* Every entry in a file has been in a file before.
NoNewEntries ==
    \A t \in DOMAIN sst' : \A k \in DOMAIN sst'[t] :
        \E s \in DOMAIN sst : k \in DOMAIN sst[s] /\ sst'[t][k] = sst[s][k]

\* A merge leaves the files that there are, and writes entries of its inputs to new ones.
LEMMA MergeFiles ==
    ASSUME LInv, CompactMerge
    PROVE  /\ DOMAIN sst \subseteq DOMAIN sst' /\ \A t \in DOMAIN sst : sst'[t] = sst[t]
           /\ nextID \in Nat /\ nextID' \in Nat /\ nextID <= nextID'
           /\ NoNewEntries
<1> DEFINE tk  == PickCompaction
           out == Split(Merged(AllInputs(tk), tk.bottom))
           New == nextID..(nextID + Len(out) - 1)
<1>1. /\ open /\ stage = "idle" /\ tk # NoTask /\ InputsOf(tk) \subseteq readers
      /\ sst' = [t \in DOMAIN sst \cup New |-> IF t \in New THEN out[t - nextID + 1] ELSE sst[t]]
      /\ nextID' = nextID + Len(out)
  BY DEF CompactMerge, InputsOf
<1>2. /\ Len(out) \in Nat
      /\ \A i \in 1..Len(out) : \A k \in DOMAIN out[i] :
           \E t \in InputsOf(tk) : SourceOf(tk, t, k) /\ out[i][k] = sst[t][k]
  <2>1. tk = PickCompaction /\ out = Split(Merged(AllInputs(tk), tk.bottom))
    OBVIOUS
  <2> HIDE DEF tk, out
  <2> QED BY <1>1, <2>1, OutFacts
<1> HIDE DEF tk, out
<1>3. nextID \in Nat /\ readers \subseteq DOMAIN sst /\ DOMAIN sst \subseteq 1..(nextID - 1)
  BY DEF LInv, TypeOK, ReaderFacts
<1>4. /\ \A t \in DOMAIN sst : t \notin New
      /\ \A t \in New : t - nextID + 1 \in 1..Len(out)
      /\ nextID' \in Nat /\ nextID <= nextID'
  BY <1>1, <1>2, <1>3
<1> HIDE DEF New
<1>5. ASSUME NEW t \in DOMAIN sst', NEW k \in DOMAIN sst'[t]
      PROVE  \E s \in DOMAIN sst : k \in DOMAIN sst[s] /\ sst'[t][k] = sst[s][k]
  <2>1. CASE t \in New
    <3>1. PICK i \in 1..Len(out) : sst'[t] = out[i]
      BY <2>1, <1>1, <1>4
    <3>2. PICK s \in InputsOf(tk) : SourceOf(tk, s, k) /\ out[i][k] = sst[s][k]
      BY <3>1, <1>2
    <3> QED BY <3>1, <3>2, <1>1, <1>3 DEF SourceOf
  <2>2. CASE t \notin New
    BY <2>2, <1>1
  <2> QED BY <2>1, <2>2
<1> QED BY <1>1, <1>3, <1>4, <1>5 DEF NoNewEntries

\* Writing the outputs: new files that neither the manifest nor a reader knows.
LEMMA CompactMergeStep == ASSUME LInv, CompactMerge PROVE LInv'
<1> DEFINE tk  == PickCompaction
           out == Split(Merged(AllInputs(tk), tk.bottom))
           New == nextID..(nextID + Len(out) - 1)
<1>1. /\ open /\ stage = "idle" /\ tk # NoTask /\ InputsOf(tk) \subseteq readers /\ task' = tk
      /\ outputs' = [i \in 1..Len(out) |-> nextID + i - 1]
      /\ sst' = [t \in DOMAIN sst \cup New |-> IF t \in New THEN out[t - nextID + 1] ELSE sst[t]]
      /\ nextID' = nextID + Len(out) /\ stage' = "merged"
      /\ UNCHANGED <<levels, open, readers, levelTables, flushes, unread>>
  BY DEF CompactMerge, InputsOf, bounds
<1>2. /\ tk.from \in Searched
      /\ tk.inFrom \in Seq(1..(nextID - 1)) /\ tk.inTo \in Seq(1..(nextID - 1))
      /\ InputsOf(tk) = SeqRange(tk.inFrom) \cup SeqRange(tk.inTo)
      /\ ~unread =>
           /\ InputFacts(tk)
           /\ \A t \in SeqRange(levels[tk.from + 1]) \ InputsOf(tk) :
                \/ \A s \in InputsOf(tk) : \A k \in DOMAIN sst[s] : MaxKey(t) < k
                \/ \A s \in InputsOf(tk) : \A k \in DOMAIN sst[s] : k < MinKey(t)
  <2> HIDE DEF out
  <2>1. tk = PickCompaction
    OBVIOUS
  <2> HIDE DEF tk
  <2> QED BY <1>1, <2>1, TaskFacts
<1>3. /\ Len(out) \in Nat
      /\ \A i \in 1..Len(out) :
           /\ DOMAIN out[i] \in (SUBSET Keys) \ {{}}
           /\ \A k \in DOMAIN out[i] :
                \E t \in InputsOf(tk) : SourceOf(tk, t, k) /\ out[i][k] = sst[t][k]
      /\ \A t \in InputsOf(tk) : \A k \in DOMAIN sst[t] :
           \/ \E i \in 1..Len(out) : k \in DOMAIN out[i]
           \/ tk.bottom /\ \E u \in InputsOf(tk) : SourceOf(tk, u, k) /\ IsTombstone(sst[u][k])
      /\ \A i, j \in 1..Len(out) : i < j =>
           \A k \in DOMAIN out[i], h \in DOMAIN out[j] : k < h
  <2>1. tk = PickCompaction /\ out = Split(Merged(AllInputs(tk), tk.bottom))
    OBVIOUS
  <2> HIDE DEF tk, out
  <2> QED BY <1>1, <2>1, OutFacts
<1> HIDE DEF tk, out
<1>4. nextID \in Nat \ {0} /\ Tables \subseteq DOMAIN sst /\ readers \subseteq DOMAIN sst
      /\ DOMAIN sst \subseteq 1..(nextID - 1)
  BY DEF LInv, TypeOK, Numbered, ManifestHasFiles, ReaderFacts
<1>5. /\ DOMAIN sst' = DOMAIN sst \cup New
      /\ \A t \in DOMAIN sst : t \notin New /\ sst'[t] = sst[t]
      /\ \A i \in 1..Len(out) : outputs'[i] \in New /\ sst'[outputs'[i]] = out[i]
      /\ Len(outputs') = Len(out)
  <2>1. \A t \in DOMAIN sst : t \notin New
    BY <1>3, <1>4
  <2>2. \A i \in 1..Len(out) : outputs'[i] = nextID + i - 1 /\ outputs'[i] \in New
                               /\ outputs'[i] - nextID + 1 = i
    BY <1>1, <1>3, <1>4
  <2>3. Len(outputs') = Len(out)
    BY <1>1, <1>3
  <2> HIDE DEF New
  <2> QED BY <1>1, <2>1, <2>2, <2>3
<1>6. Outputs' = {outputs'[i] : i \in 1..Len(out)} /\ Outputs' = New
  <2>1. \A t \in New : t - nextID + 1 \in 1..Len(out) /\ outputs'[t - nextID + 1] = t
    BY <1>1, <1>3, <1>4
  <2>2. Outputs' = {outputs'[i] : i \in 1..Len(out)}
    BY <1>5 DEF Outputs, SeqRange
  <2> HIDE DEF New
  <2> QED BY <2>1, <2>2, <1>5
<1>7. /\ nextID' \in Nat /\ New \subseteq 1..(nextID' - 1) /\ 1..(nextID - 1) \subseteq 1..(nextID' - 1)
      /\ nextID' # 0 /\ outputs' \in Seq(1..(nextID' - 1))
  <2>1. nextID' \in Nat /\ New \subseteq 1..(nextID' - 1) /\ 1..(nextID - 1) \subseteq 1..(nextID' - 1)
        /\ nextID' # 0
    BY <1>1, <1>3, <1>4
  <2>2. \A i \in 1..Len(out) : nextID + i - 1 \in 1..(nextID' - 1)
    BY <1>1, <1>3, <1>4
  <2>3. outputs' \in Seq(1..(nextID' - 1))
    BY <1>1, <1>3, <2>2
  <2> QED BY <2>1, <2>3
<1>8. LevelsDisjoint' /\ NewerByLevel' /\ Tables' = Tables
  BY <1>1, <1>4, <1>5, SameTables DEF LInv
<1>9. ASSUME NEW t \in DOMAIN sst'
      PROVE  t \in DOMAIN sst \/ \E i \in 1..Len(out) : t = outputs'[i] /\ sst'[t] = out[i]
  BY <1>5, <1>6
<1>10. TypeOK'
  <2>1. \A t \in DOMAIN sst' : DOMAIN sst'[t] \in (SUBSET Keys) \ {{}}
    <3> SUFFICES ASSUME NEW t \in DOMAIN sst' PROVE DOMAIN sst'[t] \in (SUBSET Keys) \ {{}}
      OBVIOUS
    <3>1. CASE t \in DOMAIN sst
      BY <3>1, <1>5 DEF LInv, TypeOK
    <3>2. CASE t \notin DOMAIN sst
      BY <3>2, <1>3, <1>9
    <3> QED BY <3>1, <3>2
  <2>2. \A l \in AllLevels : levels[l] \in Seq(1..(nextID' - 1))
    BY <1>7, LevelTypes, SeqGrows DEF LInv
  <2>3. \A l \in Searched : levelTables[l] \in Seq(1..(nextID' - 1))
    <3>1. \A l \in Searched : levelTables[l] \in Seq(1..(nextID - 1))
      BY DEF LInv, TypeOK
    <3> QED BY <3>1, <1>7, SeqGrows
  <2>4. DOMAIN sst' \subseteq 1..(nextID' - 1) /\ readers' \subseteq 1..(nextID' - 1)
    <3> HIDE DEF New
    <3> QED BY <1>1, <1>4, <1>5, <1>7
  <2> QED BY <1>1, <1>7, <2>1, <2>2, <2>3, <2>4 DEF TypeOK
<1>11. Numbered'
  <2>1. ASSUME NEW t \in DOMAIN sst', NEW k \in DOMAIN sst'[t]
        PROVE  sst'[t][k].seq \in Nat \ {0}
    <3>1. CASE t \in DOMAIN sst
      BY <3>1, <1>5 DEF LInv, Numbered
    <3>2. CASE t \notin DOMAIN sst
      <4>1. PICK i \in 1..Len(out) : sst'[t] = out[i]
        BY <3>2, <1>9
      <4>2. PICK s \in InputsOf(tk) : SourceOf(tk, s, k) /\ out[i][k] = sst[s][k]
        BY <4>1, <1>3
      <4>3. s \in DOMAIN sst /\ k \in DOMAIN sst[s]
        BY <4>2, <1>1, <1>4 DEF SourceOf
      <4> QED BY <4>1, <4>2, <4>3 DEF LInv, Numbered
    <3> QED BY <3>1, <3>2
  <2> QED BY <2>1, <1>1, <1>7, ZenonT(30) DEF LInv, Numbered
<1>12. Inputs' = InputsOf(tk) /\ InputsOf(tk) \subseteq DOMAIN sst
  BY <1>1, <1>4 DEF Inputs, InputsOf, AllInputs, SeqRange
<1>13. StageFacts'
  <2>1. InputsOf(tk) \cap New = {}
    <3> HIDE DEF New
    <3> QED BY <1>5, <1>12
  <2>2. tk.inFrom \in Seq(1..(nextID' - 1)) /\ tk.inTo \in Seq(1..(nextID' - 1))
    BY <1>2, <1>7, SeqGrows
  <2> HIDE DEF New
  <2> QED BY <1>1, <1>2, <1>5, <1>6, <1>7, <1>12, <2>1, <2>2 DEF StageFacts
<1>14. ManifestHasFiles'
  <2> HIDE DEF New
  <2> QED BY <1>4, <1>5, <1>8 DEF ManifestHasFiles
<1>15. ReaderFacts'
  <2>1. open /\ ~unread =>
          /\ Tables \subseteq readers
          /\ \A l \in Searched : SeqRange(levelTables[l]) \subseteq readers
          /\ levelTables = SearchedOf(levels)
    BY <1>1 DEF LInv, ReaderFacts, Unopened
  <2>2. readers \subseteq DOMAIN sst'
    <3> HIDE DEF New
    <3> QED BY <1>4, <1>5
  <2> QED BY <1>1, <1>8, <2>1, <2>2 DEF ReaderFacts, SearchedOf, SeqRange
<1>16. ASSUME ~unread PROVE (InputFacts(task) /\ OutputFacts /\ OutputsFit)'
  <2>5. /\ SeqRange(task.inFrom)' = SeqRange(tk.inFrom) /\ SeqRange(task.inTo)' = SeqRange(tk.inTo)
        /\ \A l : SeqRange(levels[l])' = SeqRange(levels[l])
    BY <1>1 DEF SeqRange
  <2>1. InputFacts(task)'
    <3>1. /\ SeqRange(tk.inFrom) \subseteq SeqRange(levels[tk.from])
          /\ SeqRange(tk.inTo) \subseteq SeqRange(levels[tk.from + 1])
          /\ tk.from = 0 => SeqRange(tk.inFrom) = SeqRange(levels[0])
          /\ tk.bottom = (\A l \in Searched : l > tk.from + 1 => levels[l] = <<>>)
      BY <1>2, <1>16 DEF InputFacts
    <3>2. /\ (SeqRange(task.inFrom) \subseteq SeqRange(levels[task.from]))'
          /\ (SeqRange(task.inTo) \subseteq SeqRange(levels[task.from + 1]))'
          /\ (task.from = 0 => SeqRange(task.inFrom) = SeqRange(levels[0]))'
      BY <3>1, <2>5, <1>1
    <3>3. (task.bottom = (\A l \in Searched : l > task.from + 1 => levels[l] = <<>>))'
      BY <3>1, <1>1
    <3>4. InputsOf(task)' = InputsOf(tk)
      BY <1>1 DEF InputsOf, AllInputs, SeqRange
    <3>5. /\ SeqRange(levels[tk.from + 1]) \subseteq DOMAIN sst /\ InputsOf(tk) \subseteq DOMAIN sst
          /\ SeqRange(levels[task.from + 1])' = SeqRange(levels[tk.from + 1])
      <4>1. tk.from + 1 \in AllLevels
        BY <1>2, LevelTypes DEF LInv
      <4> QED BY <4>1, <1>1, <1>4, <2>5 DEF Tables
    <3>6. \A t \in SeqRange(levels[tk.from + 1]) \ InputsOf(tk), s \in InputsOf(tk) :
            DOMAIN sst[t] \cap DOMAIN sst[s] = {}
      BY <1>2, <1>16 DEF InputFacts
    <3>7. (\A t \in SeqRange(levels[task.from + 1]) \ InputsOf(task), s \in InputsOf(task) :
             DOMAIN sst[t] \cap DOMAIN sst[s] = {})'
      BY <3>4, <3>5, <3>6, <1>5
    <3> QED BY <3>2, <3>3, <3>7 DEF InputFacts
  <2>2. \A t, k : SourceOf(tk, t, k) => SourceOf(task, t, k)'
    <3> SUFFICES ASSUME NEW t, NEW k, SourceOf(tk, t, k) PROVE SourceOf(task, t, k)'
      OBVIOUS
    <3>1. t \in InputsOf(tk) /\ k \in DOMAIN sst[t] /\ sst'[t] = sst[t]
      BY <1>5, <1>12 DEF SourceOf
    <3>2. \A u \in SeqRange(tk.inFrom) : sst'[u] = sst[u]
      BY <1>2, <1>5, <1>12
    <3>3. t \in InputsOf(task)'
      BY <1>12, <3>1 DEF Inputs
    <3>4. \/ t \in SeqRange(tk.inFrom)
          \/ \A u \in SeqRange(tk.inFrom) : k \notin DOMAIN sst'[u]
      BY <3>2 DEF SourceOf
    <3> QED BY <2>5, <3>1, <3>3, <3>4 DEF SourceOf
  <2>3. OutputFacts'
    <3>1. ASSUME NEW o \in Outputs', NEW k \in DOMAIN sst'[o]
          PROVE  \E t \in Inputs' : SourceOf(task, t, k)' /\ sst'[o][k] = sst'[t][k]
      <4>1. PICK i \in 1..Len(out) : sst'[o] = out[i]
        BY <1>5, <1>6
      <4>2. PICK s \in InputsOf(tk) : SourceOf(tk, s, k) /\ out[i][k] = sst[s][k]
        BY <4>1, <1>3
      <4> QED BY <4>1, <4>2, <2>2, <1>5, <1>12
    <3>2. ASSUME NEW t \in Inputs', NEW k \in DOMAIN sst'[t]
          PROVE  \/ \E o \in Outputs' : k \in DOMAIN sst'[o]
                 \/ task'.bottom /\ \E u \in Inputs' : SourceOf(task, u, k)' /\ IsTombstone(sst'[u][k])
      <4>1. t \in InputsOf(tk) /\ k \in DOMAIN sst[t]
        BY <1>5, <1>12
      <4>2. CASE \E i \in 1..Len(out) : k \in DOMAIN out[i]
        BY <4>2, <1>5, <1>6
      <4>3. CASE tk.bottom /\ \E u \in InputsOf(tk) : SourceOf(tk, u, k) /\ IsTombstone(sst[u][k])
        <5>1. PICK u \in InputsOf(tk) : SourceOf(tk, u, k) /\ IsTombstone(sst[u][k])
          BY <4>3
        <5>2. sst'[u] = sst[u]
          BY <5>1, <1>5, <1>12
        <5> QED BY <4>3, <5>1, <5>2, <2>2, <1>1, <1>12
      <4> QED BY <4>1, <4>2, <4>3, <1>3
    <3>3. \A u, k : IsTombstone(sst[u][k])' = IsTombstone(sst'[u][k])
      BY DEF IsTombstone
    <3> QED BY <3>1, <3>2, <3>3 DEF OutputFacts, IsTombstone
  <2>4. OutputsFit'
    <3>1. ASSUME NEW i \in 1..Len(outputs'), NEW j \in 1..Len(outputs'), i < j
          PROVE  Greatest(DOMAIN sst'[outputs'[i]]) < Least(DOMAIN sst'[outputs'[j]])
      <4>1. /\ i \in 1..Len(out) /\ j \in 1..Len(out)
            /\ sst'[outputs'[i]] = out[i] /\ sst'[outputs'[j]] = out[j]
        BY <1>5
      <4>2. Greatest(DOMAIN out[i]) \in DOMAIN out[i] /\ Least(DOMAIN out[j]) \in DOMAIN out[j]
        BY <4>1, <1>3, Ends
      <4> QED BY <4>1, <4>2, <3>1, <1>3
    <3>2. ASSUME NEW o \in Outputs', NEW t \in SeqRange(levels[tk.from + 1]) \ InputsOf(tk)
          PROVE  \/ Greatest(DOMAIN sst'[o]) < Least(DOMAIN sst'[t])
                 \/ Greatest(DOMAIN sst'[t]) < Least(DOMAIN sst'[o])
      <4>1. PICK i \in 1..Len(out) : sst'[o] = out[i]
        BY <1>5, <1>6, SMTT(30)
      <4>2. t \in Tables /\ sst'[t] = sst[t]
        <5>1. tk.from + 1 \in AllLevels
          BY <1>2, LevelTypes DEF LInv
        <5> QED BY <5>1, <1>4, <1>5 DEF Tables
      <4>3. /\ Least(DOMAIN out[i]) \in DOMAIN out[i] /\ Greatest(DOMAIN out[i]) \in DOMAIN out[i]
        BY <1>3, Ends
      <4>4. \/ \A k \in DOMAIN out[i] : MaxKey(t) < k
            \/ \A k \in DOMAIN out[i] : k < MinKey(t)
        BY <1>2, <1>3, <1>16 DEF SourceOf
      <4> QED BY <4>1, <4>2, <4>3, <4>4 DEF MinKey, MaxKey
    <3>3. (\A i, j \in 1..Len(outputs) : i < j => MaxKey(outputs[i]) < MinKey(outputs[j]))'
      BY <3>1 DEF MinKey, MaxKey
    <3>4. (\A o \in Outputs : \A t \in SeqRange(levels[task.from + 1]) \ Inputs : Apart(o, t))'
      <4>1. SeqRange(levels[task.from + 1])' = SeqRange(levels[tk.from + 1])
        BY <1>1, <2>5
      <4> QED BY <3>2, <4>1, <1>12 DEF Apart, MinKey, MaxKey
    <3> QED BY <3>3, <3>4 DEF OutputsFit
  <2> QED BY <2>1, <2>3, <2>4
<1> QED BY <1>1, <1>8, <1>10, <1>11, <1>13, <1>14, <1>15, <1>16 DEF LInv
\* The edit that puts the outputs in the place of the inputs.
LEMMA CommitTables ==
    ASSUME LInv, CompactCommit
    PROVE  /\ \A l \in AllLevels :
                /\ levels'[l] \in Seq(1..(nextID - 1))
                /\ SeqRange(levels'[l]) = (SeqRange(levels[l]) \ Inputs)
                                            \cup (IF l = task.from + 1 THEN Outputs ELSE {})
                /\ Edited(levels'[l], levels[l], Inputs, IF l = task.from + 1 THEN outputs ELSE <<>>)
           /\ Tables' = (Tables \ Inputs) \cup Outputs
           /\ task.from \in Searched /\ task.from + 1 \in AllLevels
<1>1. LogAndApply(task.from + 1, outputs, Inputs) /\ stage = "merged"
  BY DEF CompactCommit, Inputs, InputsOf
<1>2. task.from \in Searched /\ task.from + 1 \in AllLevels /\ outputs \in Seq(1..(nextID - 1))
  BY <1>1, LevelTypes DEF LInv, StageFacts
<1>3. ASSUME NEW l \in AllLevels
      PROVE  /\ levels'[l] \in Seq(1..(nextID - 1))
             /\ SeqRange(levels'[l]) = (SeqRange(levels[l]) \ Inputs)
                                         \cup (IF l = task.from + 1 THEN Outputs ELSE {})
             /\ Edited(levels'[l], levels[l], Inputs, IF l = task.from + 1 THEN outputs ELSE <<>>)
  <2>1. levels[l] \in Seq(1..(nextID - 1))
    BY LevelTypes DEF LInv
  <2> QED BY <1>1, <1>2, <2>1, ApplyFacts DEF Outputs
<1>4. Tables' = UNION {SeqRange(levels'[l]) : l \in AllLevels}
  BY DEF Tables, SeqRange
<1>5. ASSUME NEW t \in Tables' PROVE t \in (Tables \ Inputs) \cup Outputs
  <2>1. PICK l \in AllLevels : t \in SeqRange(levels'[l])
    BY <1>4
  <2> QED BY <2>1, <1>3 DEF Tables
<1>6. ASSUME NEW t \in Tables \ Inputs PROVE t \in Tables'
  <2>1. PICK l \in AllLevels : t \in SeqRange(levels[l])
    BY DEF Tables
  <2>2. t \in SeqRange(levels'[l])
    BY <2>1, <1>3
  <2> QED BY <2>2, <1>4
<1>7. ASSUME NEW t \in Outputs PROVE t \in Tables'
  <2>1. t \in SeqRange(levels'[task.from + 1])
    BY <1>2, <1>3
  <2> QED BY <2>1, <1>2, <1>4
<1> QED BY <1>2, <1>3, <1>5, <1>6, <1>7

LEMMA CompactCommitStep == ASSUME LInv, CompactCommit PROVE LInv'
<1>1. /\ stage = "merged" /\ stage' = "committed"
      /\ UNCHANGED <<sst, nextID, open, readers, levelTables, task, outputs, flushes, unread>>
  BY DEF CompactCommit, bounds
<1>2. /\ \A l \in AllLevels :
           /\ levels'[l] \in Seq(1..(nextID - 1))
           /\ SeqRange(levels'[l]) = (SeqRange(levels[l]) \ Inputs)
                                       \cup (IF l = task.from + 1 THEN Outputs ELSE {})
           /\ Edited(levels'[l], levels[l], Inputs, IF l = task.from + 1 THEN outputs ELSE <<>>)
      /\ Tables' = (Tables \ Inputs) \cup Outputs
      /\ task.from \in Searched /\ task.from + 1 \in AllLevels
  BY CommitTables
<1>3. Inputs' = Inputs /\ Outputs' = Outputs
  BY <1>1 DEF Inputs, InputsOf, AllInputs, Outputs, SeqRange
<1>4. Outputs \subseteq DOMAIN sst /\ Tables \subseteq DOMAIN sst /\ Inputs \cap Outputs = {}
  BY <1>1 DEF LInv, StageFacts, ManifestHasFiles
<1>5. TypeOK' /\ Numbered'
  BY <1>1, <1>2 DEF LInv, TypeOK, Numbered
<1>6. StageFacts'
  <2>1. Inputs \cap Tables' = {}
    BY <1>2, <1>4
  <2> QED BY <1>1, <1>3, <2>1 DEF LInv, StageFacts
<1>7. ManifestHasFiles'
  BY <1>1, <1>2, <1>4 DEF ManifestHasFiles
<1>8. ReaderFacts'
  <2>1. /\ readers \subseteq DOMAIN sst
        /\ open /\ ~unread => /\ Tables \subseteq readers
                              /\ \A l \in Searched : SeqRange(levelTables[l]) \subseteq readers
    BY <1>1 DEF LInv, ReaderFacts, Unopened
  <2>2. \A l : SeqRange(levelTables[l])' = SeqRange(levelTables[l])
    BY <1>1 DEF SeqRange
  <2> QED BY <1>1, <1>2, <1>3, <2>1, <2>2 DEF ReaderFacts, Unopened
<1>9. LevelsDisjoint'
  <2> SUFFICES ASSUME ~unread', NEW l \in AllLevels \ {0}, NEW m \in 1..Len(levels'[l]),
                      NEW n \in 1..Len(levels'[l]), m < n
               PROVE  (Apart(levels[l][m], levels[l][n]))'
    <3>1. \A l \in AllLevels : Len(levels'[l]) \in Nat
      BY <1>2
    <3> QED BY <3>1 DEF LevelsDisjoint, Apart
  <2> DEFINE t == levels'[l][m]
             u == levels'[l][n]
  <2>1. OutputsFit
    BY <1>1 DEF LInv
  <2>2. ASSUME NEW i \in 1..Len(levels[l]), NEW j \in 1..Len(levels[l]), i < j,
               t = levels[l][i], u = levels[l][j]
        PROVE  Apart(t, u)
    <3>1. i # j
      BY <2>2
    <3>2. Apart(levels[l][i], levels[l][j])
      BY <3>1, <1>1 DEF LInv, LevelsDisjoint, Apart
    <3> QED BY <2>2, <3>2
  <2>3. ASSUME l = task.from + 1, t \in SeqRange(levels[l]) \ Inputs, u \in Outputs
        PROVE  Apart(t, u)
    BY <2>1, <2>3 DEF OutputsFit, Apart
  <2>4. ASSUME NEW i \in 1..Len(outputs), NEW j \in 1..Len(outputs), i < j, t = outputs[i], u = outputs[j]
        PROVE  Apart(t, u)
    BY <2>1, <2>4 DEF OutputsFit, Apart
  <2>5. CASE l = task.from + 1
    <3>1. Edited(levels'[l], levels[l], Inputs, outputs)
      BY <2>5, <1>2
    <3>2. \/ \E i, j \in 1..Len(levels[l]) : i < j /\ t = levels[l][i] /\ u = levels[l][j]
          \/ t \in SeqRange(levels[l]) \ Inputs /\ u \in Outputs
          \/ \E i, j \in 1..Len(outputs) : i < j /\ t = outputs[i] /\ u = outputs[j]
      BY <3>1 DEF Edited, Outputs
    <3>3. Apart(t, u)
      <4> HIDE DEF t, u
      <4> QED BY <3>2, <2>2, <2>3, <2>4, <2>5
    <3> QED BY <3>3, <1>1 DEF Apart, MinKey, MaxKey
  <2>6. CASE l # task.from + 1
    <3>1. Edited(levels'[l], levels[l], Inputs, <<>>) /\ SeqRange(<<>>) = {} /\ 1..Len(<<>>) = {}
      BY <2>6, <1>2 DEF SeqRange
    <3>2. PICK i, j \in 1..Len(levels[l]) : i < j /\ t = levels[l][i] /\ u = levels[l][j]
      BY <3>1 DEF Edited
    <3>3. Apart(t, u)
      <4> HIDE DEF t, u
      <4> QED BY <3>2, <2>2
    <3> QED BY <3>3, <1>1 DEF Apart, MinKey, MaxKey
  <2> QED BY <2>5, <2>6
<1>10. NewerByLevel'
  <2> SUFFICES ASSUME ~unread', NEW l \in AllLevels, NEW m \in AllLevels, l < m,
                      NEW t \in SeqRange(levels'[l]), NEW u \in SeqRange(levels'[m]),
                      NEW k \in DOMAIN sst'[t] \cap DOMAIN sst'[u]
               PROVE  sst'[t][k].seq > sst'[u][k].seq
    BY DEF NewerByLevel
  <2> USE <1>1
  <2> DEFINE from == task.from
  <2>1. /\ InputFacts(task) /\ OutputFacts /\ from \in Nat /\ from \in AllLevels /\ from + 1 \in AllLevels
        /\ l \in Nat /\ m \in Nat
    BY <1>2, LevelTypes DEF LInv
  <2>2. \A i, j \in AllLevels : \A x \in SeqRange(levels[i]), y \in SeqRange(levels[j]) :
           i < j /\ k \in DOMAIN sst[x] /\ k \in DOMAIN sst[y] => sst[x][k].seq > sst[y][k].seq
    BY DEF LInv, NewerByLevel
  <2>8. Inputs = SeqRange(task.inFrom) \cup SeqRange(task.inTo)
    <3>1. task.inFrom \in Seq(1..(nextID - 1)) /\ task.inTo \in Seq(1..(nextID - 1))
      BY DEF LInv, StageFacts
    <3>2. Inputs = SeqRange(task.inFrom \o task.inTo)
      BY DEF Inputs, InputsOf, AllInputs
    <3> QED BY <3>1, <3>2, ConcatFacts
  <2>3. \A o \in Outputs : k \in DOMAIN sst[o] =>
           \E s \in Inputs : /\ k \in DOMAIN sst[s] /\ sst[o][k] = sst[s][k]
                             /\ s \in SeqRange(levels[from]) \/ s \in SeqRange(levels[from + 1])
                             /\ s \in SeqRange(task.inFrom) \/ s \in SeqRange(task.inTo)
    BY <2>1, <2>8 DEF OutputFacts, SourceOf, InputFacts
  <2>4. CASE t \in SeqRange(levels[l]) \ Inputs /\ u \in SeqRange(levels[m]) \ Inputs
    BY <2>4, <2>2
  <2>5. CASE t \in SeqRange(levels[l]) \ Inputs /\ u \in Outputs /\ m = from + 1
    <3>1. PICK s \in Inputs : /\ k \in DOMAIN sst[s] /\ sst[u][k] = sst[s][k]
                              /\ s \in SeqRange(levels[from]) \/ s \in SeqRange(levels[from + 1])
                              /\ s \in SeqRange(task.inFrom) \/ s \in SeqRange(task.inTo)
      BY <2>3, <2>5
    <3>2. CASE s \in SeqRange(levels[from + 1])
      BY <2>1, <2>2, <2>5, <3>1, <3>2
    <3>3. CASE s \in SeqRange(levels[from]) /\ l < from
      BY <2>1, <2>2, <2>5, <3>1, <3>3
    <3>4. CASE s \in SeqRange(levels[from]) /\ l = from
      <4>1. from # 0
        BY <2>1, <2>5, <2>8, <3>4 DEF InputFacts
      <4>2. t = s
        BY <4>1, <2>1, <2>5, <3>1, <3>4, LevelShares
      <4> QED BY <4>2, <3>1, <2>5
    <3>5. l < from \/ l = from
      BY <2>1, <2>5
    <3> QED BY <3>1, <3>2, <3>3, <3>4, <3>5
  <2>6. CASE t \in Outputs /\ l = from + 1 /\ u \in SeqRange(levels[m]) \ Inputs
    <3>1. PICK s \in Inputs : /\ k \in DOMAIN sst[s] /\ sst[t][k] = sst[s][k]
                              /\ s \in SeqRange(levels[from]) \/ s \in SeqRange(levels[from + 1])
      BY <2>3, <2>6
    <3>2. from < m /\ from + 1 < m
      BY <2>1, <2>6
    <3> QED BY <2>1, <2>2, <2>6, <3>1, <3>2
  <2>7. ~(l = from + 1 /\ m = from + 1)
    BY <2>1
  <2> QED BY <1>2, <2>4, <2>5, <2>6, <2>7
<1> QED BY <1>1, <1>5, <1>6, <1>7, <1>8, <1>9, <1>10 DEF LInv
-----------------------------------------------------------------------------
LEMMA LevelsStutter == ASSUME LInv, UNCHANGED levelVars PROVE LInv'
<1>1. UNCHANGED <<sst, levels, nextID, open, readers, levelTables, stage, task, outputs, flushes, unread>>
  BY DEF levelVars, bounds
<1>2. LevelsDisjoint' /\ NewerByLevel' /\ ManifestHasFiles' /\ Numbered' /\ Tables' = Tables
  BY <1>1, QuietParts
<1>3. Inputs' = Inputs /\ Outputs' = Outputs
  BY <1>1 DEF Inputs, InputsOf, Outputs, AllInputs, SeqRange
<1>4. TypeOK' /\ StageFacts' /\ ReaderFacts'
  BY <1>1, <1>2, <1>3 DEF LInv, TypeOK, StageFacts, ReaderFacts, Unopened, SeqRange, SearchedOf
<1>5. ~unread' /\ stage' = "merged" => (InputFacts(task) /\ OutputFacts /\ OutputsFit)'
  <2>4. /\ SeqRange(task.inFrom)' = SeqRange(task.inFrom) /\ SeqRange(task.inTo)' = SeqRange(task.inTo)
        /\ \A l : SeqRange(levels[l])' = SeqRange(levels[l])
    BY <1>1 DEF SeqRange
  <2>1. InputFacts(task) => InputFacts(task)'
    <3> SUFFICES ASSUME InputFacts(task) PROVE InputFacts(task)'
      OBVIOUS
    <3>1. (task.bottom = (\A l \in Searched : l > task.from + 1 => levels[l] = <<>>))'
      BY <1>1 DEF InputFacts
    <3>2. (\A t \in SeqRange(levels[task.from + 1]) \ InputsOf(task), s \in InputsOf(task) :
             DOMAIN sst[t] \cap DOMAIN sst[s] = {})'
      BY <1>1, <1>3, <2>4 DEF InputFacts, Inputs
    <3> QED BY <1>1, <2>4, <3>1, <3>2 DEF InputFacts
  <2>5. \A t, k : SourceOf(task, t, k)' <=> SourceOf(task, t, k)
    BY <1>1, <1>3, <2>4 DEF SourceOf, Inputs
  <2>2. OutputFacts => OutputFacts'
    BY <1>1, <1>3, <2>5 DEF OutputFacts, IsTombstone
  <2>3. OutputsFit => OutputsFit'
    BY <1>1, <1>3 DEF OutputsFit, Apart, MinKey, MaxKey, SeqRange
  <2> QED BY <1>1, <2>1, <2>2, <2>3 DEF LInv
<1> QED BY <1>2, <1>4, <1>5 DEF LInv

LEMMA CompactStepKeepsLInv == ASSUME LInv, CompactStep PROVE LInv'
BY CompactMergeStep, CompactCommitStep, CompactInstallStep, CompactUnlinkStep, FailSteps
   DEF CompactStep

LEMMA SameFiles == ASSUME sst' = sst PROVE NoNewEntries
BY DEF NoNewEntries

LEMMA CompactStepEntries == ASSUME LInv, CompactStep PROVE NoNewEntries /\ flushes' = flushes
<1>1. CASE CompactMerge
  <2>1. flushes' = flushes
    BY <1>1 DEF CompactMerge, bounds
  <2> QED BY <1>1, <2>1, MergeFiles
<1>2. CASE CompactUnlink
  BY <1>2 DEF CompactUnlink, NoNewEntries, bounds
<1>3. CASE CompactCommit \/ CompactInstall \/ CompactFails \/ InstallFails
  BY <1>3, SameFiles DEF CompactCommit, CompactInstall, CompactFails, InstallFails, Fails, bounds
<1> QED BY <1>1, <1>2, <1>3 DEF CompactStep

LEMMA NextKeepsLInv == ASSUME LInv, Counted, [Next]_levelVars PROVE LInv' /\ Counted'
<1>1. ASSUME NoNewEntries, flushes' = flushes PROVE Counted'
  BY <1>1 DEF Counted, NoNewEntries
<1>2. ASSUME NEW ks \in FlushSets, NEW dels, FlushCommit(ks, dels) PROVE LInv' /\ Counted'
  BY <1>2, FlushCommitStep
<1>3. CASE FlushInstall
  BY <1>1, <1>3, FlushInstallStep, SameFiles DEF FlushInstall, bounds
<1>4. CASE CompactStep
  BY <1>1, <1>4, CompactStepKeepsLInv, CompactStepEntries
<1>5. CASE Crash
  BY <1>1, <1>5, CrashStep, SameFiles DEF Crash
<1>6. CASE Open
  BY <1>1, <1>6, OpenStep, SameFiles DEF Open, bounds
<1>7. CASE UNCHANGED levelVars
  BY <1>1, <1>7, LevelsStutter, SameFiles DEF levelVars, bounds
<1> QED BY <1>2, <1>3, <1>4, <1>5, <1>6, <1>7 DEF Next

\* Beside it: what readers are open for, and the order within level 0.
Replaced == IF stage = "committed" THEN Inputs ELSE {}

ReadersKept ==
    open /\ ~unread =>
      /\ readers \subseteq Shown \cup SeqRange(levels[MaxLevels]) \cup Replaced
      /\ Shown \subseteq Tables \cup Replaced
      /\ stage \in {"flushed", "committed"} => Outputs \subseteq Tables

Ascending ==
    \A m, n \in 1..Len(levels[0]) : m < n =>
        \A k \in DOMAIN sst[levels[0][m]] \cap DOMAIN sst[levels[0][n]] :
            sst[levels[0][m]][k].seq < sst[levels[0][n]][k].seq

\* The levels are those that are searched and the one past them.
LEMMA EveryLevel ==
    ASSUME NEW lv, NEW lt, lt = SearchedOf(lv)
    PROVE  UNION {SeqRange(lv[l]) : l \in AllLevels}
             = (UNION {SeqRange(lt[l]) : l \in Searched}) \cup SeqRange(lv[MaxLevels])
<1>1. AllLevels = Searched \cup {MaxLevels}
  BY ConfigAssumption DEF AllLevels, Searched
<1>2. \A l \in Searched : SeqRange(lt[l]) = SeqRange(lv[l])
  BY DEF SearchedOf
<1> QED BY <1>1, <1>2

LEMMA EveryLevelShown ==
    ASSUME levelTables' = SearchedOf(levels')
    PROVE  Tables' = Shown' \cup SeqRange(levels'[MaxLevels])
<1>1. Tables' = UNION {SeqRange(levels'[l]) : l \in AllLevels}
  BY DEF Tables, SeqRange
<1>2. Shown' = UNION {SeqRange(levelTables'[l]) : l \in Searched}
  BY DEF Shown, SeqRange
<1>3. UNION {SeqRange(levels'[l]) : l \in AllLevels}
        = (UNION {SeqRange(levelTables'[l]) : l \in Searched}) \cup SeqRange(levels'[MaxLevels])
  BY EveryLevel
<1> QED BY <1>1, <1>2, <1>3

LEMMA ShownSame ==
    /\ levelTables' = levelTables => Shown' = Shown
    /\ \A l : levels'[l] = levels[l] => SeqRange(levels'[l]) = SeqRange(levels[l])
    /\ levels' = levels => Tables' = Tables
BY DEF Shown, Tables, SeqRange

LEMMA FlushReaders ==
    ASSUME LInv, ReadersKept, NEW f, FlushTable(f)
    PROVE  ReadersKept'
<1>1. /\ open /\ stage = "idle" /\ stage' = "flushed" /\ outputs' = <<nextID>>
      /\ UNCHANGED <<readers, levelTables, open, unread>>
  BY DEF FlushTable
<1>2. Tables' = Tables \cup {nextID} /\ MaxLevels \in AllLevels /\ MaxLevels # 0
      /\ SeqRange(levels'[MaxLevels]) = SeqRange(levels[MaxLevels])
  <2>1. MaxLevels \in AllLevels /\ MaxLevels # 0
    BY ConfigAssumption DEF AllLevels
  <2>2. Tables' = Tables \cup {nextID}
    BY FlushTableFacts
  <2>3. \A l \in AllLevels : SeqRange(levels'[l]) = SeqRange(levels[l]) \cup (IF l = 0 THEN {nextID} ELSE {})
    BY FlushTableFacts
  <2> QED BY <2>1, <2>2, <2>3
<1>3. Outputs' = {nextID} /\ Replaced = {} /\ Replaced' = {} /\ Shown' = Shown
  BY <1>1, ShownSame DEF Outputs, SeqRange, Replaced
<1> QED BY <1>1, <1>2, <1>3 DEF ReadersKept

LEMMA FlushInstallReaders == ASSUME LInv, ReadersKept, FlushInstall PROVE ReadersKept'
<1>1. /\ stage = "flushed" /\ stage' = "idle" /\ readers' = readers \cup Outputs
      /\ levelTables' = SearchedOf(levels) /\ UNCHANGED <<levels, open, unread>>
  BY DEF FlushInstall, Outputs
<1>2. Tables' = Tables /\ Tables' = Shown' \cup SeqRange(levels'[MaxLevels])
  <2>1. Tables' = Tables /\ levelTables' = SearchedOf(levels')
    BY <1>1, ShownSame DEF SearchedOf
  <2> QED BY <2>1, EveryLevelShown
<1>3. Replaced = {} /\ Replaced' = {} /\ SeqRange(levels[MaxLevels]) \subseteq Tables
  BY <1>1, ConfigAssumption DEF Replaced, Tables, AllLevels
<1> QED BY <1>1, <1>2, <1>3 DEF ReadersKept

LEMMA CompactInstallReaders == ASSUME LInv, ReadersKept, CompactInstall PROVE ReadersKept'
<1>1. /\ stage = "committed" /\ stage' = "installed" /\ readers' = (readers \cup Outputs) \ Inputs
      /\ levelTables' = SearchedOf(levels) /\ UNCHANGED <<levels, open, unread>>
  BY DEF CompactInstall, Outputs, Inputs, InputsOf
<1>2. Tables' = Tables /\ Tables' = Shown' \cup SeqRange(levels'[MaxLevels])
  <2>1. Tables' = Tables /\ levelTables' = SearchedOf(levels')
    BY <1>1, ShownSame DEF SearchedOf
  <2> QED BY <2>1, EveryLevelShown
<1>3. Replaced = Inputs /\ Replaced' = {} /\ SeqRange(levels[MaxLevels]) \subseteq Tables
  BY <1>1, ConfigAssumption DEF Replaced, Tables, AllLevels
<1> QED BY <1>1, <1>2, <1>3 DEF ReadersKept

LEMMA CommitReaders == ASSUME LInv, ReadersKept, CompactCommit PROVE ReadersKept'
<1>1. /\ stage = "merged" /\ stage' = "committed"
      /\ UNCHANGED <<readers, levelTables, open, unread, task, outputs>>
  BY DEF CompactCommit, bounds
<1>2. /\ Tables' = (Tables \ Inputs) \cup Outputs /\ MaxLevels \in AllLevels
      /\ SeqRange(levels[MaxLevels]) \subseteq SeqRange(levels'[MaxLevels]) \cup Inputs
  <2>1. MaxLevels \in AllLevels
    BY ConfigAssumption DEF AllLevels
  <2> QED BY <2>1, CommitTables
<1>3. Inputs' = Inputs /\ Outputs' = Outputs /\ Replaced = {} /\ Replaced' = Inputs /\ Shown' = Shown
  BY <1>1, ShownSame DEF Inputs, InputsOf, AllInputs, Outputs, SeqRange, Replaced
<1> QED BY <1>1, <1>2, <1>3 DEF ReadersKept

\* The steps that change no level and no reader, a crash and Open.
LEMMA OtherReaders ==
    ASSUME LInv, ReadersKept,
           CompactMerge \/ CompactUnlink \/ CompactFails \/ InstallFails \/ Crash \/ Open \/ UNCHANGED levelVars
    PROVE  ReadersKept'
<1>1. CASE CompactMerge \/ CompactUnlink \/ CompactFails
  <2>1. UNCHANGED <<levels, readers, levelTables, open, unread>> /\ stage # "committed"
        /\ stage' \in {"idle", "merged"}
    BY <1>1 DEF CompactMerge, CompactUnlink, CompactFails, Fails, bounds
  <2>2. Replaced = {} /\ Replaced' = {} /\ Shown' = Shown /\ Tables' = Tables
        /\ SeqRange(levels'[MaxLevels]) = SeqRange(levels[MaxLevels])
    BY <2>1, ShownSame DEF Replaced
  <2> QED BY <2>1, <2>2 DEF ReadersKept
<1>2. CASE InstallFails
  BY <1>2 DEF InstallFails, ReadersKept
<1>3. CASE Crash
  BY <1>3 DEF Crash, ReadersKept
<1>4. CASE Open
  <2>1. /\ stage = "idle" /\ stage' = "idle" /\ readers' = Tables /\ levels' = levels
        /\ levelTables' = SearchedOf(levels')
    BY <1>4 DEF Open, Tables, SearchedOf, LInv, StageFacts, TypeOK
  <2>2. Tables' = Tables /\ Tables' = Shown' \cup SeqRange(levels'[MaxLevels])
    BY <2>1, ShownSame, EveryLevelShown
  <2> QED BY <2>1, <2>2 DEF ReadersKept
<1>5. CASE UNCHANGED levelVars
  <2>1. UNCHANGED <<levels, readers, levelTables, open, unread, stage, task, outputs>>
    BY <1>5 DEF levelVars
  <2>2. Replaced' = Replaced /\ Outputs' = Outputs /\ Shown' = Shown /\ Tables' = Tables
        /\ SeqRange(levels'[MaxLevels]) = SeqRange(levels[MaxLevels])
    BY <2>1, ShownSame DEF Replaced, Outputs, Inputs, InputsOf, AllInputs, SeqRange
  <2> QED BY <2>1, <2>2 DEF ReadersKept
<1> QED BY <1>1, <1>2, <1>3, <1>4, <1>5

\* Taking tables out of level 0 keeps the order of the rest.
LEMMA OrderStays ==
    ASSUME Ascending,
           \A m, n \in 1..Len(levels'[0]) : m < n => \E i, j \in 1..Len(levels[0]) :
               i < j /\ levels'[0][m] = levels[0][i] /\ levels'[0][n] = levels[0][j],
           \A t \in SeqRange(levels'[0]) : sst'[t] = sst[t]
    PROVE  Ascending'
<1> SUFFICES ASSUME NEW m \in 1..Len(levels'[0]), NEW n \in 1..Len(levels'[0]), m < n,
                    NEW k \in DOMAIN sst'[levels'[0][m]] \cap DOMAIN sst'[levels'[0][n]]
             PROVE  sst'[levels'[0][m]][k].seq < sst'[levels'[0][n]][k].seq
  BY DEF Ascending
<1>1. PICK t, u : t = levels'[0][m] /\ u = levels'[0][n]
  OBVIOUS
<1>2. sst'[t] = sst[t] /\ sst'[u] = sst[u]
  BY <1>1 DEF SeqRange
<1>3. PICK i \in 1..Len(levels[0]), j \in 1..Len(levels[0]) : i < j /\ t = levels[0][i] /\ u = levels[0][j]
  BY <1>1
<1>4. k \in DOMAIN sst[t] \cap DOMAIN sst[u]
  BY <1>1, <1>2
<1>5. sst[t][k].seq < sst[u][k].seq
  BY <1>3, <1>4 DEF Ascending
<1> QED BY <1>1, <1>2, <1>5

\* A flush's table comes last in level 0, with entries newer than any.
LEMMA FlushOrder ==
    ASSUME LInv, Counted, Ascending, NEW ks \in FlushSets, NEW dels, FlushCommit(ks, dels)
    PROVE  Ascending'
<1> DEFINE f == [k \in ks |-> [seq |-> flushes + 1, op |-> IF k \in dels THEN "delete" ELSE "put"]]
<1>1. FlushTable(f) /\ \A k \in DOMAIN f : f[k].seq = flushes + 1
  BY DEF FlushCommit
<1> HIDE DEF f
<1>2. /\ \A t \in DOMAIN sst : sst'[t] = sst[t]
      /\ sst'[nextID] = f /\ Tables \subseteq DOMAIN sst
      /\ Edited(levels'[0], levels[0], {}, <<nextID>>)
  <2>1. 0 \in AllLevels
    BY ConfigAssumption DEF AllLevels
  <2> QED BY <1>1, <2>1, FlushTableFacts
<1>3. /\ flushes \in Nat
      /\ \A t \in DOMAIN sst : \A k \in DOMAIN sst[t] : sst[t][k].seq <= flushes /\ sst[t][k].seq \in Nat
  BY DEF Counted, LInv, Numbered
<1>4. SeqRange(levels[0]) \subseteq DOMAIN sst /\ \A i \in 1..Len(levels[0]) : levels[0][i] \in DOMAIN sst
  <2>1. SeqRange(levels[0]) \subseteq Tables
    BY ConfigAssumption DEF Tables, AllLevels
  <2> QED BY <2>1, <1>2 DEF SeqRange
<1> SUFFICES ASSUME NEW m \in 1..Len(levels'[0]), NEW n \in 1..Len(levels'[0]), m < n,
                    NEW k \in DOMAIN sst'[levels'[0][m]] \cap DOMAIN sst'[levels'[0][n]]
             PROVE  sst'[levels'[0][m]][k].seq < sst'[levels'[0][n]][k].seq
  BY DEF Ascending
<1> DEFINE t == levels'[0][m]
           u == levels'[0][n]
<1>5. \/ \E i, j \in 1..Len(levels[0]) : i < j /\ t = levels[0][i] /\ u = levels[0][j]
      \/ t \in SeqRange(levels[0]) /\ u = nextID
  BY <1>2 DEF Edited, SeqRange
<1>6. CASE \E i, j \in 1..Len(levels[0]) : i < j /\ t = levels[0][i] /\ u = levels[0][j]
  <2>1. PICK i \in 1..Len(levels[0]), j \in 1..Len(levels[0]) : i < j /\ t = levels[0][i] /\ u = levels[0][j]
    BY <1>6
  <2>2. sst'[t] = sst[t] /\ sst'[u] = sst[u]
    BY <2>1, <1>2, <1>4
  <2> QED BY <2>1, <2>2 DEF Ascending
<1>7. CASE t \in SeqRange(levels[0]) /\ u = nextID
  <2>1. t \in DOMAIN sst /\ sst'[t] = sst[t] /\ sst'[u] = f
    BY <1>7, <1>2, <1>4
  <2> QED BY <2>1, <1>1, <1>3
<1> QED BY <1>5, <1>6, <1>7

LEMMA CommitOrder == ASSUME LInv, Ascending, CompactCommit PROVE Ascending'
<1>1. sst' = sst /\ 0 \in AllLevels /\ task.from \in Searched
  BY CommitTables, ConfigAssumption DEF CompactCommit, AllLevels
<1>2. task.from + 1 # 0
  BY <1>1, ConfigAssumption DEF Searched
<1>3. Edited(levels'[0], levels[0], Inputs, <<>>)
  BY <1>1, <1>2, CommitTables
<1>4. SeqRange(<<>>) = {} /\ Len(<<>>) = 0
  BY DEF SeqRange
<1>5. \A m, n \in 1..Len(levels'[0]) : m < n => \E i, j \in 1..Len(levels[0]) :
         i < j /\ levels'[0][m] = levels[0][i] /\ levels'[0][n] = levels[0][j]
  BY <1>3, <1>4, SMTT(30) DEF Edited
<1> QED BY <1>1, <1>5, OrderStays

LEMMA OtherOrder ==
    ASSUME LInv, Ascending, levels' = levels, \A t \in Tables : sst'[t] = sst[t]
    PROVE  Ascending'
<1>1. SeqRange(levels'[0]) \subseteq Tables
  BY ConfigAssumption DEF Tables, AllLevels, SeqRange
<1>2. \A m, n \in 1..Len(levels'[0]) : m < n => \E i, j \in 1..Len(levels[0]) :
         i < j /\ levels'[0][m] = levels[0][i] /\ levels'[0][n] = levels[0][j]
  OBVIOUS
<1> QED BY <1>1, <1>2, OrderStays

LEMMA NextKeepsOrder ==
    ASSUME LInv, Counted, ReadersKept, Ascending, [Next]_levelVars
    PROVE  ReadersKept' /\ Ascending'
<1>1. Tables \subseteq DOMAIN sst
  BY DEF LInv, ManifestHasFiles
<1>2. ASSUME NEW ks \in FlushSets, NEW dels, FlushCommit(ks, dels) PROVE ReadersKept' /\ Ascending'
  BY <1>2, FlushOrder, FlushReaders DEF FlushCommit
<1>3. CASE FlushInstall
  BY <1>3, FlushInstallReaders, OtherOrder DEF FlushInstall
<1>4. CASE CompactMerge
  <2>1. levels' = levels /\ \A t \in DOMAIN sst : sst'[t] = sst[t]
    BY <1>4, MergeFiles DEF CompactMerge
  <2> QED BY <1>1, <1>4, <2>1, OtherReaders, OtherOrder
<1>5. CASE CompactCommit
  BY <1>5, CommitReaders, CommitOrder
<1>6. CASE CompactInstall
  BY <1>6, CompactInstallReaders, OtherOrder DEF CompactInstall
<1>7. CASE CompactUnlink
  <2>1. levels' = levels /\ sst' = [t \in DOMAIN sst \ Inputs |-> sst[t]] /\ Inputs \cap Tables = {}
    BY <1>7 DEF CompactUnlink, Inputs, InputsOf, LInv, StageFacts
  <2>2. \A t \in Tables : sst'[t] = sst[t]
    BY <1>1, <2>1
  <2> QED BY <1>7, <2>1, <2>2, OtherReaders, OtherOrder
<1>8. CASE CompactFails \/ InstallFails \/ Crash \/ Open \/ UNCHANGED levelVars
  <2>1. levels' = levels /\ sst' = sst
    BY <1>8 DEF CompactFails, InstallFails, Fails, Crash, Open, levelVars
  <2> QED BY <1>8, <2>1, OtherReaders, OtherOrder
<1> QED BY <1>2, <1>3, <1>4, <1>5, <1>6, <1>7, <1>8 DEF Next, CompactStep

\* The inductive invariant holds of every reachable state.
THEOREM LevelsInvariance == Spec => [](LInv /\ Counted /\ ReadersKept /\ Ascending)
<1>1. Init => LInv /\ Counted
  BY InitLInv DEF Init, Counted
<1>2. Init => ReadersKept /\ Ascending
  <2> SUFFICES ASSUME Init PROVE ReadersKept /\ Ascending
    OBVIOUS
  <2>1. \A l \in Searched : levelTables[l] = <<>>
    BY ConfigAssumption DEF Init, SearchedOf, Searched, AllLevels
  <2>2. Shown = {} /\ readers = {} /\ stage = "idle" /\ Len(levels[0]) = 0
    BY <2>1, ConfigAssumption DEF Init, Shown, SeqRange, AllLevels
  <2> QED BY <2>2 DEF ReadersKept, Ascending
<1>3. LInv /\ Counted /\ ReadersKept /\ Ascending /\ [Next]_levelVars
        => (LInv /\ Counted /\ ReadersKept /\ Ascending)'
  BY NextKeepsLInv, NextKeepsOrder
<1> QED BY <1>1, <1>2, <1>3, PTL DEF Spec

\* Ids are given out once, every table has a key, and every id in the manifest, in the
\* levels that are searched and among the readers has been given out (by NextID).
THEOREM LevelsTyped == Spec => []TypeOK
<1>1. LInv => TypeOK
  BY DEF LInv
<1> QED BY <1>1, LevelsInvariance, PTL

\* Below level 0 tables never overlap, so that Get may stop at the first table whose
\* range has the key (Engine.Get, below level 0): compactor outputs are cut in key order
\* and fit between the tables that FindOverlapping left alone.
THEOREM LevelsStayDisjoint == Spec => []LevelsDisjoint
<1>1. LInv => LevelsDisjoint
  BY DEF LInv
<1> QED BY <1>1, LevelsInvariance, PTL

\* The manifest never names a file that is gone: outputs are written before they are
\* committed and inputs unlinked after, whatever fails or ends in between.
THEOREM FilesOutliveManifest == Spec => []ManifestHasFiles
<1>1. LInv => ManifestHasFiles
  BY DEF LInv
<1> QED BY <1>1, LevelsInvariance, PTL

\* Every table that Get and Scan search has an open reader, every reader a file, and
\* no reader is left open on a table that a flush or a compaction has replaced (the
\* critical sections of readersMu in flushes, compactions and Open).
THEOREM ReadersAreRight == Spec => []ReadersMatch
<1>1. LInv /\ ReadersKept => ReadersMatch
  <2> SUFFICES ASSUME LInv, ReadersKept, open PROVE ReadersMatch
    BY DEF ReadersMatch
  <2>1. readers \subseteq DOMAIN sst /\ (~unread => Shown \subseteq readers)
    BY DEF LInv, ReaderFacts, Shown
  <2> QED BY <2>1 DEF ReadersMatch, ReadersKept, Replaced, Inputs, InputsOf
<1> QED BY <1>1, LevelsInvariance, PTL

\* A table that takes precedence has newer entries than those behind it, so that Get may
\* stop at the first that has the key: flushes append to level 0 in the order of the
\* memtables, a compaction of level 0 takes all its tables, and every compaction all the
\* tables of the next level that they overlap.
THEOREM UpperIsNewer == Spec => []NewerAbove
<1>1. ASSUME LInv, Ascending PROVE NewerAbove
  <2> SUFFICES ASSUME ~unread, NEW l \in AllLevels, NEW m \in AllLevels,
                      NEW i \in 1..Len(levels[l]), NEW j \in 1..Len(levels[m]), Precedent(l, i, m, j),
                      NEW k \in DOMAIN sst[levels[l][i]] \cap DOMAIN sst[levels[m][j]]
               PROVE  sst[levels[l][i]][k].seq > sst[levels[m][j]][k].seq
    BY DEF NewerAbove
  <2>1. CASE l < m
    <3>1. levels[l][i] \in SeqRange(levels[l]) /\ levels[m][j] \in SeqRange(levels[m])
      BY DEF SeqRange
    <3> QED BY <1>1, <2>1, <3>1 DEF LInv, NewerByLevel
  <2>2. CASE l = 0 /\ m = 0 /\ j < i
    <3>1. sst[levels[0][j]][k].seq < sst[levels[0][i]][k].seq
      BY <1>1, <2>2 DEF Ascending
    <3>2. levels[0][i] \in DOMAIN sst /\ levels[0][j] \in DOMAIN sst
      <4>1. levels[0][i] \in Tables /\ levels[0][j] \in Tables
        BY <2>2 DEF Tables, SeqRange
      <4> QED BY <1>1, <4>1 DEF LInv, ManifestHasFiles
    <3>3. sst[levels[0][i]][k].seq \in Nat /\ sst[levels[0][j]][k].seq \in Nat
      BY <1>1, <2>2, <3>2 DEF LInv, Numbered
    <3> QED BY <2>2, <3>1, <3>3
  <2> QED BY <2>1, <2>2 DEF Precedent
<1> QED BY <1>1, LevelsInvariance, PTL
-----------------------------------------------------------------------------
\* No compaction of the last level is ever due: its size limit admits every key.
LastLevelHoldsAll == MaxBytesForLevel(MaxLevels - 1) >= NumKeys

SearchedTables(lv) == UNION {SeqRange(lv[l]) : l \in Searched}

\* What the tables T say of the key k: the entry of one of them, and the others with
\* the key have older ones.
Says(T, k, e) ==
    \/ e = NoEntry /\ \A t \in T : k \notin DOMAIN sst[t]
    \/ \E t \in T : /\ k \in DOMAIN sst[t] /\ e = sst[t][k]
                    /\ \A u \in T : k \in DOMAIN sst[u] => u = t \/ sst[u][k].seq < e.seq

\* Levels as Get expects them.
Tidy(lv) ==
    /\ \A l \in Searched : lv[l] \in Seq(1..(nextID - 1)) /\ SeqRange(lv[l]) \subseteq DOMAIN sst
    /\ \A l \in Searched \ {0} : \A i, j \in 1..Len(lv[l]) : i # j => Apart(lv[l][i], lv[l][j])
    /\ \A l, m \in Searched : \A t \in SeqRange(lv[l]), u \in SeqRange(lv[m]) :
         \A k \in DOMAIN sst[t] \cap DOMAIN sst[u] : l < m => sst[t][k].seq > sst[u][k].seq

OneAtTop(lv, k) ==
    \A t, u \in SeqRange(lv[0]) : k \in DOMAIN sst[t] /\ k \in DOMAIN sst[u] => t = u

\* Of two tables of a list the later one has the newer entry of the key k.
LaterIsNewer(ts, k) ==
    \A i, j \in 1..Len(ts) :
        i < j /\ k \in DOMAIN sst[ts[i]] /\ k \in DOMAIN sst[ts[j]] =>
          ts[i] = ts[j] \/ sst[ts[i]][k].seq < sst[ts[j]][k].seq

\* The tables T reflect the write e of the key k: it is the newest that they have, or
\* it is a deletion, or no write at all, and they have none.
Gone(e) == e = NoEntry \/ IsTombstone(e)

Reflects(T, k, e) ==
    \/ Gone(e) /\ \A t \in T : k \notin DOMAIN sst[t]
    \/ /\ \E t \in T : k \in DOMAIN sst[t] /\ e = sst[t][k]
       /\ \A t \in T : k \in DOMAIN sst[t] => sst[t][k].seq <= e.seq

\* The inductive invariant: between the commit of a compaction and its installation
\* what a restart would answer is remembered from before; no output is written below
\* the levels that are searched.
AnswerInv ==
    /\ LInv /\ Counted
    /\ ~unread /\ stage = "merged" => task.from + 1 \in Searched
    /\ stage = "committed" => RestartKeepsAnswers
-----------------------------------------------------------------------------
LEMMA EntryIsSomething ==
    ASSUME Numbered, NEW t \in DOMAIN sst, NEW k \in DOMAIN sst[t]
    PROVE  sst[t][k] # NoEntry /\ sst[t][k].seq \in Nat
<1>1. sst[t][k].seq \in Nat \ {0}
  BY DEF Numbered
<1>2. NoEntry.seq = 0
  BY DEF NoEntry
<1> QED BY <1>1, <1>2

\* In level 0 Get finds the newest table with the key.
LEMMA SearchL0 ==
    ASSUME NEW T, NEW ts \in Seq(T), NEW rd, SeqRange(ts) \subseteq rd, NEW k, LaterIsNewer(ts, k)
    PROVE  Says(SeqRange(ts), k, GetFromL0(ts, rd, k))
<1> DEFINE H == {i \in 1..Len(ts) : ts[i] \in rd /\ k \in DOMAIN sst[ts[i]]}
           Last == CHOOSE i \in H : \A j \in H : j <= i
<1>1. GetFromL0(ts, rd, k) = IF H = {} THEN NoEntry ELSE sst[ts[Last]][k]
  BY DEF GetFromL0
<1>2. CASE H = {}
  <2>1. \A t \in SeqRange(ts) : k \notin DOMAIN sst[t]
    BY <1>2 DEF SeqRange
  <2> HIDE DEF H
  <2> QED BY <1>1, <1>2, <2>1 DEF Says
<1>3. CASE H # {}
  <2>1. H \in SUBSET Nat /\ Len(ts) \in Nat /\ \A i \in H : i <= Len(ts)
    OBVIOUS
  <2>2. \E i \in H : \A j \in H : j <= i
    <3> HIDE DEF H
    <3> QED BY <2>1, <1>3, MaxExists
  <2>3. Last \in H /\ \A j \in H : j <= Last
    <3> HIDE DEF H
    <3> QED BY <2>2
  <2> HIDE DEF Last
  <2>4. ts[Last] \in SeqRange(ts) /\ k \in DOMAIN sst[ts[Last]]
    BY <2>3 DEF SeqRange
  <2>5. ASSUME NEW u \in SeqRange(ts), k \in DOMAIN sst[u]
        PROVE  u = ts[Last] \/ sst[u][k].seq < sst[ts[Last]][k].seq
    <3>1. PICK i \in 1..Len(ts) : u = ts[i]
      BY DEF SeqRange
    <3>2. i \in H
      BY <3>1, <2>5 DEF SeqRange
    <3>3. Last \in 1..Len(ts) /\ i <= Last
      <4>1. Last \in 1..Len(ts)
        BY <2>3
      <4> HIDE DEF H
      <4> QED BY <4>1, <3>2, <2>3
    <3>4. CASE i = Last
      BY <3>1, <3>4
    <3>5. CASE i < Last
      BY <3>1, <3>3, <3>5, <2>4, <2>5 DEF LaterIsNewer
    <3> QED BY <3>3, <3>4, <3>5
  <2> HIDE DEF H
  <2> QED BY <1>1, <1>3, <2>4, <2>5 DEF Says
<1> QED BY <1>2, <1>3

\* Below it only one table's range has the key, and Get looks into that one.
LEMMA SearchLevel ==
    ASSUME TypeOK, NEW ts \in Seq(1..(nextID - 1)), SeqRange(ts) \subseteq DOMAIN sst,
           \A i, j \in 1..Len(ts) : i # j => Apart(ts[i], ts[j]),
           NEW rd, SeqRange(ts) \subseteq rd, NEW k \in Keys
    PROVE  Says(SeqRange(ts), k, GetFromLevel(ts, rd, k))
<1> DEFINE C == {i \in 1..Len(ts) : ts[i] \in rd /\ MinKey(ts[i]) <= k /\ k <= MaxKey(ts[i])}
           First == CHOOSE i \in C : \A j \in C : i <= j
<1>1. GetFromLevel(ts, rd, k) =
        IF C = {} THEN NoEntry ELSE IF k \in DOMAIN sst[ts[First]] THEN sst[ts[First]][k] ELSE NoEntry
  BY DEF GetFromLevel
<1>2. \A i \in 1..Len(ts) : /\ ts[i] \in SeqRange(ts) /\ ts[i] \in rd
                             /\ MinKey(ts[i]) \in Nat /\ MaxKey(ts[i]) \in Nat
                             /\ \A h \in DOMAIN sst[ts[i]] : MinKey(ts[i]) <= h /\ h <= MaxKey(ts[i])
  <2>1. \A i \in 1..Len(ts) : ts[i] \in SeqRange(ts)
    BY DEF SeqRange
  <2>2. \A t \in SeqRange(ts) : DOMAIN sst[t] \in (SUBSET Keys) \ {{}}
    BY DEF TypeOK
  <2> QED BY <2>1, <2>2, KeyRange
<1>3. k \in Nat
  BY DEF Keys
<1>4. ASSUME NEW i \in 1..Len(ts), NEW j \in C,
             MinKey(ts[i]) <= k /\ k <= MaxKey(ts[i])
      PROVE  i = j
  <2>1. j \in 1..Len(ts) /\ MinKey(ts[j]) <= k /\ k <= MaxKey(ts[j])
    OBVIOUS
  <2>2. ~Apart(ts[i], ts[j])
    BY <2>1, <1>2, <1>3, <1>4 DEF Apart
  <2> QED BY <2>1, <2>2
<1>5. ASSUME NEW t \in SeqRange(ts), k \in DOMAIN sst[t]
      PROVE  \E i \in C : t = ts[i] /\ MinKey(t) <= k /\ k <= MaxKey(t)
  <2>1. PICK i \in 1..Len(ts) : t = ts[i]
    BY DEF SeqRange
  <2>2. MinKey(t) <= k /\ k <= MaxKey(t) /\ ts[i] \in rd
    BY <2>1, <1>2, <1>5
  <2> QED BY <2>1, <2>2
<1>6. C \in SUBSET (1..Len(ts)) /\ C \in SUBSET Nat
  OBVIOUS
<1> HIDE DEF C
<1>7. ASSUME NEW t \in SeqRange(ts), NEW u \in SeqRange(ts), k \in DOMAIN sst[t], k \in DOMAIN sst[u]
      PROVE  t = u
  <2>1. PICK i \in C : t = ts[i] /\ MinKey(t) <= k /\ k <= MaxKey(t)
    BY <1>5, <1>7
  <2>2. PICK j \in C : u = ts[j] /\ MinKey(u) <= k /\ k <= MaxKey(u)
    BY <1>5, <1>7
  <2> QED BY <2>1, <2>2, <1>4, <1>6
<1>8. CASE \A t \in SeqRange(ts) : k \notin DOMAIN sst[t]
  <2>1. C # {} => First \in C
    <3> SUFFICES ASSUME C # {} PROVE First \in C
      OBVIOUS
    <3>1. \E i \in C : \A j \in C : i <= j
      BY <1>6, MinExists
    <3> QED BY <3>1
  <2> HIDE DEF First
  <2>2. GetFromLevel(ts, rd, k) = NoEntry
    BY <1>1, <1>2, <1>6, <1>8, <2>1
  <2> QED BY <2>2, <1>8 DEF Says
<1>9. CASE \E t \in SeqRange(ts) : k \in DOMAIN sst[t]
  <2>1. PICK t \in SeqRange(ts) : k \in DOMAIN sst[t]
    BY <1>9
  <2>2. PICK i \in C : t = ts[i] /\ MinKey(t) <= k /\ k <= MaxKey(t)
    BY <1>5, <2>1
  <2>3. \A j \in C : j = i
    BY <1>4, <1>6, <2>2
  <2>4. First = i
    <3>1. i \in Nat /\ \A j \in C : i <= j
      BY <1>6, <2>2, <2>3
    <3>2. \E n \in C : \A j \in C : n <= j
      BY <3>1
    <3>3. First \in C
      BY <3>2
    <3> HIDE DEF First
    <3> QED BY <2>3, <3>3
  <2> HIDE DEF First
  <2>5. GetFromLevel(ts, rd, k) = sst[t][k]
    BY <1>1, <2>1, <2>2, <2>4
  <2>6. \A u \in SeqRange(ts) : k \in DOMAIN sst[u] => u = t
    BY <2>1, <1>7
  <2> QED BY <2>1, <2>5, <2>6 DEF Says
<1> QED BY <1>8, <1>9

LEMMA OneIsSorted == ASSUME NEW lv, NEW k, OneAtTop(lv, k) PROVE LaterIsNewer(lv[0], k)
BY DEF OneAtTop, LaterIsNewer, SeqRange

\* Get finds the newest entry of a key.
LEMMA LookupSays ==
    ASSUME TypeOK, Numbered, NEW lv, Tidy(lv), NEW rd, SearchedTables(lv) \subseteq rd,
           NEW k \in Keys, LaterIsNewer(lv[0], k)
    PROVE  Says(SearchedTables(lv), k, Lookup(lv, rd, k))
<1> DEFINE At == [l \in Searched |-> IF l = 0 THEN GetFromL0(lv[0], rd, k)
                                     ELSE GetFromLevel(lv[l], rd, k)]
           H == {l \in Searched : At[l] # NoEntry}
           Top == CHOOSE l \in H : \A m \in H : l <= m
           T == SearchedTables(lv)
<1>1. Lookup(lv, rd, k) = IF H = {} THEN NoEntry ELSE At[Top]
  BY DEF Lookup
<1>2. ASSUME NEW l \in Searched
      PROVE  Says(SeqRange(lv[l]), k, At[l]) /\ SeqRange(lv[l]) \subseteq DOMAIN sst
  <2>1. /\ lv[l] \in Seq(1..(nextID - 1)) /\ SeqRange(lv[l]) \subseteq DOMAIN sst
        /\ SeqRange(lv[l]) \subseteq rd
    BY DEF Tidy, SearchedTables
  <2>2. CASE l = 0
    <3>1. Says(SeqRange(lv[0]), k, GetFromL0(lv[0], rd, k))
      BY <2>1, <2>2, SearchL0
    <3> QED BY <2>1, <2>2, <3>1
  <2>3. CASE l # 0
    <3>1. \A i, j \in 1..Len(lv[l]) : i # j => Apart(lv[l][i], lv[l][j])
      BY <2>3 DEF Tidy
    <3>2. Says(SeqRange(lv[l]), k, GetFromLevel(lv[l], rd, k))
      BY <2>1, <3>1, SearchLevel
    <3> QED BY <2>1, <2>3, <3>2
  <2> QED BY <2>2, <2>3
<1> HIDE DEF At
<1>3. ASSUME NEW l \in Searched, NEW t \in SeqRange(lv[l]), k \in DOMAIN sst[t]
      PROVE  l \in H
  <2>1. \E u \in SeqRange(lv[l]) : k \in DOMAIN sst[u] /\ At[l] = sst[u][k]
    BY <1>2, <1>3 DEF Says
  <2> QED BY <2>1, <1>2, EntryIsSomething
<1>4. CASE H = {}
  <2>1. \A t \in T : k \notin DOMAIN sst[t]
    BY <1>3, <1>4 DEF SearchedTables
  <2> HIDE DEF H, T
  <2> QED BY <1>1, <1>4, <2>1 DEF Says, T
<1>5. CASE H # {}
  <2>1. H \in SUBSET Nat /\ H \subseteq Searched
    BY ConfigAssumption DEF Searched
  <2>2. Top \in H /\ \A m \in H : Top <= m
    <3>1. \E l \in H : \A m \in H : l <= m
      <4> HIDE DEF H
      <4> QED BY <2>1, <1>5, MinExists
    <3> HIDE DEF H
    <3> QED BY <3>1
  <2>3. Top \in Searched /\ At[Top] # NoEntry
    BY <2>2
  <2> HIDE DEF Top
  <2>4. PICK t \in SeqRange(lv[Top]) :
           /\ k \in DOMAIN sst[t] /\ At[Top] = sst[t][k]
           /\ \A u \in SeqRange(lv[Top]) : k \in DOMAIN sst[u] => u = t \/ sst[u][k].seq < At[Top].seq
    BY <2>3, <1>2 DEF Says
  <2>5. ASSUME NEW u \in T, k \in DOMAIN sst[u]
        PROVE  u = t \/ sst[u][k].seq < At[Top].seq
    <3>1. PICK m \in Searched : u \in SeqRange(lv[m])
      BY DEF SearchedTables
    <3>2. m \in H
      BY <3>1, <2>5, <1>3
    <3>3. Top <= m /\ Top \in Nat /\ m \in Nat
      <4> HIDE DEF H
      <4> QED BY <3>2, <2>1, <2>2
    <3>4. CASE Top = m
      BY <3>1, <3>4, <2>4, <2>5
    <3>5. CASE Top < m
      <4>1. sst[t][k].seq > sst[u][k].seq
        BY <3>1, <3>5, <2>3, <2>4, <2>5 DEF Tidy
      <4>2. sst[t][k].seq \in Nat /\ sst[u][k].seq \in Nat
        BY <3>1, <2>3, <2>4, <2>5, <1>2, EntryIsSomething
      <4> QED BY <4>1, <4>2, <2>4
    <3> QED BY <3>3, <3>4, <3>5
  <2>6. t \in T
    BY <2>3, <2>4 DEF SearchedTables
  <2> HIDE DEF T, H
  <2> QED BY <1>1, <1>5, <2>4, <2>5, <2>6 DEF Says, T
<1> QED BY <1>4, <1>5

\* Which other tables have readers makes no difference.
LEMMA ReadersDoNotMatter ==
    ASSUME NEW lv, NEW r, NEW s, SearchedTables(lv) \subseteq r, SearchedTables(lv) \subseteq s, NEW k
    PROVE  Lookup(lv, r, k) = Lookup(lv, s, k)
<1>1. \A l \in Searched : \A i \in 1..Len(lv[l]) : lv[l][i] \in r /\ lv[l][i] \in s
  BY DEF SearchedTables, SeqRange
<1>2. ASSUME NEW l \in Searched
      PROVE  GetFromLevel(lv[l], r, k) = GetFromLevel(lv[l], s, k)
  <2> DEFINE C(rd)  == {i \in 1..Len(lv[l]) : lv[l][i] \in rd /\ MinKey(lv[l][i]) <= k /\ k <= MaxKey(lv[l][i])}
             At(D)  == LET t == lv[l][CHOOSE i \in D : \A j \in D : i <= j]
                       IN  IF D = {} THEN NoEntry ELSE IF k \in DOMAIN sst[t] THEN sst[t][k] ELSE NoEntry
  <2>1. C(r) = C(s)
    BY <1>1
  <2>2. GetFromLevel(lv[l], r, k) = At(C(r)) /\ GetFromLevel(lv[l], s, k) = At(C(s))
    BY DEF GetFromLevel
  <2> HIDE DEF C, At
  <2> QED BY <2>1, <2>2
<1>3. ASSUME 0 \in Searched
      PROVE  GetFromL0(lv[0], r, k) = GetFromL0(lv[0], s, k)
  <2> DEFINE C(rd) == {i \in 1..Len(lv[0]) : lv[0][i] \in rd /\ k \in DOMAIN sst[lv[0][i]]}
             At(D) == IF D = {} THEN NoEntry ELSE sst[lv[0][CHOOSE i \in D : \A j \in D : j <= i]][k]
  <2>1. C(r) = C(s)
    BY <1>1, <1>3
  <2>2. GetFromL0(lv[0], r, k) = At(C(r)) /\ GetFromL0(lv[0], s, k) = At(C(s))
    BY DEF GetFromL0
  <2> HIDE DEF C, At
  <2> QED BY <2>1, <2>2
<1>4. [l \in Searched |-> IF l = 0 THEN GetFromL0(lv[0], r, k) ELSE GetFromLevel(lv[l], r, k)]
        = [l \in Searched |-> IF l = 0 THEN GetFromL0(lv[0], s, k) ELSE GetFromLevel(lv[l], s, k)]
  BY <1>2, <1>3
<1> QED BY <1>4, ZenonT(30) DEF Lookup

\* Steps that leave the tables being searched as they are change no answer.
LEMMA SameAnswer ==
    ASSUME TypeOK, UNCHANGED <<levelTables, readers>>, \A t \in SearchedTables(levelTables) : sst'[t] = sst[t],
           NEW k
    PROVE  Get(k)' = Get(k)
<1>1. \A l \in Searched : \A i \in 1..Len(levelTables[l]) : sst'[levelTables[l][i]] = sst[levelTables[l][i]]
  BY DEF SearchedTables, SeqRange
<1>2. ASSUME NEW l \in Searched
      PROVE  GetFromLevel(levelTables[l], readers, k)' = GetFromLevel(levelTables[l], readers, k)
  <2>1. \A i \in 1..Len(levelTables[l]) : /\ MinKey(levelTables[l][i])' = MinKey(levelTables[l][i])
                                          /\ MaxKey(levelTables[l][i])' = MaxKey(levelTables[l][i])
    BY <1>1 DEF MinKey, MaxKey
  <2> DEFINE C == {i \in 1..Len(levelTables[l]) :
                     levelTables[l][i] \in readers /\ MinKey(levelTables[l][i]) <= k /\ k <= MaxKey(levelTables[l][i])}
  <2>2. C' = C
    BY <2>1
  <2>3. C # {} => (CHOOSE i \in C : \A j \in C : i <= j) \in 1..Len(levelTables[l])
    <3> SUFFICES ASSUME C # {} PROVE (CHOOSE i \in C : \A j \in C : i <= j) \in 1..Len(levelTables[l])
      OBVIOUS
    <3>1. C \in SUBSET Nat /\ C \subseteq 1..Len(levelTables[l])
      OBVIOUS
    <3> HIDE DEF C
    <3>2. \E i \in C : \A j \in C : i <= j
      BY <3>1, MinExists
    <3> QED BY <3>1, <3>2
  <2>4. GetFromLevel(levelTables[l], readers, k) =
          IF C = {} THEN NoEntry
          ELSE LET t == levelTables[l][CHOOSE i \in C : \A j \in C : i <= j]
               IN  IF k \in DOMAIN sst[t] THEN sst[t][k] ELSE NoEntry
    BY DEF GetFromLevel
  <2>5. GetFromLevel(levelTables[l], readers, k)' =
          IF C' = {} THEN NoEntry
          ELSE LET t == levelTables[l][CHOOSE i \in C' : \A j \in C' : i <= j]
               IN  IF k \in DOMAIN sst'[t] THEN sst'[t][k] ELSE NoEntry
    BY DEF GetFromLevel
  <2> HIDE DEF C
  <2> QED BY <2>2, <2>3, <2>4, <2>5, <1>1
<1>3. ASSUME 0 \in Searched
      PROVE  GetFromL0(levelTables[0], readers, k)' = GetFromL0(levelTables[0], readers, k)
  <2> DEFINE H == {i \in 1..Len(levelTables[0]) : levelTables[0][i] \in readers /\ k \in DOMAIN sst[levelTables[0][i]]}
  <2>1. H' = H
    BY <1>1, <1>3
  <2>2. /\ GetFromL0(levelTables[0], readers, k) =
             IF H = {} THEN NoEntry ELSE sst[levelTables[0][CHOOSE i \in H : \A j \in H : j <= i]][k]
        /\ GetFromL0(levelTables[0], readers, k)' =
             IF H' = {} THEN NoEntry ELSE sst'[levelTables[0][CHOOSE i \in H' : \A j \in H' : j <= i]][k]
    BY DEF GetFromL0
  <2>3. H # {} => (CHOOSE i \in H : \A j \in H : j <= i) \in 1..Len(levelTables[0])
    <3> SUFFICES ASSUME H # {} PROVE (CHOOSE i \in H : \A j \in H : j <= i) \in 1..Len(levelTables[0])
      OBVIOUS
    <3>1. Len(levelTables[0]) \in Nat
      BY <1>3 DEF TypeOK
    <3>2. H \in SUBSET Nat /\ H \subseteq 1..Len(levelTables[0]) /\ \A i \in H : i <= Len(levelTables[0])
      OBVIOUS
    <3> HIDE DEF H
    <3>3. \E i \in H : \A j \in H : j <= i
      BY <3>1, <3>2, MaxExists
    <3> QED BY <3>2, <3>3
  <2> HIDE DEF H
  <2> QED BY <2>1, <2>2, <2>3, <1>1, <1>3
<1> DEFINE At == [l \in Searched |-> IF l = 0 THEN GetFromL0(levelTables[0], readers, k)
                                     ELSE GetFromLevel(levelTables[l], readers, k)]
           Upmost(f) == LET H == {l \in Searched : f[l] # NoEntry}
                        IN  IF H = {} THEN NoEntry ELSE f[CHOOSE l \in H : \A m \in H : l <= m]
<1>4. At' = At
  BY <1>2, <1>3
<1>5. Get(k) = Upmost(At) /\ Get(k)' = Upmost(At')
  BY DEF Get, Lookup
<1> HIDE DEF At, Upmost
<1> QED BY <1>4, <1>5
-----------------------------------------------------------------------------
\* The picker never takes the last level that is searched.
LEMMA NotTheLast ==
    ASSUME LInv, LastLevelHoldsAll, open, ~unread, stage = "idle",
           NEW tk, tk = PickCompaction, tk # NoTask
    PROVE  tk.from + 1 \in Searched
<1>1. tk.from \in Searched /\ (tk.from # 0 => SumOfSizes(levels[tk.from]) > MaxBytesForLevel(tk.from))
  BY PickFacts DEF LInv
<1>2. MaxLevels \in Nat \ {0, 1} /\ NumKeys \in Nat
  BY ConfigAssumption
<1>3. CASE tk.from = MaxLevels - 1
  <2>1. tk.from # 0 /\ tk.from \in AllLevels \ {0}
    BY <1>2, <1>3 DEF AllLevels
  <2>2. levels[tk.from] \in Seq(1..(nextID - 1))
    BY <2>1 DEF LInv, TypeOK
  <2>3. ASSUME NEW t \in SeqRange(levels[tk.from]), NEW u \in SeqRange(levels[tk.from]), t # u,
               NEW k \in DOMAIN sst[t] \cap DOMAIN sst[u]
        PROVE  FALSE
    BY <2>1, <2>3, LevelShares
  <2>4. SumOfSizes(levels[tk.from]) \in Nat /\ SumOfSizes(levels[tk.from]) <= NumKeys
    BY <2>2, <2>3, SizeFacts
  <2>5. MaxBytesForLevel(tk.from) \in Nat
    BY <1>1, <2>1, LevelSizesAssumption
  <2> QED BY <1>1, <1>2, <1>3, <2>1, <2>4, <2>5 DEF LastLevelHoldsAll
<1>4. CASE tk.from # MaxLevels - 1
  BY <1>1, <1>2, <1>4 DEF Searched
<1> QED BY <1>3, <1>4

\* The levels of the manifest are as Get expects them.
LEMMA ManifestTidy == ASSUME LInv, ~unread PROVE Tidy(SearchedOf(levels)) /\ SearchedTables(SearchedOf(levels)) \subseteq Tables
<1>1. \A l \in Searched : SearchedOf(levels)[l] = levels[l] /\ l \in AllLevels
  BY LevelTypes DEF LInv, SearchedOf
<1>2. \A l \in Searched : levels[l] \in Seq(1..(nextID - 1)) /\ SeqRange(levels[l]) \subseteq Tables
                          /\ SeqRange(levels[l]) \subseteq DOMAIN sst
  BY <1>1 DEF LInv, TypeOK, ManifestHasFiles, Tables
<1>3. \A l \in Searched \ {0} : \A i, j \in 1..Len(levels[l]) : i # j => Apart(levels[l][i], levels[l][j])
  BY <1>1 DEF LInv, LevelsDisjoint, Apart
<1>4. \A l, m \in Searched : \A t \in SeqRange(levels[l]), u \in SeqRange(levels[m]) :
        \A k \in DOMAIN sst[t] \cap DOMAIN sst[u] : l < m => sst[t][k].seq > sst[u][k].seq
  BY <1>1 DEF LInv, NewerByLevel
<1> HIDE DEF SearchedOf
<1> QED BY <1>1, <1>2, <1>3, <1>4 DEF Tidy, SearchedTables

\* Of two tables of a level only one has a key, in level 0 if the key is there but once.
LEMMA OneInLevel ==
    ASSUME LInv, ~unread, NEW k, NEW l \in AllLevels, l = 0 => OneAtTop(SearchedOf(levels), k),
           NEW t \in SeqRange(levels[l]), NEW u \in SeqRange(levels[l]),
           k \in DOMAIN sst[t], k \in DOMAIN sst[u]
    PROVE  t = u
<1>1. CASE l = 0
  <2>1. SearchedOf(levels)[0] = levels[0]
    BY LevelTypes DEF LInv, SearchedOf
  <2> QED BY <1>1, <2>1 DEF OneAtTop
<1>2. CASE l # 0
  BY <1>2, LevelShares
<1> QED BY <1>1, <1>2

\* The tables after a compaction answer as those before it: the newest entry stays, or is
\* moved to the output, or was a tombstone and nothing is left of its key.
LEMMA MergeReflects ==
    ASSUME LInv, ~unread, stage = "merged", task.from + 1 \in Searched,
           NEW T, T = SearchedTables(SearchedOf(levels)),
           NEW U, U = (T \ Inputs) \cup Outputs,
           NEW k, task.from = 0 => OneAtTop(SearchedOf(levels), k),
           NEW e, Reflects(T, k, e)
    PROVE  Reflects(U, k, e)
<1> DEFINE from == task.from
<1>1. /\ InputFacts(task) /\ OutputFacts
      /\ from \in Searched /\ from + 1 \in Searched /\ from \in Nat
      /\ task.inFrom \in Seq(1..(nextID - 1)) /\ task.inTo \in Seq(1..(nextID - 1))
  <2>1. from \in Searched /\ task.inFrom \in Seq(1..(nextID - 1)) /\ task.inTo \in Seq(1..(nextID - 1))
    BY DEF LInv, StageFacts
  <2> QED BY <2>1, LevelTypes DEF LInv
<1>2. Inputs = SeqRange(task.inFrom) \cup SeqRange(task.inTo)
  BY <1>1, ConcatFacts DEF Inputs, InputsOf, AllInputs
<1>3. T = UNION {SeqRange(levels[l]) : l \in Searched}
  BY DEF SearchedTables, SearchedOf
<1>4. /\ SeqRange(task.inFrom) \subseteq SeqRange(levels[from])
      /\ SeqRange(task.inTo) \subseteq SeqRange(levels[from + 1])
      /\ Inputs \subseteq T
  BY <1>1, <1>2, <1>3 DEF InputFacts
<1>5. ASSUME NEW t \in T
      PROVE  \E l \in Searched : l \in AllLevels /\ l \in Nat /\ t \in SeqRange(levels[l])
  BY <1>3, LevelTypes DEF LInv
<1>6. T \subseteq DOMAIN sst /\ Outputs \subseteq DOMAIN sst
  BY <1>5 DEF LInv, ManifestHasFiles, Tables, StageFacts
<1>7. ASSUME NEW o \in Outputs, k \in DOMAIN sst[o]
      PROVE  \E s \in Inputs : SourceOf(task, s, k) /\ k \in DOMAIN sst[s] /\ sst[o][k] = sst[s][k]
  BY <1>1, <1>7 DEF OutputFacts, SourceOf
<1>8. CASE Gone(e) /\ \A t \in T : k \notin DOMAIN sst[t]
  <2>1. \A t \in U : k \notin DOMAIN sst[t]
    BY <1>4, <1>7, <1>8
  <2> QED BY <2>1, <1>8 DEF Reflects
<1>9. ASSUME NEW t \in T, k \in DOMAIN sst[t], e = sst[t][k],
             \A u \in T : k \in DOMAIN sst[u] => sst[u][k].seq <= e.seq
      PROVE  Reflects(U, k, e)
  <2>1. \A u \in T \cup Outputs : k \in DOMAIN sst[u] => sst[u][k].seq \in Nat
    BY <1>6, EntryIsSomething DEF LInv
  <2>2. e.seq \in Nat
    BY <2>1, <1>9
  <2>3. ASSUME NEW u \in U, k \in DOMAIN sst[u] PROVE sst[u][k].seq <= e.seq
    <3>1. CASE u \in T \ Inputs
      BY <3>1, <1>9, <2>1, <2>2, <2>3
    <3>2. CASE u \in Outputs
      <4>1. PICK s \in Inputs : k \in DOMAIN sst[s] /\ sst[u][k] = sst[s][k]
        BY <3>2, <2>3, <1>7
      <4> QED BY <4>1, <1>4, <1>9
    <3> QED BY <3>1, <3>2
  <2>4. ASSUME NEW u \in U, k \in DOMAIN sst[u], sst[u][k] = e PROVE Reflects(U, k, e)
    BY <2>3, <2>4 DEF Reflects
  <2>5. CASE t \notin Inputs
    <3>1. t \in U
      BY <2>5
    <3> QED BY <3>1, <2>4, <1>9
  <2>6. CASE t \in Inputs
    <3>1. ASSUME NEW s \in Inputs, SourceOf(task, s, k) PROVE s = t
      <4>1. k \in DOMAIN sst[s] /\ (s \in SeqRange(task.inFrom) \/ \A u \in SeqRange(task.inFrom) : k \notin DOMAIN sst[u])
        BY <3>1 DEF SourceOf
      <4>2. sst[s][k].seq <= e.seq /\ s \in T
        BY <4>1, <1>4, <1>9
      <4>3. from \in AllLevels /\ from + 1 \in AllLevels /\ from < from + 1
        BY <1>1, LevelTypes DEF LInv
      <4>4. CASE t \in SeqRange(task.inFrom)
        <5>1. s \in SeqRange(levels[from]) /\ t \in SeqRange(levels[from])
          BY <4>1, <4>4, <1>4, <1>9
        <5> QED BY <5>1, <4>1, <4>3, <1>9, OneInLevel
      <4>5. CASE t \in SeqRange(task.inTo) /\ s \in SeqRange(task.inTo)
        <5>1. s \in SeqRange(levels[from + 1]) /\ t \in SeqRange(levels[from + 1])
          BY <4>5, <1>4
        <5>2. from + 1 # 0
          BY <1>1
        <5> QED BY <5>1, <5>2, <4>1, <4>3, <1>9, OneInLevel
      <4>6. CASE t \in SeqRange(task.inTo) /\ s \in SeqRange(task.inFrom)
        <5>1. s \in SeqRange(levels[from]) /\ t \in SeqRange(levels[from + 1])
          BY <4>6, <1>4
        <5>2. sst[s][k].seq > sst[t][k].seq
          BY <5>1, <4>1, <4>3, <1>9 DEF LInv, NewerByLevel
        <5>3. sst[s][k].seq \in Nat
          BY <4>1, <2>1, <1>4
        <5> QED BY <5>2, <5>3, <4>2, <1>9, <2>2
      <4> QED BY <4>4, <4>5, <4>6, <1>2, <2>6
    <3>2. CASE \E o \in Outputs : k \in DOMAIN sst[o]
      <4>1. PICK o \in Outputs : k \in DOMAIN sst[o]
        BY <3>2
      <4>2. PICK s \in Inputs : SourceOf(task, s, k) /\ sst[o][k] = sst[s][k]
        BY <4>1, <1>7
      <4>3. sst[o][k] = e /\ o \in U
        BY <4>2, <3>1, <1>9
      <4> QED BY <4>1, <4>3, <2>4
    <3>3. CASE ~\E o \in Outputs : k \in DOMAIN sst[o]
      <4>1. task.bottom /\ \E u \in Inputs : SourceOf(task, u, k) /\ IsTombstone(sst[u][k])
        BY <3>3, <2>6, <1>1, <1>9 DEF OutputFacts
      <4>2. IsTombstone(e)
        BY <4>1, <3>1, <1>9
      <4>3. ASSUME NEW u \in U, k \in DOMAIN sst[u] PROVE FALSE
        <5>1. u \in T /\ u \notin Inputs /\ u # t /\ sst[u][k].seq <= e.seq /\ sst[u][k].seq \in Nat
          BY <4>3, <3>3, <2>6, <1>9, <2>1
        <5>2. PICK m \in Searched : m \in AllLevels /\ m \in Nat /\ u \in SeqRange(levels[m])
          BY <5>1, <1>5
        <5>3. PICK l \in {from, from + 1} : t \in SeqRange(levels[l])
          BY <2>6, <1>2, <1>4
        <5>4. l \in AllLevels /\ l \in Nat
          BY <1>1, LevelTypes DEF LInv
        <5>5. ~(m < l)
          <6> SUFFICES ASSUME m < l PROVE FALSE
            OBVIOUS
          <6>1. sst[u][k].seq > sst[t][k].seq
            BY <5>2, <5>3, <5>4, <4>3, <1>9 DEF LInv, NewerByLevel
          <6> QED BY <6>1, <5>1, <1>9, <2>2
        <5>6. m # l
          <6> SUFFICES ASSUME m = l PROVE FALSE
            OBVIOUS
          <6>1. l = 0 => OneAtTop(SearchedOf(levels), k)
            BY <5>3, <1>1
          <6>2. u \in SeqRange(levels[l]) /\ t \in SeqRange(levels[l])
            BY <5>2, <5>3
          <6> QED BY <6>1, <6>2, <5>1, <5>4, <4>3, <1>9, OneInLevel
        <5>7. m # from + 1
          <6> SUFFICES ASSUME m = from + 1 PROVE FALSE
            OBVIOUS
          <6>1. DOMAIN sst[u] \cap DOMAIN sst[t] = {}
            BY <5>1, <5>2, <2>6, <1>1 DEF InputFacts, Inputs
          <6> QED BY <6>1, <4>3, <1>9
        <5>8. m > from + 1
          BY <5>2, <5>3, <5>4, <5>5, <5>6, <5>7, <1>1
        <5>9. levels[m] = <<>>
          BY <5>2, <5>8, <4>1, <1>1 DEF InputFacts
        <5> QED BY <5>2, <5>9 DEF SeqRange
      <4> QED BY <4>2, <4>3 DEF Reflects, Gone
    <3> QED BY <3>2, <3>3
  <2> QED BY <2>5, <2>6
<1> QED BY <1>8, <1>9 DEF Reflects

\* What the tables say and what they reflect is the same answer.
LEMMA SayAndReflect ==
    ASSUME NEW U, \A t \in U : \A h \in DOMAIN sst[t] : sst[t][h].seq \in Nat,
           NEW k, NEW e, Reflects(U, k, e), NEW f, Says(U, k, f)
    PROVE  f = e \/ (f = NoEntry /\ Gone(e) /\ \A t \in U : k \notin DOMAIN sst[t])
<1>1. CASE Gone(e) /\ \A t \in U : k \notin DOMAIN sst[t]
  BY <1>1 DEF Says
<1>2. ASSUME NEW u \in U, k \in DOMAIN sst[u], e = sst[u][k],
             \A t \in U : k \in DOMAIN sst[t] => sst[t][k].seq <= e.seq
      PROVE  f = e
  <2>1. PICK v \in U : /\ k \in DOMAIN sst[v] /\ f = sst[v][k]
                       /\ u = v \/ sst[u][k].seq < f.seq
    BY <1>2 DEF Says
  <2>2. f.seq <= e.seq /\ f.seq \in Nat /\ e.seq \in Nat
    BY <2>1, <1>2
  <2> QED BY <2>1, <2>2, <1>2
<1> QED BY <1>1, <1>2 DEF Reflects

LEMMA MergeKeepsAnswers ==
    ASSUME LInv, ~unread, stage = "merged", task.from + 1 \in Searched,
           NEW T, T = SearchedTables(SearchedOf(levels)),
           NEW U, U = (T \ Inputs) \cup Outputs,
           NEW k, OneAtTop(SearchedOf(levels), k),
           NEW e, Says(T, k, e), NEW f, Says(U, k, f)
    PROVE  Answer(e) = Answer(f)
<1>1. T \subseteq DOMAIN sst /\ Outputs \subseteq DOMAIN sst
  <2>1. T \subseteq Tables
    BY ManifestTidy
  <2> QED BY <2>1 DEF LInv, ManifestHasFiles, StageFacts
<1>2. \A t \in T \cup U : \A h \in DOMAIN sst[t] : sst[t][h].seq \in Nat
  BY <1>1 DEF LInv, Numbered
<1>3. Reflects(T, k, e)
  BY <1>2 DEF Says, Reflects, Gone
<1>4. Reflects(U, k, e)
  BY <1>3, MergeReflects
<1>5. f = e \/ (f = NoEntry /\ Gone(e))
  BY <1>2, <1>4, SayAndReflect
<1> QED BY <1>5 DEF Answer, Gone
-----------------------------------------------------------------------------
LEMMA AtMostOne ==
    ASSUME NEW n \in Int, NEW S \in SUBSET (1..n), ~(Cardinality(S) > 1)
    PROVE  \A t, u \in S : t = u
<1>1. IsFiniteSet(1..n)
  BY FS_Interval
<1>2. IsFiniteSet(S) /\ Cardinality(S) \in Nat
  BY <1>1, FS_Subset, FS_CardinalityType
<1>3. ASSUME NEW t \in S, NEW u \in S, t # u
      PROVE  FALSE
  <2>1. IsFiniteSet({t}) /\ Cardinality({t}) = 1
    BY FS_Singleton
  <2>2. Cardinality({t} \cup {u}) = Cardinality({t}) + 1
    BY <2>1, <1>3, FS_AddElement
  <2>3. {t, u} = {t} \cup {u} /\ {t, u} \subseteq S
    OBVIOUS
  <2>4. Cardinality({t, u}) <= Cardinality(S)
    BY <2>3, <1>2, FS_Subset
  <2> QED BY <2>1, <2>2, <2>3, <2>4, <1>2
<1> QED BY <1>3

LEMMA OnceIsOne ==
    ASSUME TypeOK, NEW k, Cardinality(L0Versions(k)) <= 1
    PROVE  OneAtTop(levelTables, k)
<1>1. L0Versions(k) \subseteq 1..(nextID - 1) /\ nextID - 1 \in Int
  BY RangeType, LevelTypes DEF TypeOK, L0Versions
<1>2. IsFiniteSet(1..(nextID - 1))
  BY <1>1, FS_Interval
<1>3. Cardinality(L0Versions(k)) \in Nat
  BY <1>1, <1>2, FS_Subset, FS_CardinalityType
<1>4. \A t, u \in L0Versions(k) : t = u
  <2>1. ~(Cardinality(L0Versions(k)) > 1)
    BY <1>3
  <2> DEFINE n == nextID - 1
             S == L0Versions(k)
  <2>2. n \in Int /\ S \in SUBSET (1..n) /\ ~(Cardinality(S) > 1)
    BY <1>1, <2>1
  <2> HIDE DEF n, S
  <2>3. \A t, u \in S : t = u
    BY <2>2, AtMostOne
  <2> QED BY <2>3 DEF S
<1> QED BY <1>4 DEF OneAtTop, L0Versions

\* Where no edit of the manifest waits to be installed, a restart would change nothing.
LEMMA SettledAnswers ==
    ASSUME LInv, open, ~unread, stage \in {"idle", "merged", "installed"}
    PROVE  RestartKeepsAnswers
<1>1. /\ levelTables = SearchedOf(levels)
      /\ \A l \in Searched : SeqRange(levelTables[l]) \subseteq readers
  BY DEF LInv, ReaderFacts
<1>2. SearchedTables(levelTables) \subseteq readers /\ SearchedTables(levelTables) \subseteq Tables
  BY <1>1, ManifestTidy DEF SearchedTables
<1>3. \A k : Lookup(levelTables, Tables, k) = Lookup(levelTables, readers, k)
  BY <1>2, ReadersDoNotMatter
<1> QED BY <1>1, <1>3 DEF RestartKeepsAnswers, Get

\* The tables that are searched after the commit of a compaction.
LEMMA CommittedTables ==
    ASSUME LInv, CompactCommit, task.from + 1 \in Searched
    PROVE  /\ SearchedTables(SearchedOf(levels')) = (SearchedTables(SearchedOf(levels)) \ Inputs) \cup Outputs
           /\ SeqRange(levels'[0]) \subseteq SeqRange(levels[0])
<1>1. /\ \A l \in AllLevels : SeqRange(levels'[l]) = (SeqRange(levels[l]) \ Inputs)
                                  \cup (IF l = task.from + 1 THEN Outputs ELSE {})
      /\ task.from \in Searched
  BY CommitTables
<1>2. /\ 0 \in AllLevels /\ 0 # task.from + 1 /\ \A l \in Searched : l \in AllLevels
  BY <1>1, LevelTypes DEF LInv
<1>3. \A l \in Searched : SearchedOf(levels')[l] = levels'[l] /\ SearchedOf(levels)[l] = levels[l]
  BY DEF SearchedOf
<1> HIDE DEF SearchedOf
<1>4. ASSUME NEW t \in SearchedTables(SearchedOf(levels'))
      PROVE  t \in (SearchedTables(SearchedOf(levels)) \ Inputs) \cup Outputs
  <2>1. PICK l \in Searched : t \in SeqRange(levels'[l])
    BY <1>3 DEF SearchedTables
  <2> QED BY <2>1, <1>1, <1>2, <1>3 DEF SearchedTables
<1>5. ASSUME NEW t \in SearchedTables(SearchedOf(levels)) \ Inputs
      PROVE  t \in SearchedTables(SearchedOf(levels'))
  <2>1. PICK l \in Searched : t \in SeqRange(levels[l])
    BY <1>3 DEF SearchedTables
  <2> QED BY <2>1, <1>1, <1>2, <1>3 DEF SearchedTables
<1>6. ASSUME NEW t \in Outputs
      PROVE  t \in SearchedTables(SearchedOf(levels'))
  <2>1. t \in SeqRange(levels'[task.from + 1])
    BY <1>1, <1>2
  <2> QED BY <2>1, <1>3 DEF SearchedTables
<1> QED BY <1>1, <1>2, <1>4, <1>5, <1>6

\* The commit of a compaction leaves readers as they are, and a restart with their answers.
LEMMA CommitKeepsAnswers ==
    ASSUME LInv, CompactCommit, ~unread, task.from + 1 \in Searched
    PROVE  RestartKeepsAnswers'
<1>1. /\ stage = "merged" /\ open
      /\ UNCHANGED <<sst, nextID, open, readers, levelTables, task, outputs, flushes, unread>>
  BY DEF CompactCommit, bounds, LInv, StageFacts
<1>2. LInv' /\ ~unread'
  BY <1>1, CompactCommitStep
<1>3. levelTables = SearchedOf(levels) /\ \A l \in Searched : SeqRange(levelTables[l]) \subseteq readers
  BY <1>1 DEF LInv, ReaderFacts
<1> DEFINE lv == SearchedOf(levels')
<1>4. /\ SearchedTables(lv) = (SearchedTables(levelTables) \ Inputs) \cup Outputs
      /\ SeqRange(levels'[0]) \subseteq SeqRange(levels[0])
  BY <1>3, CommittedTables
<1>5. \A l \in Searched : lv[l] = levels'[l] /\ levelTables[l] = levels[l] /\ l \in AllLevels
  BY <1>3, LevelTypes DEF LInv, SearchedOf
<1>6. Tidy(lv) /\ SearchedTables(lv) \subseteq Tables'
  <2>1. \A l \in AllLevels : /\ levels'[l] \in Seq(1..(nextID - 1)) /\ SeqRange(levels'[l]) \subseteq Tables'
    BY <1>1, <1>2 DEF LInv, TypeOK, Tables, SeqRange
  <2>2. Tables' \subseteq DOMAIN sst
    BY <1>1, <1>2 DEF LInv, ManifestHasFiles
  <2>3. \A l \in AllLevels \ {0} : \A i, j \in 1..Len(levels'[l]) : i # j => Apart(levels'[l][i], levels'[l][j])
    BY <1>1, <1>2 DEF LInv, LevelsDisjoint, Apart, MinKey, MaxKey
  <2>4. \A l, m \in AllLevels : \A t \in SeqRange(levels'[l]), u \in SeqRange(levels'[m]) :
          \A k \in DOMAIN sst[t] \cap DOMAIN sst[u] : l < m => sst[t][k].seq > sst[u][k].seq
    BY <1>1, <1>2 DEF LInv, NewerByLevel, SeqRange
  <2> HIDE DEF lv
  <2> QED BY <1>5, <2>1, <2>2, <2>3, <2>4 DEF Tidy, SearchedTables
<1>7. ASSUME NEW k \in Keys, Cardinality(L0Versions(k)) <= 1
      PROVE  Answer(Lookup(lv, Tables', k)) = Answer(Get(k))
  <2>1. OneAtTop(levelTables, k)
    BY <1>7, OnceIsOne DEF LInv
  <2>2. OneAtTop(lv, k)
    BY <2>1, <1>4, <1>5, LevelTypes DEF OneAtTop, LInv
  <2>3. Says(SearchedTables(levelTables), k, Get(k))
    <3>1. Tidy(levelTables) /\ SearchedTables(levelTables) \subseteq readers
      BY <1>3, ManifestTidy DEF SearchedTables
    <3> QED BY <3>1, <2>1, OneIsSorted, LookupSays DEF LInv, Get
  <2> HIDE DEF lv
  <2>4. Says(SearchedTables(lv), k, Lookup(lv, Tables', k))
    BY <1>6, <2>2, OneIsSorted, LookupSays DEF LInv
  <2> QED BY <2>1, <2>3, <2>4, <1>1, <1>3, <1>4, MergeKeepsAnswers
<1>8. ASSUME NEW k \in Keys
      PROVE  /\ L0Versions(k)' = L0Versions(k)
             /\ Lookup(SearchedOf(levels), Tables, k)' = Lookup(lv, Tables', k)
             /\ Get(k)' = Get(k)
             /\ \A e : Answer(e)' = Answer(e)
  <2>1. L0Versions(k)' = L0Versions(k)
    BY <1>1 DEF L0Versions, SeqRange
  <2>2. Get(k)' = Get(k)
    BY <1>1, SameAnswer DEF LInv
  <2>3. Lookup(SearchedOf(levels), Tables, k)' = Lookup(lv, Tables', k)
    BY <1>1 DEF Lookup, GetFromL0, GetFromLevel, MinKey, MaxKey, SearchedOf
  <2> QED BY <2>1, <2>2, <2>3 DEF Answer, IsTombstone
<1> QED BY <1>7, <1>8 DEF RestartKeepsAnswers
-----------------------------------------------------------------------------
LEMMA InitAnswerInv == Init => AnswerInv
<1>1. Init => LInv /\ Counted
  BY InitLInv DEF Init, Counted
<1>2. Init => stage = "idle"
  BY DEF Init
<1> QED BY <1>1, <1>2 DEF AnswerInv

LEMMA NextKeepsAnswerInv == ASSUME LastLevelHoldsAll, AnswerInv, [Next]_levelVars PROVE AnswerInv'
<1>1. LInv /\ LInv' /\ Counted'
  BY NextKeepsLInv DEF AnswerInv
<1>2. CASE UNCHANGED levelVars
  <2>1. UNCHANGED <<sst, levels, nextID, open, readers, levelTables, stage, task, outputs, unread>>
    BY <1>2 DEF levelVars, bounds
  <2>2. RestartKeepsAnswers => RestartKeepsAnswers'
    <3>1. ASSUME NEW k \in Keys
          PROVE  /\ L0Versions(k)' = L0Versions(k) /\ Get(k)' = Get(k)
                 /\ Lookup(SearchedOf(levels), Tables, k)' = Lookup(SearchedOf(levels), Tables, k)
      <4>1. L0Versions(k)' = L0Versions(k) /\ Tables' = Tables
        BY <2>1 DEF L0Versions, SeqRange, Tables
      <4>2. Get(k)' = Get(k)
        BY <1>1, <2>1, SameAnswer DEF LInv
      <4>3. Lookup(SearchedOf(levels), Tables, k)' = Lookup(SearchedOf(levels), Tables, k)
        BY <2>1, <4>1 DEF Lookup, GetFromL0, GetFromLevel, MinKey, MaxKey, SearchedOf
      <4> QED BY <4>1, <4>2, <4>3
    <3>2. \A e : Answer(e)' = Answer(e)
      BY DEF Answer, IsTombstone
    <3> QED BY <2>1, <3>1, <3>2 DEF RestartKeepsAnswers
  <2> QED BY <1>1, <2>1, <2>2 DEF AnswerInv
<1>3. CASE CompactMerge
  <2>1. /\ open /\ stage = "idle" /\ stage' = "merged" /\ unread' = unread
        /\ PickCompaction # NoTask /\ task' = PickCompaction
    BY <1>3 DEF CompactMerge
  <2>2. ~unread => task'.from + 1 \in Searched
    <3> DEFINE tk == PickCompaction
    <3>1. tk = PickCompaction
      OBVIOUS
    <3> HIDE DEF tk
    <3> QED BY <2>1, <3>1, <1>1, NotTheLast
  <2> QED BY <1>1, <2>1, <2>2 DEF AnswerInv
<1>4. CASE CompactCommit
  <2>1. stage = "merged" /\ stage' = "committed" /\ unread' = unread
    BY <1>4 DEF CompactCommit
  <2>2. CASE ~unread
    BY <1>1, <1>4, <2>1, <2>2, CommitKeepsAnswers DEF AnswerInv
  <2>3. CASE unread
    BY <1>1, <2>1, <2>3 DEF AnswerInv, RestartKeepsAnswers
  <2> QED BY <2>2, <2>3
<1>5. ASSUME NEW ks \in FlushSets, NEW dels, FlushCommit(ks, dels) PROVE AnswerInv'
  BY <1>1, <1>5 DEF FlushCommit, FlushTable, AnswerInv
<1>6. CASE FlushInstall \/ CompactInstall \/ CompactUnlink \/ CompactFails \/ InstallFails \/ Crash
  BY <1>1, <1>6 DEF FlushInstall, CompactInstall, CompactUnlink, CompactFails, InstallFails, Fails, Crash,
                    AnswerInv
<1>7. CASE Open
  <2>1. stage' = "idle"
    BY <1>1, <1>7 DEF Open, LInv, StageFacts
  <2> QED BY <1>1, <2>1 DEF AnswerInv
<1> QED BY <1>2, <1>3, <1>4, <1>5, <1>6, <1>7 DEF Next, CompactStep

THEOREM AnswersInvariance == ASSUME LastLevelHoldsAll PROVE Spec => []AnswerInv
<1>1. Init => AnswerInv
  BY InitAnswerInv
<1>2. AnswerInv /\ [Next]_levelVars => AnswerInv'
  BY NextKeepsAnswerInv
<1> QED BY <1>1, <1>2, PTL DEF Spec

LEMMA AnswerInvRestarts == ASSUME AnswerInv PROVE RestartKeepsAnswers
<1>1. LInv /\ stage \in {"idle", "flushed", "merged", "committed", "installed"}
  BY DEF AnswerInv, LInv, TypeOK
<1>2. CASE stage \in {"idle", "merged", "installed"} /\ open /\ ~unread
  BY <1>1, <1>2, SettledAnswers
<1>3. CASE stage = "flushed" \/ ~open \/ unread
  BY <1>3 DEF RestartKeepsAnswers
<1>4. CASE stage = "committed"
  BY <1>4 DEF AnswerInv
<1> QED BY <1>1, <1>2, <1>3, <1>4

\* A crash at any moment followed by Open (engine.go, Open: the levels of the manifest and a
\* reader for each of their tables) gives every key the answer that Get gives now, also
\* between the commit of a compaction and its installation.
THEOREM RestartsAreInvisible == ASSUME LastLevelHoldsAll PROVE Spec => []RestartKeepsAnswers
<1>1. AnswerInv => RestartKeepsAnswers
  BY AnswerInvRestarts
<1> QED BY <1>1, AnswersInvariance, PTL
-----------------------------------------------------------------------------
\* The installation of a compaction shows the levels that were committed.
LEMMA InstallKeepsAnswers ==
    ASSUME AnswerInv, CompactInstall, ~unread, NEW k \in Keys, Cardinality(L0Versions(k)) <= 1
    PROVE  Answer(Get(k)') = Answer(Get(k))
<1>1. /\ stage = "committed" /\ open
      /\ readers' = (readers \cup Outputs) \ Inputs /\ levelTables' = SearchedOf(levels)
      /\ UNCHANGED <<sst, levels>>
  BY DEF CompactInstall, Outputs, Inputs, InputsOf, AnswerInv, LInv, StageFacts
<1>2. RestartKeepsAnswers /\ LInv
  BY <1>1 DEF AnswerInv
<1>3. Answer(Lookup(SearchedOf(levels), Tables, k)) = Answer(Get(k))
  BY <1>1, <1>2 DEF RestartKeepsAnswers
<1>4. Tables \subseteq readers'
  BY <1>1, <1>2 DEF LInv, ReaderFacts, Unopened, StageFacts
<1>5. SearchedTables(SearchedOf(levels)) \subseteq Tables
  BY <1>2, ManifestTidy
<1>6. Lookup(SearchedOf(levels), Tables, k) = Lookup(SearchedOf(levels), readers', k)
  <2>1. \A r : Tables \subseteq r => Lookup(SearchedOf(levels), Tables, k) = Lookup(SearchedOf(levels), r, k)
    BY <1>5, ReadersDoNotMatter
  <2> QED BY <2>1, <1>4
<1>7. Get(k)' = Lookup(SearchedOf(levels), readers', k)
  BY <1>1 DEF Get, Lookup, GetFromL0, GetFromLevel, MinKey, MaxKey
<1> QED BY <1>3, <1>6, <1>7

LEMMA StepKeepsAnswers ==
    ASSUME AnswerInv, Next, open, open', ~unread', stage # "flushed",
           NEW k \in Keys, Cardinality(L0Versions(k)) <= 1
    PROVE  Answer(Get(k)') = Answer(Get(k))
<1>1. LInv /\ TypeOK
  BY DEF AnswerInv, LInv
<1>2. /\ DOMAIN sst \subseteq 1..(nextID - 1) /\ nextID \in Nat
      /\ \A l \in Searched : levelTables[l] \in Seq(1..(nextID - 1))
  BY <1>1 DEF TypeOK
<1>3. SearchedTables(levelTables) \subseteq 1..(nextID - 1)
  BY <1>2, RangeType DEF SearchedTables
<1>4. ~unread => SearchedTables(levelTables) \subseteq DOMAIN sst
  BY <1>1 DEF LInv, ReaderFacts, SearchedTables
<1>5. ASSUME NEW ks \in FlushSets, NEW dels, FlushCommit(ks, dels) PROVE Get(k)' = Get(k)
  <2>1. /\ UNCHANGED <<levelTables, readers, unread>>
        /\ \A t \in DOMAIN sst : t # nextID => sst'[t] = sst[t]
    BY <1>5 DEF FlushCommit, FlushTable
  <2>2. \A t \in SearchedTables(levelTables) : sst'[t] = sst[t]
    BY <2>1, <1>2, <1>3, <1>4
  <2> QED BY <2>1, <2>2, <1>1, SameAnswer
<1>6. CASE CompactMerge
  <2>1. UNCHANGED <<levelTables, readers, unread>>
    BY <1>6 DEF CompactMerge
  <2>2. \A t \in DOMAIN sst : sst'[t] = sst[t]
    <3>1. PICK n : sst' = [t \in DOMAIN sst \cup nextID..(nextID + Len(n) - 1) |->
                             IF t \in nextID..(nextID + Len(n) - 1) THEN n[t - nextID + 1] ELSE sst[t]]
      BY <1>6 DEF CompactMerge
    <3> QED BY <3>1, <1>2
  <2> QED BY <2>1, <2>2, <1>1, <1>4, SameAnswer
<1>7. CASE CompactCommit \/ CompactFails
  BY <1>1, <1>7, SameAnswer DEF CompactCommit, CompactFails, Fails
<1>8. CASE CompactInstall
  <2>1. ~unread
    BY <1>8 DEF CompactInstall
  <2> QED BY <2>1, <1>8, InstallKeepsAnswers
<1>9. CASE CompactUnlink
  <2>1. /\ UNCHANGED <<levelTables, readers, unread>> /\ stage = "installed"
        /\ sst' = [t \in DOMAIN sst \ Inputs |-> sst[t]]
    BY <1>9 DEF CompactUnlink, Inputs, InputsOf
  <2>2. SearchedTables(levelTables) \cap Inputs = {}
    <3>1. levelTables = SearchedOf(levels) /\ Inputs \cap Tables = {}
      BY <1>1, <2>1 DEF LInv, ReaderFacts, StageFacts
    <3> QED BY <3>1, <1>1, <2>1, ManifestTidy
  <2> QED BY <2>1, <2>2, <1>1, <1>4, SameAnswer
<1>10. CASE FlushInstall \/ InstallFails \/ Crash \/ Open
  BY <1>10 DEF FlushInstall, InstallFails, Crash, Open
<1> QED BY <1>5, <1>6, <1>7, <1>8, <1>9, <1>10 DEF Next, CompactStep

\* Compaction (compactor.go, Engine.Compact: merge, commit, swap of readers, unlink) changes
\* no answer for a key that level 0 has once, and neither does a flush before its last step.
THEOREM CompactionIsInvisible == ASSUME LastLevelHoldsAll PROVE Spec => CompactionKeepsAnswers
<1> DEFINE A == open /\ open' /\ ~unread' /\ stage # "flushed" =>
                  \A k \in Keys : Cardinality(L0Versions(k)) <= 1 => Answer(Get(k)') = Answer(Get(k))
<1>1. AnswerInv /\ [Next]_levelVars => [A]_levelVars
  <2> SUFFICES ASSUME AnswerInv, Next PROVE A
    OBVIOUS
  <2> QED BY StepKeepsAnswers
<1>2. []AnswerInv /\ [][Next]_levelVars => [][A]_levelVars
  <2> HIDE DEF A
  <2> QED BY <1>1, PTL
<1>3. CompactionKeepsAnswers <=> [][A]_levelVars
  BY DEF CompactionKeepsAnswers
<1> HIDE DEF A
<1> QED BY <1>2, <1>3, AnswersInvariance DEF Spec
-----------------------------------------------------------------------------
\* Reads.  The writes of a key.
WritesOf(k) == {r \in hist : r.key = k}

\* Writes are numbered, and no two of a key have the same number.
HistInv ==
    /\ IsFiniteSet(hist)
    /\ \A r \in hist : r.key \in Keys /\ r.seq \in 1..writes
    /\ \A r, q \in hist : r.key = q.key /\ r.seq = q.seq => r = q

\* Every memtable and table has writes of its keys.
Holds(f) == DOMAIN f \subseteq Keys /\ \A k \in DOMAIN f : f[k] \in WritesOf(k)

MemInv ==
    /\ Holds(activeMem) /\ activeMem = [k \in DOMAIN activeMem |-> activeMem[k]]
    /\ Holds(immMem) /\ immMem = [k \in DOMAIN immMem |-> immMem[k]]
    /\ flushing \in BOOLEAN /\ (flushing => immMem # Empty)

TableInv == \A t \in DOMAIN sst : Holds(sst[t]) /\ \A k \in DOMAIN sst[t] : sst[t][k].seq <= latest[k].seq

\* The newest write of a key is in the active memtable, else in the immutable one,
\* else it is the last that was flushed; the immutable memtable is newer than that, or
\* is the one being flushed.
NewestInv ==
    \A k \in Keys :
        /\ latest[k] = NoEntry \/ latest[k] \in WritesOf(k)
        /\ k \in DOMAIN activeMem => activeMem[k] = Newest(k) /\ latest[k].seq < activeMem[k].seq
        /\ k \in DOMAIN immMem => IF flushing THEN latest[k] = immMem[k] ELSE latest[k].seq < immMem[k].seq
        /\ k \in DOMAIN immMem \cap DOMAIN activeMem => immMem[k].seq < activeMem[k].seq
        /\ k \in DOMAIN immMem \ DOMAIN activeMem => immMem[k] = Newest(k)
        /\ k \notin DOMAIN activeMem \cup DOMAIN immMem => latest[k] = Newest(k)

\* The levels that are searched stay in order while others are waiting to be shown.
SearchInv ==
    /\ Tidy(levelTables)
    /\ \A k \in Keys : LaterIsNewer(levels[0], k) /\ LaterIsNewer(levelTables[0], k)

\* The keys of which a compaction that is committed has met two versions in level 0.
Demoting ==
    IF stage = "committed"
    THEN {k \in Keys : task.from = 0 /\
            Cardinality({t \in SeqRange(task.inFrom) : k \in DOMAIN sst[t]}) > 1}
    ELSE {}

ShownTables    == SearchedTables(levelTables)
ManifestTables == SearchedTables(SearchedOf(levels))

\* The manifest has what was flushed last, and so have the tables that are searched,
\* but for the table that a flush has yet to show.
ShownInv ==
    /\ \A k \in Keys \ (demoted \cup Demoting) : Reflects(ManifestTables, k, latest[k])
    /\ \A k \in Keys \ demoted : (stage = "flushed" /\ k \in DOMAIN immMem)
                                   \/ Reflects(ShownTables, k, latest[k])

\* Whoever looks at the tables now finds no older write of the key k than number n.
Shows(k, n) ==
    /\ n <= latest[k].seq
    /\ \E e \in WritesOf(k) \cup {NoEntry} : n <= e.seq /\ Reflects(ShownTables, k, e)

\* A Get between its two critical sections.
GetOK(r) ==
    /\ r = [pc |-> "tables", key |-> r.key, got |-> r.got, floor |-> r.floor]
    /\ r.key \in Keys /\ r.floor \in Nat
    /\ r.key \notin demoted => Shows(r.key, r.floor)

\* The streams with the key k, and the first of them, which decides about it.
HasKey(r, k) == {p \in DOMAIN r.streams : k \in DOMAIN r.streams[p].f}
FirstHas(r, k, p) == p \in HasKey(r, k) /\ \A q \in HasKey(r, k) : Precedes(p, q)

\* A Scan between its two: what its memtables do not have the tables will show.
MemScanOK(r) ==
    /\ r = [pc |-> "memtables", lo |-> r.lo, hi |-> r.hi, streams |-> r.streams, floor |-> r.floor]
    /\ r.lo \in Keys /\ r.hi \in Keys
    /\ DOMAIN r.streams = MemPlaces
    /\ \A p \in MemPlaces :
         LET f == r.streams[p].f IN Holds(f) /\ r.streams[p] = Stream(0, f, r.lo)
    /\ \A k \in Keys :
         /\ r.floor[k] \in Nat
         /\ HasKey(r, k) = {} /\ k \notin demoted => Shows(k, r.floor[k])
         /\ \A p \in HasKey(r, k) : FirstHas(r, k, p) => r.floor[k] <= r.streams[p].f[k].seq

\* The first stream with the key k has what a scan may answer, ...
Right(r, k) ==
    /\ HasKey(r, k) = {} => AsOf(k, NoEntry, r.floor[k], r.top)
    /\ \A p \in HasKey(r, k) : FirstHas(r, k, p) =>
         LET e == r.streams[p].f[k] IN r.floor[k] <= e.seq /\ e.seq <= r.top

\* ... and is what it has answered.
Told(r, k) ==
    /\ HasKey(r, k) = {} => k \notin DOMAIN r.out
    /\ \A p \in HasKey(r, k) : FirstHas(r, k, p) =>
         LET e == r.streams[p].f[k]
         IN  IF IsTombstone(e) THEN k \notin DOMAIN r.out ELSE k \in DOMAIN r.out /\ r.out[k] = e

\* A stream stands at its first key that the scan has not passed, but for what was lost.
StreamOK(r, s) ==
    /\ s = [id |-> s.id, f |-> s.f, at |-> s.at] /\ Holds(s.f)
    /\ s.at = 0 \/ (s.at \in DOMAIN s.f /\ s.at >= r.lo /\ s.at >= r.at)
    /\ \A k \in DOMAIN s.f \ r.lost : k >= r.lo /\ k > r.at => s.at # 0 /\ s.at <= k

ScanShape(r) ==
    /\ r = [pc |-> r.pc, lo |-> r.lo, hi |-> r.hi, streams |-> r.streams, floor |-> r.floor,
            top |-> r.top, at |-> r.at, out |-> r.out, lost |-> r.lost]
    /\ r.lo \in Keys /\ r.hi \in Keys /\ r.top \in Nat /\ r.at \in Nat /\ r.at <= r.hi
    /\ r.streams = [p \in DOMAIN r.streams |-> r.streams[p]] /\ DOMAIN r.streams \subseteq Nat \X Nat
    /\ DOMAIN r.out \subseteq r.lo..r.at
    /\ \A k \in Keys : r.floor[k] \in Nat

\* A Scan whose iterator is being read.
ScanOK(r) ==
    /\ ScanShape(r) /\ r.top <= writes
    /\ \A p \in DOMAIN r.streams : StreamOK(r, r.streams[p])
    /\ \A k \in (r.lo..r.hi) \ demoted : Right(r, k)
    /\ \A k \in (r.lo..r.at) \ r.lost : Told(r, k)

ReaderInv ==
    /\ reader.pc = "tables" => GetOK(reader)
    /\ reader.pc = "memtables" => MemScanOK(reader)
    /\ reader.pc \in {"opening", "scanning"} => ScanOK(reader)

\* The inductive invariant.
StoreInv ==
    /\ LInv /\ open /\ ~unread
    /\ stage = "merged" => task.from + 1 \in Searched
    /\ HistInv /\ MemInv /\ TableInv /\ NewestInv /\ SearchInv /\ ShownInv

ReadInv == StoreInv /\ ReaderInv /\ GetsAreFresh
-----------------------------------------------------------------------------
\* Writes and their numbers.

LEMMA WriteFacts ==
    ASSUME HistInv
    PROVE  /\ writes \in Nat
           /\ \A k : \A r \in WritesOf(k) :
                /\ r \in hist /\ r.key = k /\ k \in Keys /\ r # NoEntry
                /\ r.seq \in Nat /\ r.seq > 0 /\ r.seq <= writes
           /\ \A k : \A r, q \in WritesOf(k) : r.seq = q.seq => r = q
<1>1. writes \in Nat
  BY FS_CardinalityType DEF HistInv, writes
<1>2. ASSUME NEW k, NEW r \in WritesOf(k)
      PROVE  /\ r \in hist /\ r.key = k /\ k \in Keys
             /\ r.seq \in Nat /\ r.seq > 0 /\ r.seq <= writes
  <2>1. r \in hist /\ r.key = k /\ r.key \in Keys /\ r.seq \in 1..writes
    BY DEF HistInv, WritesOf
  <2> QED BY <2>1, <1>1
<1>3. NoEntry.seq = 0
  BY DEF NoEntry
<1>4. \A k : \A r \in WritesOf(k) : r # NoEntry
  BY <1>2, <1>3
<1>5. \A k : \A r, q \in WritesOf(k) : r.seq = q.seq => r = q
  BY DEF HistInv, WritesOf
<1> QED BY <1>1, <1>2, <1>4, <1>5

LEMMA NewestFacts ==
    ASSUME HistInv, NEW k
    PROVE  /\ WritesOf(k) = {} => Newest(k) = NoEntry
           /\ WritesOf(k) # {} => /\ Newest(k) \in WritesOf(k)
                                  /\ \A q \in WritesOf(k) : q.seq <= Newest(k).seq
           /\ Newest(k).seq \in Nat /\ Newest(k).seq <= writes
           /\ Newest(k) \in WritesOf(k) \cup {NoEntry}
<1> DEFINE W == WritesOf(k)
           New == CHOOSE r \in W : \A q \in W : q.seq <= r.seq
           S == {r.seq : r \in W}
<1>1. Newest(k) = IF W = {} THEN NoEntry ELSE New
  BY DEF Newest, WritesOf
<1>2. writes \in Nat /\ \A r \in W : r.seq \in Nat /\ r.seq <= writes
  BY WriteFacts
<1>3. ASSUME W # {}
      PROVE  New \in W /\ \A q \in W : q.seq <= New.seq
  <2>1. S \in SUBSET Nat /\ S # {} /\ \A n \in S : n <= writes
    BY <1>2, <1>3
  <2>2. \E m \in S : \A n \in S : n <= m
    <3> HIDE DEF S
    <3> QED BY <2>1, <1>2, MaxExists
  <2>3. \E r \in W : \A q \in W : q.seq <= r.seq
    BY <2>2
  <2> HIDE DEF W
  <2> QED BY <2>3
<1>4. NoEntry.seq = 0
  BY DEF NoEntry
<1> HIDE DEF New
<1> QED BY <1>1, <1>2, <1>3, <1>4

LEMMA NewestSame == ASSUME hist' = hist PROVE \A k : Newest(k)' = Newest(k) /\ WritesOf(k)' = WritesOf(k)
BY DEF Newest, WritesOf

LEMMA EmptyFacts == DOMAIN Empty = {} /\ Holds(Empty) /\ \A f : f = Empty => DOMAIN f = {}
BY DEF Empty, Holds

\* What a memtable says of a key.
LEMMA FindInMemFacts ==
    ASSUME HistInv, MemInv, NewestInv, NEW k \in Keys
    PROVE  /\ FindInMem(k) # NoEntry => FindInMem(k) = Newest(k) /\ Newest(k) \in WritesOf(k)
           /\ FindInMem(k) = NoEntry => /\ k \notin DOMAIN activeMem /\ k \notin DOMAIN immMem
                                        /\ latest[k] = Newest(k)
<1>1. CASE k \in DOMAIN activeMem
  <2>1. FindInMem(k) = activeMem[k] /\ activeMem[k] \in WritesOf(k) /\ activeMem[k] = Newest(k)
    BY <1>1 DEF FindInMem, MemInv, Holds, NewestInv
  <2> QED BY <2>1, WriteFacts
<1>2. CASE k \in DOMAIN immMem \ DOMAIN activeMem
  <2>1. FindInMem(k) = immMem[k] /\ immMem[k] \in WritesOf(k) /\ immMem[k] = Newest(k)
    BY <1>2 DEF FindInMem, MemInv, Holds, NewestInv
  <2> QED BY <2>1, WriteFacts
<1>3. CASE k \notin DOMAIN activeMem \cup DOMAIN immMem
  BY <1>3 DEF FindInMem, NewestInv
<1> QED BY <1>1, <1>2, <1>3
-----------------------------------------------------------------------------
\* The tables that are searched.

LEMMA ShownFacts ==
    ASSUME StoreInv
    PROVE  /\ ShownTables \subseteq readers /\ ShownTables \subseteq DOMAIN sst
           /\ TypeOK /\ Numbered /\ Tidy(levelTables)
           /\ \A k \in Keys : LaterIsNewer(levelTables[0], k)
           /\ \A t \in DOMAIN sst : \A k \in DOMAIN sst[t] :
                k \in Keys /\ sst[t][k] \in WritesOf(k) /\ sst[t][k].seq \in Nat
<1>1. ShownTables \subseteq readers /\ readers \subseteq DOMAIN sst
  BY DEF StoreInv, LInv, ReaderFacts, ShownTables, SearchedTables
<1>2. TypeOK /\ Numbered /\ Tidy(levelTables) /\ \A k \in Keys : LaterIsNewer(levelTables[0], k)
  BY DEF StoreInv, LInv, SearchInv
<1>3. \A t \in DOMAIN sst : \A k \in DOMAIN sst[t] :
        k \in Keys /\ sst[t][k] \in WritesOf(k) /\ sst[t][k].seq \in Nat
  BY <1>2 DEF StoreInv, TableInv, Holds, Numbered
<1> QED BY <1>1, <1>2, <1>3

\* What Get finds there is what they reflect, or nothing for a deletion.
LEMMA GetReflects ==
    ASSUME StoreInv, NEW k \in Keys, NEW e, Reflects(ShownTables, k, e)
    PROVE  Get(k) = e \/ (Get(k) = NoEntry /\ Gone(e))
<1>1. Says(ShownTables, k, Get(k))
  BY ShownFacts, LookupSays DEF Get, ShownTables
<1>2. \A t \in ShownTables : \A h \in DOMAIN sst[t] : sst[t][h].seq \in Nat
  BY ShownFacts
<1> HIDE DEF ShownTables
<1> QED BY <1>1, <1>2, SayAndReflect

\* At every moment Get finds the newest write of a key.
LEMMA StoreInvFinds == ASSUME StoreInv PROVE NewestIsFound
<1> SUFFICES ASSUME NEW k \in Keys \ demoted
             PROVE  \/ Found(k) = Newest(k)
                    \/ Found(k) = NoEntry /\ Newest(k).seq > 0 /\ IsTombstone(Newest(k))
  BY DEF NewestIsFound
<1>1. HistInv /\ MemInv /\ NewestInv
  BY DEF StoreInv
<1>2. CASE FindInMem(k) # NoEntry
  BY <1>1, <1>2, FindInMemFacts DEF Found
<1>3. CASE FindInMem(k) = NoEntry
  <2>1. Found(k) = Get(k) /\ latest[k] = Newest(k) /\ k \notin DOMAIN immMem
    BY <1>1, <1>3, FindInMemFacts DEF Found
  <2>2. Reflects(ShownTables, k, latest[k])
    BY <2>1 DEF StoreInv, ShownInv
  <2>3. Get(k) = Newest(k) \/ (Get(k) = NoEntry /\ Gone(Newest(k)))
    BY <2>1, <2>2, GetReflects
  <2>4. Newest(k) = NoEntry \/ Newest(k).seq > 0
    BY <1>1, NewestFacts, WriteFacts
  <2> QED BY <2>1, <2>3, <2>4 DEF Gone
<1> QED BY <1>2, <1>3
-----------------------------------------------------------------------------
\* The order of the streams.

LEMMA FirstPlace ==
    ASSUME NEW P \in SUBSET (Nat \X Nat), P # {}
    PROVE  \E p \in P : \A q \in P : Precedes(p, q)
<1>1. PICK a \in {p[1] : p \in P} : \A b \in {p[1] : p \in P} : a <= b
  <2> DEFINE S == {p[1] : p \in P}
  <2>1. S \in SUBSET Nat /\ S # {}
    OBVIOUS
  <2> HIDE DEF S
  <2>2. \E a \in S : \A b \in S : a <= b
    BY <2>1, MinExists
  <2> QED BY <2>2 DEF S
<1>2. PICK m \in {p[2] : p \in {q \in P : q[1] = a}} : \A n \in {p[2] : p \in {q \in P : q[1] = a}} : m <= n
  <2> DEFINE S == {p[2] : p \in {q \in P : q[1] = a}}
  <2>1. S \in SUBSET Nat /\ S # {}
    OBVIOUS
  <2> HIDE DEF S
  <2>2. \E b \in S : \A n \in S : b <= n
    BY <2>1, MinExists
  <2> QED BY <2>2 DEF S
<1>3. PICK p \in P : p[1] = a /\ p[2] = m
  BY <1>2
<1>4. ASSUME NEW q \in P PROVE Precedes(p, q)
  <2>1. a <= q[1] /\ a \in Nat /\ q[1] \in Nat
    BY <1>1
  <2>2. CASE q[1] = a
    <3>1. m <= q[2]
      BY <2>2, <1>2
    <3> QED BY <3>1, <2>2, <1>3 DEF Precedes
  <2>3. CASE a < q[1]
    BY <2>3, <1>3 DEF Precedes
  <2> QED BY <2>1, <2>2, <2>3
<1> QED BY <1>4

LEMMA OnlyOneFirst ==
    ASSUME NEW p \in Nat \X Nat, NEW q \in Nat \X Nat, Precedes(p, q), Precedes(q, p)
    PROVE  p = q
<1>1. p[1] = q[1] /\ p[2] = q[2]
  BY DEF Precedes
<1> QED BY <1>1

LEMMA FirstExists ==
    ASSUME NEW r, DOMAIN r.streams \subseteq Nat \X Nat, NEW k, HasKey(r, k) # {}
    PROVE  \E p \in HasKey(r, k) : FirstHas(r, k, p)
<1>1. HasKey(r, k) \in SUBSET (Nat \X Nat)
  BY DEF HasKey
<1>2. \E p \in HasKey(r, k) : \A q \in HasKey(r, k) : Precedes(p, q)
  BY <1>1, FirstPlace
<1> QED BY <1>2 DEF FirstHas

\* The root of the heap is the stream with the least key, and the first of those.
LEMMA RootFacts ==
    ASSUME NEW r, DOMAIN r.streams \subseteq Nat \X Nat, Valid(r) # {},
           \A p \in Valid(r) : r.streams[p].at \in Nat
    PROVE  /\ Root(r) \in Valid(r)
           /\ \A q \in Valid(r) : /\ r.streams[Root(r)].at <= r.streams[q].at
                                  /\ r.streams[q].at = r.streams[Root(r)].at => Precedes(Root(r), q)
<1> DEFINE at(p) == r.streams[p].at
           V == Valid(r)
           Best(i) == \A j \in V : at(i) < at(j) \/ (at(i) = at(j) /\ Precedes(i, j))
           S == {at(p) : p \in V}
<1>1. V \subseteq Nat \X Nat
  BY DEF Valid
<1>2. PICK a \in S : \A b \in S : a <= b
  <2>1. S \in SUBSET Nat /\ S # {}
    OBVIOUS
  <2> HIDE DEF S
  <2> QED BY <2>1, MinExists
<1>3. PICK p \in {q \in V : at(q) = a} : \A q \in {j \in V : at(j) = a} : Precedes(p, q)
  <2> DEFINE P == {q \in V : at(q) = a}
  <2>1. P \in SUBSET (Nat \X Nat) /\ P # {}
    BY <1>1, <1>2
  <2> HIDE DEF P
  <2>2. \E i \in P : \A q \in P : Precedes(i, q)
    BY <2>1, FirstPlace
  <2> QED BY <2>2 DEF P
<1>4. p \in V /\ Best(p)
  <2>1. \A j \in V : a <= at(j) /\ at(j) \in Nat /\ a \in Nat
    BY <1>2
  <2> QED BY <2>1, <1>3
<1>5. Root(r) = CHOOSE i \in V : Best(i)
  BY DEF Root
<1>6. Root(r) \in V /\ Best(Root(r))
  <2> HIDE DEF V, Best
  <2> QED BY <1>4, <1>5
<1>7. at(Root(r)) \in Nat /\ \A q \in V : at(q) \in Nat
  BY <1>6
<1> QED BY <1>6, <1>7

\* A stream that moves on is at the next of its keys, or what it does not show is lost.
LEMMA LeastFacts ==
    ASSUME NEW S \in SUBSET Keys
    PROVE  /\ S = {} => FirstIn(S) = 0
           /\ S # {} => FirstIn(S) \in S /\ \A k \in S : FirstIn(S) <= k
<1>1. ASSUME S # {} PROVE Least(S) \in S /\ \A k \in S : Least(S) <= k
  <2>1. S \in SUBSET Nat
    BY DEF Keys
  <2>2. \E m \in S : \A n \in S : m <= n
    BY <2>1, <1>1, MinExists
  <2> QED BY <2>2 DEF Least
<1> QED BY <1>1 DEF FirstIn

LEMMA KeysAreNat == \A k \in Keys : k \in Nat /\ k > 0
BY DEF Keys
-----------------------------------------------------------------------------
\* Answers and moments.

LEMMA AnswersAsOf ==
    ASSUME HistInv, NEW k, NEW e \in WritesOf(k) \cup {NoEntry}, NEW lo \in Nat, NEW hi \in Nat,
           lo <= e.seq, e.seq <= hi
    PROVE  AsOf(k, e, lo, hi) /\ (Gone(e) => AsOf(k, NoEntry, lo, hi))
<1>1. CASE e = NoEntry
  <2>1. lo = 0
    BY <1>1 DEF NoEntry
  <2> QED BY <1>1, <2>1 DEF AsOf
<1>2. CASE e \in WritesOf(k)
  <2>1. e \in {r \in hist : r.key = k /\ lo <= r.seq /\ r.seq <= hi} /\ e # NoEntry
    BY <1>2, WriteFacts DEF WritesOf
  <2> QED BY <2>1 DEF AsOf, Gone
<1> QED BY <1>1, <1>2

\* A key that is in no memtable is shown by the tables.
LEMMA ShowsNewest ==
    ASSUME StoreInv, NEW k \in Keys \ demoted, k \notin DOMAIN activeMem, k \notin DOMAIN immMem
    PROVE  Shows(k, Newest(k).seq)
<1>1. latest[k] = Newest(k) /\ latest[k] \in WritesOf(k) \cup {NoEntry} /\ Newest(k).seq \in Nat
  BY NewestFacts DEF StoreInv, NewestInv
<1>2. Reflects(ShownTables, k, latest[k])
  BY DEF StoreInv, ShownInv
<1> QED BY <1>1, <1>2 DEF Shows

\* The first critical section of Get.
LEMMA GetMemOK ==
    ASSUME StoreInv, NEW k \in Keys, NEW r,
           r = [pc |-> IF FindInMem(k) = NoEntry THEN "tables" ELSE "got",
                key |-> k, got |-> FindInMem(k), floor |-> Newest(k).seq]
    PROVE  /\ r.pc = "tables" => GetOK(r)
           /\ r.pc = "got" => AsOf(k, r.got, r.floor, writes)
<1>1. HistInv /\ MemInv /\ NewestInv
  BY DEF StoreInv
<1>2. Newest(k).seq \in Nat /\ Newest(k).seq <= writes /\ writes \in Nat
  BY <1>1, NewestFacts, WriteFacts
<1>3. ASSUME FindInMem(k) = NoEntry PROVE GetOK(r)
  <2>1. k \notin demoted => Shows(k, Newest(k).seq)
    BY <1>1, <1>3, FindInMemFacts, ShowsNewest
  <2>2. r = [pc |-> "tables", key |-> k, got |-> FindInMem(k), floor |-> Newest(k).seq]
    BY <1>3
  <2>3. /\ r.key = k /\ r.floor = Newest(k).seq
        /\ r = [pc |-> "tables", key |-> r.key, got |-> r.got, floor |-> r.floor]
    BY <2>2
  <2> QED BY <2>1, <2>3, <1>2 DEF GetOK
<1>4. ASSUME FindInMem(k) # NoEntry PROVE AsOf(k, Newest(k), Newest(k).seq, writes)
  <2>1. Newest(k) \in WritesOf(k)
    BY <1>1, <1>4, FindInMemFacts
  <2> QED BY <2>1, <1>1, <1>2, AnswersAsOf
<1>5. FindInMem(k) # NoEntry => FindInMem(k) = Newest(k)
  BY <1>1, FindInMemFacts
<1>6. r.pc = "got" => FindInMem(k) # NoEntry /\ r.got = FindInMem(k) /\ r.floor = Newest(k).seq
  OBVIOUS
<1>7. r.pc = "tables" => FindInMem(k) = NoEntry
  OBVIOUS
<1> QED BY <1>3, <1>4, <1>5, <1>6, <1>7

\* Its second: what the tables show is not older than what was there at the first.
LEMMA GetTablesOK ==
    ASSUME StoreInv, NEW r, GetOK(r), r.key \notin demoted
    PROVE  AsOf(r.key, Get(r.key), r.floor, writes)
<1> DEFINE k == r.key
<1>1. k \in Keys /\ r.floor \in Nat /\ Shows(k, r.floor) /\ HistInv
  BY DEF GetOK, StoreInv
<1>2. PICK e \in WritesOf(k) \cup {NoEntry} : r.floor <= e.seq /\ Reflects(ShownTables, k, e)
  BY <1>1 DEF Shows
<1>3. Get(k) = e \/ (Get(k) = NoEntry /\ Gone(e))
  BY <1>1, <1>2, GetReflects
<1>4. e.seq <= writes /\ writes \in Nat
  <2>1. NoEntry.seq = 0
    BY DEF NoEntry
  <2> QED BY <1>1, <2>1, WriteFacts
<1>5. AsOf(k, e, r.floor, writes) /\ (Gone(e) => AsOf(k, NoEntry, r.floor, writes))
  BY <1>1, <1>2, <1>4, AnswersAsOf
<1> QED BY <1>3, <1>5
-----------------------------------------------------------------------------
\* The critical sections of Scan.

LEMMA ScanMemOK ==
    ASSUME StoreInv, NEW lo \in Keys, NEW hi \in Keys, NEW r,
           r = [pc |-> "memtables", lo |-> lo, hi |-> hi,
                streams |-> [p \in MemPlaces |-> Stream(0, IF p[2] = 1 THEN activeMem ELSE immMem, lo)],
                floor |-> [k \in Keys |-> Newest(k).seq]]
    PROVE  MemScanOK(r)
<1> DEFINE mem(p) == IF p[2] = 1 THEN activeMem ELSE immMem
<1>1. HistInv /\ MemInv /\ NewestInv
  BY DEF StoreInv
<1>2. /\ r = [pc |-> "memtables", lo |-> r.lo, hi |-> r.hi, streams |-> r.streams, floor |-> r.floor]
      /\ r.lo = lo /\ r.hi = hi /\ DOMAIN r.streams = MemPlaces
      /\ \A k \in Keys : r.floor[k] = Newest(k).seq
      /\ \A p \in MemPlaces : r.streams[p] = Stream(0, mem(p), lo)
  OBVIOUS
<1>3. \A p \in MemPlaces : r.streams[p].f = mem(p) /\ Holds(mem(p))
  BY <1>1, <1>2 DEF Stream, MemInv
<1>4. \A p \in MemPlaces : LET f == r.streams[p].f IN Holds(f) /\ r.streams[p] = Stream(0, f, r.lo)
  BY <1>2, <1>3
<1>5. mem(<<0, 1>>) = activeMem /\ mem(<<0, 2>>) = immMem /\ MemPlaces = {<<0, 1>>, <<0, 2>>}
  BY DEF MemPlaces
<1> HIDE DEF mem
<1>6. ASSUME NEW k \in Keys
      PROVE  HasKey(r, k) = {p \in MemPlaces : k \in DOMAIN mem(p)}
  BY <1>2, <1>3 DEF HasKey
<1>7. ASSUME NEW k \in Keys, HasKey(r, k) = {}, k \notin demoted
      PROVE  Shows(k, r.floor[k])
  <2>1. k \notin DOMAIN activeMem /\ k \notin DOMAIN immMem
    BY <1>5, <1>6, <1>7
  <2> QED BY <2>1, <1>2, <1>7, ShowsNewest
<1>8. ASSUME NEW k \in Keys, NEW p \in HasKey(r, k), FirstHas(r, k, p)
      PROVE  r.floor[k] <= r.streams[p].f[k].seq
  <2>1. p \in MemPlaces /\ k \in DOMAIN mem(p) /\ Newest(k).seq \in Nat
    BY <1>1, <1>6, NewestFacts
  <2>2. CASE p = <<0, 1>>
    <3>1. activeMem[k] = Newest(k)
      BY <1>1, <1>5, <2>1, <2>2 DEF NewestInv
    <3> QED BY <3>1, <1>2, <1>3, <1>5, <2>1, <2>2
  <2>3. CASE p = <<0, 2>>
    <3>1. k \notin DOMAIN activeMem
      <4> SUFFICES ASSUME k \in DOMAIN activeMem PROVE FALSE
        OBVIOUS
      <4>1. <<0, 1>> \in HasKey(r, k)
        BY <1>5, <1>6
      <4>2. Precedes(<<0, 2>>, <<0, 1>>)
        BY <4>1, <1>8, <2>3 DEF FirstHas
      <4> QED BY <4>2 DEF Precedes
    <3>2. immMem[k] = Newest(k)
      BY <3>1, <1>1, <1>5, <2>1, <2>3 DEF NewestInv
    <3> QED BY <3>2, <1>2, <1>3, <1>5, <2>1, <2>3
  <2> QED BY <2>1, <2>2, <2>3, <1>5
<1>9. \A k \in Keys : r.floor[k] \in Nat
  BY <1>1, <1>2, NewestFacts
<1> QED BY <1>2, <1>4, <1>7, <1>8, <1>9 DEF MemScanOK

\* The places that a scan reads are tables that are searched, and all of those that
\* have a key of the range.
LEMMA PlaceFacts ==
    ASSUME StoreInv, NEW lo \in Keys, NEW hi \in Keys
    PROVE  /\ \A p \in PlacesFor(lo, hi) :
                \E l \in Searched : \E i \in 1..Len(levelTables[l]) :
                  p = <<l + 1, i>> /\ TableAt(p) \in SeqRange(levelTables[l])
           /\ \A l \in Searched : \A t \in SeqRange(levelTables[l]) : \A k \in DOMAIN sst[t] :
                lo <= k /\ k <= hi =>
                  \E i \in 1..Len(levelTables[l]) : <<l + 1, i>> \in PlacesFor(lo, hi) /\ TableAt(<<l + 1, i>>) = t
           /\ \A l \in Searched : l \in Nat /\ Len(levelTables[l]) \in Nat
<1>1. \A l \in Searched : l \in Nat /\ levelTables[l] \in Seq(1..(nextID - 1)) /\ Len(levelTables[l]) \in Nat
  BY ShownFacts, LevelTypes DEF Tidy
<1>2. ASSUME NEW l \in Searched, NEW i \in 1..Len(levelTables[l])
      PROVE  TableAt(<<l + 1, i>>) = IF l = 0 THEN levelTables[0][Len(levelTables[0]) + 1 - i] ELSE levelTables[l][i]
  BY <1>1 DEF TableAt
<1>3. ASSUME NEW l \in Searched, NEW i \in 1..Len(levelTables[l])
      PROVE  TableAt(<<l + 1, i>>) \in SeqRange(levelTables[l])
  <2>1. CASE l = 0
    <3>1. Len(levelTables[0]) + 1 - i \in 1..Len(levelTables[0])
      BY <1>1, <2>1
    <3> QED BY <3>1, <1>2, <2>1 DEF SeqRange
  <2>2. CASE l # 0
    BY <1>2, <2>2 DEF SeqRange
  <2> QED BY <2>1, <2>2
<1>4. ASSUME NEW p \in PlacesFor(lo, hi)
      PROVE  \E l \in Searched : \E i \in 1..Len(levelTables[l]) :
               p = <<l + 1, i>> /\ TableAt(p) \in SeqRange(levelTables[l])
  <2>1. PICK l \in Searched : p \in {l + 1} \X
           {i \in 1..Len(levelTables[l]) : TableAt(<<l + 1, i>>) \in readers
                                              /\ (l = 0 \/ Meets(TableAt(<<l + 1, i>>), lo, hi))}
    BY DEF PlacesFor
  <2>2. p[1] = l + 1 /\ p = <<p[1], p[2]>> /\ p[2] \in 1..Len(levelTables[l])
    BY <2>1
  <2> QED BY <2>2, <1>3
<1>5. ASSUME NEW l \in Searched, NEW t \in SeqRange(levelTables[l]), NEW k \in DOMAIN sst[t],
             lo <= k, k <= hi
      PROVE  \E i \in 1..Len(levelTables[l]) : <<l + 1, i>> \in PlacesFor(lo, hi) /\ TableAt(<<l + 1, i>>) = t
  <2>1. PICK i \in 1..Len(levelTables[l]) : TableAt(<<l + 1, i>>) = t
    <3>1. PICK j \in 1..Len(levelTables[l]) : t = levelTables[l][j]
      BY DEF SeqRange
    <3>2. CASE l = 0
      <4>1. PICK i \in 1..Len(levelTables[0]) : Len(levelTables[0]) + 1 - i = j
        <5>1. Len(levelTables[0]) + 1 - j \in 1..Len(levelTables[0])
          BY <1>1, <3>2
        <5>2. Len(levelTables[0]) + 1 - (Len(levelTables[0]) + 1 - j) = j
          BY <1>1, <3>2
        <5> QED BY <5>1, <5>2
      <4> QED BY <4>1, <3>1, <3>2, <1>2
    <3>3. CASE l # 0
      BY <3>1, <3>3, <1>2
    <3> QED BY <3>2, <3>3
  <2>2. t \in ShownTables
    BY DEF ShownTables, SearchedTables
  <2>3. t \in readers /\ t \in DOMAIN sst
    BY <2>2, ShownFacts
  <2>4. Meets(t, lo, hi)
    <3>1. DOMAIN sst[t] \in (SUBSET Keys) \ {{}}
      BY <2>3, ShownFacts DEF TypeOK
    <3>2. MinKey(t) \in Nat /\ MaxKey(t) \in Nat /\ MinKey(t) <= k /\ k <= MaxKey(t) /\ k \in Nat
      BY <3>1, KeyRange
    <3>3. lo \in Nat /\ hi \in Nat
      BY KeysAreNat
    <3> QED BY <3>2, <3>3, <1>5 DEF Meets
  <2>5. <<l + 1, i>> \in PlacesFor(lo, hi)
    BY <2>1, <2>3, <2>4 DEF PlacesFor
  <2> QED BY <2>1, <2>5
<1> QED BY <1>1, <1>4, <1>5

\* The first of those with the key has the write that the tables reflect.
LEMMA FirstTableReflects ==
    ASSUME StoreInv, NEW lo \in Keys, NEW hi \in Keys, NEW k \in Keys, lo <= k, k <= hi,
           NEW e, Reflects(ShownTables, k, e),
           NEW P, P = {p \in PlacesFor(lo, hi) : k \in DOMAIN sst[TableAt(p)]}
    PROVE  /\ P = {} => Gone(e)
           /\ \A p \in P : (\A q \in P : Precedes(p, q)) => sst[TableAt(p)][k] = e
<1>1. ASSUME NEW t \in ShownTables, k \in DOMAIN sst[t]
      PROVE  /\ t \in DOMAIN sst /\ sst[t][k] \in WritesOf(k) /\ sst[t][k].seq \in Nat
             /\ \E l \in Searched : \E i \in 1..Len(levelTables[l]) :
                  t \in SeqRange(levelTables[l]) /\ <<l + 1, i>> \in P /\ TableAt(<<l + 1, i>>) = t
  <2>1. t \in DOMAIN sst /\ sst[t][k] \in WritesOf(k) /\ sst[t][k].seq \in Nat
    BY <1>1, ShownFacts
  <2>2. PICK l \in Searched : t \in SeqRange(levelTables[l])
    BY DEF ShownTables, SearchedTables
  <2>3. PICK i \in 1..Len(levelTables[l]) : <<l + 1, i>> \in PlacesFor(lo, hi) /\ TableAt(<<l + 1, i>>) = t
    BY <2>2, <1>1, PlaceFacts
  <2> QED BY <2>1, <2>2, <2>3, <1>1
<1>2. ASSUME NEW p \in P
      PROVE  /\ TableAt(p) \in ShownTables /\ k \in DOMAIN sst[TableAt(p)]
             /\ \E m \in Searched : \E j \in 1..Len(levelTables[m]) :
                  p = <<m + 1, j>> /\ TableAt(p) \in SeqRange(levelTables[m])
  <2>1. p \in PlacesFor(lo, hi) /\ k \in DOMAIN sst[TableAt(p)]
    OBVIOUS
  <2>2. PICK m \in Searched : \E j \in 1..Len(levelTables[m]) :
                  p = <<m + 1, j>> /\ TableAt(p) \in SeqRange(levelTables[m])
    BY <2>1, PlaceFacts
  <2> QED BY <2>1, <2>2 DEF ShownTables, SearchedTables
<1>3. CASE Gone(e) /\ \A t \in ShownTables : k \notin DOMAIN sst[t]
  BY <1>2, <1>3
<1>4. ASSUME NEW t \in ShownTables, k \in DOMAIN sst[t], e = sst[t][k],
             \A u \in ShownTables : k \in DOMAIN sst[u] => sst[u][k].seq <= e.seq
      PROVE  P # {} /\ \A p \in P : (\A q \in P : Precedes(p, q)) => sst[TableAt(p)][k] = e
  <2>1. PICK l \in Searched : \E i \in 1..Len(levelTables[l]) :
          t \in SeqRange(levelTables[l]) /\ <<l + 1, i>> \in P /\ TableAt(<<l + 1, i>>) = t
    BY <1>1, <1>4
  <2>2. PICK i \in 1..Len(levelTables[l]) :
          t \in SeqRange(levelTables[l]) /\ <<l + 1, i>> \in P /\ TableAt(<<l + 1, i>>) = t
    BY <2>1
  <2>3. ASSUME NEW p \in P, \A q \in P : Precedes(p, q)
        PROVE  sst[TableAt(p)][k] = e
    <3> DEFINE u == TableAt(p)
    <3>1. u \in ShownTables /\ k \in DOMAIN sst[u] /\ u \in DOMAIN sst
          /\ sst[u][k] \in WritesOf(k) /\ sst[u][k].seq \in Nat
      BY <1>1, <1>2
    <3>2. PICK m \in Searched : \E j \in 1..Len(levelTables[m]) : p = <<m + 1, j>> /\ u \in SeqRange(levelTables[m])
      BY <1>2
    <3>3. PICK j \in 1..Len(levelTables[m]) : p = <<m + 1, j>> /\ u \in SeqRange(levelTables[m])
      BY <3>2
    <3>4. /\ l \in Nat /\ m \in Nat /\ Len(levelTables[l]) \in Nat /\ Len(levelTables[m]) \in Nat
          /\ sst[t][k] \in WritesOf(k) /\ sst[t][k].seq \in Nat /\ t \in DOMAIN sst
      BY PlaceFacts, <1>1, <1>4
    <3>5. m < l \/ (m = l /\ j <= i)
      <4>1. Precedes(<<m + 1, j>>, <<l + 1, i>>)
        BY <2>2, <2>3, <3>3
      <4>2. m + 1 < l + 1 \/ (m + 1 = l + 1 /\ j <= i)
        BY <4>1 DEF Precedes
      <4> QED BY <4>2, <3>4
    <3>6. ASSUME sst[t][k].seq <= sst[u][k].seq PROVE sst[u][k] = e
      <4>1. sst[u][k].seq = sst[t][k].seq
        BY <3>1, <3>4, <3>6, <1>4
      <4> QED BY <4>1, <3>1, <3>4, <1>4, WriteFacts DEF StoreInv
    <3>7. CASE m < l
      <4>1. sst[u][k].seq > sst[t][k].seq
        BY <3>1, <3>3, <3>7, <2>2, <1>4, ShownFacts DEF Tidy
      <4> QED BY <4>1, <3>1, <3>4, <3>6
    <3>8. CASE m = l /\ l = 0
      <4> DEFINE n == Len(levelTables[0])
      <4>1. u = levelTables[0][n + 1 - j] /\ t = levelTables[0][n + 1 - i]
        BY <3>3, <3>8, <2>2 DEF TableAt
      <4>2. /\ n + 1 - j \in 1..n /\ n + 1 - i \in 1..n /\ n + 1 - i <= n + 1 - j
            /\ (n + 1 - i = n + 1 - j \/ n + 1 - i < n + 1 - j)
        BY <3>3, <3>4, <3>5, <3>8, <2>2
      <4>3. t = u \/ sst[t][k].seq < sst[u][k].seq
        <5> HIDE DEF n, u
        <5>1. LaterIsNewer(levelTables[0], k) /\ n = Len(levelTables[0])
          BY ShownFacts DEF n
        <5> QED BY <5>1, <4>1, <4>2, <3>1, <1>4 DEF LaterIsNewer
      <4> QED BY <4>3, <3>1, <3>4, <3>6, <1>4
    <3>9. CASE m = l /\ l # 0
      <4>1. u = levelTables[l][j] /\ t = levelTables[l][i]
        BY <3>3, <3>4, <3>9, <2>2 DEF TableAt
      <4>2. i # j => Apart(levelTables[l][i], levelTables[l][j])
        BY <3>3, <3>9, <2>2, ShownFacts DEF Tidy
      <4>3. /\ DOMAIN sst[t] \in (SUBSET Keys) \ {{}} /\ DOMAIN sst[u] \in (SUBSET Keys) \ {{}}
        BY <3>1, <3>4, ShownFacts DEF TypeOK
      <4>4. /\ MinKey(t) <= k /\ k <= MaxKey(t) /\ MinKey(u) <= k /\ k <= MaxKey(u)
            /\ MinKey(t) \in Nat /\ MaxKey(t) \in Nat /\ MinKey(u) \in Nat /\ MaxKey(u) \in Nat /\ k \in Nat
        <5> HIDE DEF u
        <5> QED BY <4>3, <3>1, <1>4, KeyRange
      <4>5. ~Apart(t, u)
        <5> HIDE DEF u
        <5> QED BY <4>4 DEF Apart
      <4>6. t = u
        BY <4>1, <4>2, <4>5
      <4> QED BY <4>6, <1>4
    <3> QED BY <3>5, <3>7, <3>8, <3>9
  <2> QED BY <2>2, <2>3
<1> QED BY <1>3, <1>4 DEF Reflects

LEMMA StreamStarts ==
    ASSUME NEW f, Holds(f), NEW id, NEW r, r.lo \in Keys, r.at = 0
    PROVE  StreamOK(r, Stream(id, f, r.lo))
<1> DEFINE s == Stream(id, f, r.lo)
           S == {k \in DOMAIN f : k >= r.lo}
<1>1. s = [id |-> s.id, f |-> s.f, at |-> s.at] /\ s.f = f /\ s.at = FirstIn(S)
  BY DEF Stream
<1>2. S \in SUBSET Keys /\ \A k \in S : k > 0 /\ k \in Nat
  BY KeysAreNat DEF Holds
<1>3. /\ S = {} => FirstIn(S) = 0
      /\ S # {} => FirstIn(S) \in S /\ \A k \in S : FirstIn(S) <= k
  <2> HIDE DEF S
  <2> QED BY <1>2, LeastFacts
<1>4. s.at = 0 \/ (s.at \in DOMAIN f /\ s.at >= r.lo /\ s.at >= r.at)
  BY <1>1, <1>2, <1>3
<1>5. \A k \in DOMAIN f : k >= r.lo => s.at # 0 /\ s.at <= k
  <2>1. \A k \in S : FirstIn(S) # 0 /\ FirstIn(S) <= k
    BY <1>2, <1>3
  <2> QED BY <2>1, <1>1
<1> HIDE DEF s, S
<1> QED BY <1>1, <1>4, <1>5 DEF StreamOK, s

\* The second critical section of Scan.
LEMMA ScanTablesOK ==
    ASSUME StoreInv, NEW q, MemScanOK(q), NEW tables, tables = PlacesFor(q.lo, q.hi), NEW r,
           r = [pc |-> "opening", lo |-> q.lo, hi |-> q.hi,
                streams |-> [p \in MemPlaces \cup tables |->
                    IF p \in MemPlaces THEN q.streams[p]
                    ELSE Stream(TableAt(p), sst[TableAt(p)], q.lo)],
                floor |-> q.floor, top |-> writes,
                at |-> 0, out |-> Empty, lost |-> {}]
    PROVE  ScanOK(r)
<1>1. /\ q.lo \in Keys /\ q.hi \in Keys /\ DOMAIN q.streams = MemPlaces
      /\ \A k \in Keys : q.floor[k] \in Nat
      /\ HistInv /\ writes \in Nat
  BY WriteFacts DEF MemScanOK, StoreInv
<1>2. /\ r.pc = "opening" /\ r.lo = q.lo /\ r.hi = q.hi /\ r.floor = q.floor /\ r.top = writes
      /\ r.at = 0 /\ r.out = Empty /\ r.lost = {}
      /\ r = [pc |-> r.pc, lo |-> r.lo, hi |-> r.hi, streams |-> r.streams, floor |-> r.floor,
              top |-> r.top, at |-> r.at, out |-> r.out, lost |-> r.lost]
  OBVIOUS
<1>3. /\ DOMAIN r.streams = MemPlaces \cup tables
      /\ r.streams = [p \in DOMAIN r.streams |-> r.streams[p]]
      /\ \A p \in MemPlaces : r.streams[p] = q.streams[p]
      /\ \A p \in tables : p \notin MemPlaces => r.streams[p] = Stream(TableAt(p), sst[TableAt(p)], r.lo)
  OBVIOUS
<1>4. ASSUME NEW p \in tables
      PROVE  /\ p \in Nat \X Nat /\ p[1] > 0 /\ p \notin MemPlaces
             /\ TableAt(p) \in ShownTables /\ Holds(sst[TableAt(p)])
  <2>1. PICK l \in Searched : \E i \in 1..Len(levelTables[l]) :
          p = <<l + 1, i>> /\ TableAt(p) \in SeqRange(levelTables[l])
    BY <1>1, PlaceFacts
  <2>2. l \in Nat /\ p \in Nat \X Nat /\ p[1] = l + 1
    <3>1. l \in Nat /\ Len(levelTables[l]) \in Nat
      BY <1>1, PlaceFacts
    <3>2. PICK i \in 1..Len(levelTables[l]) : p = <<l + 1, i>>
      BY <2>1
    <3> QED BY <3>1, <3>2
  <2>3. p[1] > 0
    BY <2>2
  <2>4. \A m \in MemPlaces : m[1] = 0
    BY DEF MemPlaces
  <2>5. TableAt(p) \in ShownTables
    BY <2>1 DEF ShownTables, SearchedTables
  <2> QED BY <2>2, <2>3, <2>4, <2>5, ShownFacts DEF StoreInv, TableInv
<1>5. MemPlaces \subseteq Nat \X Nat /\ \A p \in MemPlaces : p[1] = 0
  BY DEF MemPlaces
<1>6. ScanShape(r)
  <2>1. DOMAIN r.streams \subseteq Nat \X Nat
    BY <1>3, <1>4, <1>5
  <2>2. DOMAIN r.out \subseteq r.lo..r.at /\ r.at <= r.hi /\ r.at \in Nat
    BY <1>1, <1>2, EmptyFacts, KeysAreNat
  <2> QED BY <1>1, <1>2, <1>3, <2>1, <2>2 DEF ScanShape
<1>7. /\ \A p \in MemPlaces : r.streams[p].f = q.streams[p].f
      /\ \A p \in tables : r.streams[p].f = sst[TableAt(p)]
  BY <1>3, <1>4 DEF Stream
<1>8. ASSUME NEW p \in DOMAIN r.streams PROVE StreamOK(r, r.streams[p])
  <2>1. CASE p \in MemPlaces
    <3>1. Holds(q.streams[p].f) /\ q.streams[p] = Stream(0, q.streams[p].f, r.lo)
      BY <2>1, <1>2 DEF MemScanOK
    <3>2. StreamOK(r, Stream(0, q.streams[p].f, r.lo))
      BY <3>1, <1>1, <1>2, StreamStarts
    <3> QED BY <3>1, <3>2, <2>1, <1>3
  <2>2. CASE p \in tables
    <3>1. StreamOK(r, Stream(TableAt(p), sst[TableAt(p)], r.lo))
      BY <2>2, <1>1, <1>2, <1>4, StreamStarts
    <3> QED BY <3>1, <2>2, <1>3, <1>4
  <2> QED BY <2>1, <2>2, <1>3
<1>9. ASSUME NEW k \in (r.lo..r.hi) \ demoted PROVE Right(r, k)
  <2> DEFINE P == {p \in PlacesFor(q.lo, q.hi) : k \in DOMAIN sst[TableAt(p)]}
  <2>1. k \in Keys /\ q.lo <= k /\ k <= q.hi /\ r.floor[k] = q.floor[k] /\ q.floor[k] \in Nat
    <3>1. NumKeys \in Nat
      BY ConfigAssumption
    <3>2. k \in q.lo..q.hi /\ q.lo \in 1..NumKeys /\ q.hi \in 1..NumKeys
      BY <1>1, <1>2 DEF Keys
    <3>3. k \in 1..NumKeys /\ q.lo <= k /\ k <= q.hi
      BY <3>1, <3>2
    <3> QED BY <3>3, <1>1, <1>2 DEF Keys
  <2>2. HasKey(r, k) = HasKey(q, k) \cup P
    BY <1>1, <1>3, <1>7 DEF HasKey
  <2>3. HasKey(q, k) \subseteq MemPlaces /\ P \subseteq tables
    BY <1>1 DEF HasKey
  <2>4. CASE HasKey(q, k) # {}
    <3>1. ASSUME NEW p \in HasKey(r, k), FirstHas(r, k, p)
          PROVE  r.floor[k] <= r.streams[p].f[k].seq /\ r.streams[p].f[k].seq <= r.top
      <4>1. PICK m \in HasKey(q, k) : TRUE
        BY <2>4
      <4>2. Precedes(p, m)
        BY <2>2, <3>1 DEF FirstHas
      <4>3. p \notin P
        <5> SUFFICES ASSUME p \in P PROVE FALSE
          OBVIOUS
        <5>1. p[1] > 0 /\ p[1] \in Nat /\ m[1] = 0
          <6>1. p \in tables /\ m \in MemPlaces
            BY <2>3, <4>1
          <6> QED BY <6>1, <1>4, <1>5
        <5> QED BY <5>1, <4>2 DEF Precedes
      <4>4. p \in HasKey(q, k) /\ FirstHas(q, k, p)
        BY <2>2, <3>1, <4>3 DEF FirstHas
      <4>5. p \in MemPlaces /\ k \in DOMAIN q.streams[p].f /\ r.streams[p].f = q.streams[p].f
        BY <4>4, <2>3, <1>7 DEF HasKey
      <4>6. q.floor[k] <= q.streams[p].f[k].seq
        BY <4>4, <2>1 DEF MemScanOK
      <4>7. q.streams[p].f[k] \in WritesOf(k)
        BY <4>5 DEF MemScanOK, Holds
      <4> QED BY <4>5, <4>6, <4>7, <2>1, <1>1, <1>2, WriteFacts
    <3>2. HasKey(r, k) # {}
      BY <2>2, <2>4
    <3> QED BY <3>1, <3>2 DEF Right
  <2>5. CASE HasKey(q, k) = {}
    <3>1. Shows(k, q.floor[k])
      BY <2>1, <2>5, <1>9 DEF MemScanOK
    <3>2. PICK e \in WritesOf(k) \cup {NoEntry} : q.floor[k] <= e.seq /\ Reflects(ShownTables, k, e)
      BY <3>1 DEF Shows
    <3>3. HasKey(r, k) = P
      BY <2>2, <2>5
    <3>4. /\ P = {} => Gone(e)
          /\ \A p \in P : (\A h \in P : Precedes(p, h)) => sst[TableAt(p)][k] = e
      <4> HIDE DEF P
      <4>1. P = {p \in PlacesFor(q.lo, q.hi) : k \in DOMAIN sst[TableAt(p)]}
        BY DEF P
      <4> QED BY <4>1, <1>1, <2>1, <3>2, FirstTableReflects
    <3>5. e.seq <= writes
      <4>1. NoEntry.seq = 0
        BY DEF NoEntry
      <4> QED BY <4>1, <1>1, WriteFacts
    <3>6. P = {} => AsOf(k, NoEntry, r.floor[k], r.top)
      BY <3>2, <3>4, <3>5, <2>1, <1>1, <1>2, AnswersAsOf
    <3>7. ASSUME NEW p \in HasKey(r, k), FirstHas(r, k, p)
          PROVE  r.floor[k] <= r.streams[p].f[k].seq /\ r.streams[p].f[k].seq <= r.top
      <4>1. p \in P /\ \A h \in P : Precedes(p, h)
        BY <3>3, <3>7 DEF FirstHas
      <4>2. sst[TableAt(p)][k] = e /\ p \in tables
        BY <4>1, <3>4
      <4> QED BY <4>2, <3>2, <3>5, <2>1, <1>2, <1>7
    <3> HIDE DEF P
    <3> QED BY <3>3, <3>6, <3>7 DEF Right
  <2> QED BY <2>4, <2>5
<1>10. (r.lo..r.at) \ r.lost = {}
  BY <1>1, <1>2, KeysAreNat
<1>11. r.top <= writes
  BY <1>1, <1>2
<1> QED BY <1>6, <1>8, <1>9, <1>10, <1>11 DEF ScanOK
-----------------------------------------------------------------------------
\* The merging iterator.

LEMMA StreamKeys ==
    ASSUME NEW r, ScanOK(r), NEW p \in DOMAIN r.streams
    PROVE  /\ DOMAIN r.streams[p].f \subseteq Keys
           /\ \A k \in DOMAIN r.streams[p].f : r.streams[p].f[k] \in WritesOf(k) /\ k \in Nat
           /\ r.streams[p].at \in Nat
           /\ r.streams[p].at # 0 => /\ r.streams[p].at \in DOMAIN r.streams[p].f
                                     /\ r.streams[p].at >= r.lo /\ r.streams[p].at >= r.at
<1>1. StreamOK(r, r.streams[p])
  BY DEF ScanOK
<1> QED BY <1>1, KeysAreNat DEF StreamOK, Holds

\* A key that has been neither passed nor lost waits in its streams.
LEMMA KeysWait ==
    ASSUME NEW r, ScanOK(r), NEW k, k \notin r.lost, k >= r.lo, k > r.at, NEW p \in HasKey(r, k)
    PROVE  p \in Valid(r) /\ r.streams[p].at <= k
<1>1. p \in DOMAIN r.streams /\ k \in DOMAIN r.streams[p].f
  BY DEF HasKey
<1>2. StreamOK(r, r.streams[p])
  BY <1>1 DEF ScanOK
<1>3. r.streams[p].at # 0 /\ r.streams[p].at <= k
  BY <1>1, <1>2 DEF StreamOK
<1> QED BY <1>1, <1>3 DEF Valid

\* A stream moves on to its next key, or its remaining ones are lost.
LEMMA MovedFacts ==
    ASSUME NEW s, s = [id |-> s.id, f |-> s.f, at |-> s.at], Holds(s.f), s.at \in DOMAIN s.f
    PROVE  /\ Moved(s) = [id |-> s.id, f |-> s.f, at |-> Moved(s).at] /\ Moved(s).f = s.f
           /\ Moved(s).at = 0 \/ (Moved(s).at \in DOMAIN s.f /\ Moved(s).at > s.at)
           /\ \A k \in DOMAIN s.f : k > s.at => \/ IsCut(s) /\ k \in Following(s)
                                                \/ Moved(s).at # 0 /\ Moved(s).at <= k
<1> DEFINE F == Following(s)
<1>1. F = {k \in DOMAIN s.f : k > s.at}
  BY DEF Following
<1>2. F \in SUBSET Keys /\ \A k \in F : k \in Nat /\ k # 0
  BY <1>1, KeysAreNat DEF Holds
<1> HIDE DEF F
<1>3. /\ F = {} => FirstIn(F) = 0
      /\ F # {} => FirstIn(F) \in F /\ \A k \in F : FirstIn(F) <= k
  BY <1>2, LeastFacts
<1>4. Moved(s) = [s EXCEPT !.at = IF IsCut(s) THEN 0 ELSE FirstIn(F)]
  BY DEF Moved, F
<1>5. /\ Moved(s) = [id |-> s.id, f |-> s.f, at |-> Moved(s).at] /\ Moved(s).f = s.f
      /\ Moved(s).at = IF IsCut(s) THEN 0 ELSE FirstIn(F)
  BY <1>4
<1> QED BY <1>1, <1>2, <1>3, <1>5 DEF F

\* Both depend on the contents of the streams, and not on where they stand.
LEMMA RightSame ==
    ASSUME NEW r, NEW q, NEW k, Right(r, k), HasKey(q, k) = HasKey(r, k),
           \A p : FirstHas(q, k, p) <=> FirstHas(r, k, p),
           \A p \in HasKey(r, k) : q.streams[p].f = r.streams[p].f,
           q.floor = r.floor, q.top = r.top
    PROVE  Right(q, k)
<1>1. HasKey(q, k) = {} => AsOf(k, NoEntry, q.floor[k], q.top)
  BY DEF Right
<1>2. ASSUME NEW p \in HasKey(q, k), FirstHas(q, k, p)
      PROVE  q.floor[k] <= q.streams[p].f[k].seq /\ q.streams[p].f[k].seq <= q.top
  <2>1. p \in HasKey(r, k) /\ FirstHas(r, k, p)
    BY <1>2
  <2>2. r.floor[k] <= r.streams[p].f[k].seq /\ r.streams[p].f[k].seq <= r.top
    BY <2>1 DEF Right
  <2> QED BY <2>1, <2>2
<1> QED BY <1>1, <1>2 DEF Right

LEMMA ToldSame ==
    ASSUME NEW r, NEW q, NEW k, Told(r, k), HasKey(q, k) = HasKey(r, k),
           \A p : FirstHas(q, k, p) <=> FirstHas(r, k, p),
           \A p \in HasKey(r, k) : q.streams[p].f = r.streams[p].f,
           k \in DOMAIN q.out <=> k \in DOMAIN r.out, k \in DOMAIN r.out => q.out[k] = r.out[k]
    PROVE  Told(q, k)
<1>1. HasKey(q, k) = {} => k \notin DOMAIN q.out
  BY DEF Told
<1>2. ASSUME NEW p \in HasKey(q, k), FirstHas(q, k, p)
      PROVE  LET e == q.streams[p].f[k]
             IN  IF IsTombstone(e) THEN k \notin DOMAIN q.out ELSE k \in DOMAIN q.out /\ q.out[k] = e
  <2>1. p \in HasKey(r, k) /\ FirstHas(r, k, p)
    BY <1>2
  <2> DEFINE e == r.streams[p].f[k]
  <2>2. IF IsTombstone(e) THEN k \notin DOMAIN r.out ELSE k \in DOMAIN r.out /\ r.out[k] = e
    BY <2>1 DEF Told
  <2>3. q.streams[p].f[k] = e
    BY <2>1
  <2> HIDE DEF e
  <2> QED BY <2>2, <2>3
<1> QED BY <1>1, <1>2 DEF Told

\* The scan r after its stream i, standing as s at the entry e, has moved on (ScanStep).
Stepped(r, i, s, e) ==
    [r EXCEPT !.streams[i] = Moved(s), !.at = s.at,
              !.out  = IF s.at # r.at /\ ~IsTombstone(e) THEN Put(@, e) ELSE @,
              !.lost = IF IsCut(s) THEN @ \cup Following(s) ELSE @]

\* That is, field by field.
StepsTo(q, r, i, s, e) ==
    /\ q.pc = r.pc /\ q.lo = r.lo /\ q.hi = r.hi /\ q.floor = r.floor /\ q.top = r.top /\ q.at = s.at
    /\ q.out = IF s.at # r.at /\ ~IsTombstone(e) THEN Put(r.out, e) ELSE r.out
    /\ q.lost = IF IsCut(s) THEN r.lost \cup Following(s) ELSE r.lost
    /\ q.streams = [r.streams EXCEPT ![i] = Moved(s)]
    /\ q = [pc |-> q.pc, lo |-> q.lo, hi |-> q.hi, streams |-> q.streams, floor |-> q.floor,
            top |-> q.top, at |-> q.at, out |-> q.out, lost |-> q.lost]

LEMMA SteppedIs ==
    ASSUME NEW r, ScanShape(r), NEW i, NEW s, NEW e, NEW q, q = Stepped(r, i, s, e)
    PROVE  StepsTo(q, r, i, s, e)
<1>1. r = [pc |-> r.pc, lo |-> r.lo, hi |-> r.hi, streams |-> r.streams, floor |-> r.floor,
           top |-> r.top, at |-> r.at, out |-> r.out, lost |-> r.lost]
  BY DEF ScanShape
<1>2. q = [pc |-> r.pc, lo |-> r.lo, hi |-> r.hi, streams |-> [r.streams EXCEPT ![i] = Moved(s)],
           floor |-> r.floor, top |-> r.top, at |-> s.at,
           out |-> IF s.at # r.at /\ ~IsTombstone(e) THEN Put(r.out, e) ELSE r.out,
           lost |-> IF IsCut(s) THEN r.lost \cup Following(s) ELSE r.lost]
  BY <1>1 DEF Stepped
<1> QED BY <1>2 DEF StepsTo

LEMMA ScanStepOK ==
    ASSUME NEW r, ScanOK(r), Valid(r) # {}, NEW i, i = Root(r), NEW s, s = r.streams[i], s.at <= r.hi,
           NEW e, e = s.f[s.at],
           NEW q, StepsTo(q, r, i, s, e)
    PROVE  ScanOK(q)
<1> DEFINE a == s.at
<1>1. /\ ScanShape(r) /\ r.top <= writes /\ r.lo \in Keys /\ r.lo \in Nat /\ r.at \in Nat
      /\ DOMAIN r.streams \subseteq Nat \X Nat
  BY KeysAreNat DEF ScanOK, ScanShape
<1>2. /\ i \in Valid(r)
      /\ \A p \in Valid(r) : a <= r.streams[p].at /\ (r.streams[p].at = a => Precedes(i, p))
  <2>1. \A p \in Valid(r) : r.streams[p].at \in Nat
    BY StreamKeys DEF Valid
  <2> QED BY <2>1, <1>1, RootFacts
<1>3. i \in DOMAIN r.streams /\ a # 0
  BY <1>2 DEF Valid
<1>4. /\ s = [id |-> s.id, f |-> s.f, at |-> s.at] /\ Holds(s.f) /\ a \in DOMAIN s.f
      /\ a \in Keys /\ a \in Nat /\ a >= r.lo /\ a >= r.at /\ e.key = a
  <2>1. StreamOK(r, s)
    BY <1>3 DEF ScanOK
  <2>2. s = [id |-> s.id, f |-> s.f, at |-> s.at] /\ Holds(s.f) /\ a \in DOMAIN s.f /\ a >= r.lo /\ a >= r.at
    BY <2>1, <1>3 DEF StreamOK
  <2>3. a \in Keys /\ e \in WritesOf(a)
    BY <2>2 DEF Holds
  <2> QED BY <2>2, <2>3, KeysAreNat DEF WritesOf
<1>5. /\ Moved(s) = [id |-> s.id, f |-> s.f, at |-> Moved(s).at] /\ Moved(s).f = s.f
      /\ Moved(s).at = 0 \/ (Moved(s).at \in DOMAIN s.f /\ Moved(s).at > s.at)
      /\ \A k \in DOMAIN s.f : k > s.at => \/ IsCut(s) /\ k \in Following(s)
                                           \/ Moved(s).at # 0 /\ Moved(s).at <= k
  BY <1>4, MovedFacts
<1>6. /\ q.pc = r.pc /\ q.lo = r.lo /\ q.hi = r.hi /\ q.floor = r.floor /\ q.top = r.top /\ q.at = a
      /\ q.out = IF a # r.at /\ ~IsTombstone(e) THEN Put(r.out, e) ELSE r.out
      /\ q.lost = IF IsCut(s) THEN r.lost \cup Following(s) ELSE r.lost
      /\ q.streams = [r.streams EXCEPT ![i] = Moved(s)]
      /\ q = [pc |-> q.pc, lo |-> q.lo, hi |-> q.hi, streams |-> q.streams, floor |-> q.floor,
              top |-> q.top, at |-> q.at, out |-> q.out, lost |-> q.lost]
  BY DEF StepsTo
<1>6a. /\ q.lo = r.lo /\ q.hi = r.hi /\ q.at = a /\ r.lost \subseteq q.lost
       /\ a \in Nat /\ r.lo \in Nat /\ r.at \in Nat /\ a >= r.lo /\ a >= r.at
  BY <1>1, <1>4, <1>6
<1>7. /\ q.streams = [p \in DOMAIN q.streams |-> q.streams[p]] /\ DOMAIN q.streams = DOMAIN r.streams
      /\ q.streams[i] = Moved(s)
      /\ \A p \in DOMAIN r.streams : p # i => q.streams[p] = r.streams[p]
      /\ \A p \in DOMAIN r.streams : q.streams[p].f = r.streams[p].f
  BY <1>1, <1>3, <1>5, <1>6 DEF ScanShape
<1>8. \A k : HasKey(q, k) = HasKey(r, k) /\ \A p : FirstHas(q, k, p) <=> FirstHas(r, k, p)
  BY <1>7 DEF HasKey, FirstHas
<1>9. /\ DOMAIN q.out \subseteq r.lo..a
      /\ \A k : k # a => (k \in DOMAIN q.out <=> k \in DOMAIN r.out)
      /\ \A k \in DOMAIN r.out : k # a => q.out[k] = r.out[k]
      /\ a # r.at /\ ~IsTombstone(e) => a \in DOMAIN q.out /\ q.out[a] = e
      /\ a = r.at \/ IsTombstone(e) => q.out = r.out
  <2>1. DOMAIN r.out \subseteq r.lo..a
    BY <1>1, <1>4 DEF ScanShape
  <2>2. /\ DOMAIN Put(r.out, e) = DOMAIN r.out \cup {a} /\ Put(r.out, e)[a] = e
        /\ \A k \in DOMAIN r.out : k # a => Put(r.out, e)[k] = r.out[k]
    BY <1>4 DEF Put
  <2>3. a \in r.lo..a
    BY <1>1, <1>4
  <2>4. CASE a # r.at /\ ~IsTombstone(e)
    <3>1. q.out = Put(r.out, e)
      BY <2>4, <1>6
    <3>2. DOMAIN q.out \subseteq r.lo..a
      BY <3>1, <2>1, <2>2, <2>3
    <3> HIDE DEF a
    <3>3. /\ \A k : k # a => (k \in DOMAIN q.out <=> k \in DOMAIN r.out)
          /\ \A k \in DOMAIN r.out : k # a => q.out[k] = r.out[k]
          /\ a \in DOMAIN q.out /\ q.out[a] = e
      BY <3>1, <2>2
    <3> QED BY <3>2, <3>3, <2>4
  <2>5. CASE ~(a # r.at /\ ~IsTombstone(e))
    <3>1. q.out = r.out
      BY <2>5, <1>6
    <3> QED BY <3>1, <2>1, <2>5
  <2> QED BY <2>4, <2>5
<1>10. ScanShape(q)
  BY <1>1, <1>4, <1>6, <1>7, <1>9 DEF ScanShape
<1>11. ASSUME NEW p \in DOMAIN q.streams PROVE StreamOK(q, q.streams[p])
  <2>1. CASE p = i
    <3>1. q.streams[p] = Moved(s) /\ \A k \in DOMAIN s.f : k \in Nat
      BY <2>1, <1>4, <1>7, KeysAreNat DEF Holds
    <3>2. Moved(s).at = 0 \/ (Moved(s).at \in DOMAIN s.f /\ Moved(s).at >= q.lo /\ Moved(s).at >= q.at)
      <4> SUFFICES ASSUME Moved(s).at # 0
                   PROVE  Moved(s).at \in DOMAIN s.f /\ Moved(s).at >= q.lo /\ Moved(s).at >= q.at
        OBVIOUS
      <4>1. PICK b : b = Moved(s).at
        OBVIOUS
      <4>2. b \in DOMAIN s.f /\ b > a
        BY <4>1, <1>5
      <4>3. b \in Nat
        BY <4>2, <3>1
      <4>4. b >= r.lo /\ b >= a
        BY <4>2, <4>3, <1>6a
      <4> QED BY <4>1, <4>2, <4>4, <1>6a
    <3>3. \A k \in DOMAIN s.f \ q.lost : k >= q.lo /\ k > q.at => Moved(s).at # 0 /\ Moved(s).at <= k
      BY <1>5, <1>6
    <3>4. Moved(s) = [id |-> Moved(s).id, f |-> Moved(s).f, at |-> Moved(s).at] /\ Holds(Moved(s).f)
      BY <1>4, <1>5
    <3> QED BY <3>1, <3>2, <3>3, <3>4, <1>5 DEF StreamOK
  <2>2. CASE p # i
    <3> DEFINE z == r.streams[p]
    <3>1. q.streams[p] = z /\ StreamOK(r, z) /\ p \in DOMAIN r.streams
      BY <2>2, <1>7 DEF ScanOK
    <3>2. z.at # 0 => z.at >= a
      BY <3>1, <1>2 DEF Valid
    <3>3. \A k \in DOMAIN z.f : k \in Nat
      BY <3>1, StreamKeys
    <3> HIDE DEF z
    <3>4. \A k \in DOMAIN z.f \ q.lost : k >= q.lo /\ k > q.at => z.at # 0 /\ z.at <= k
      <4> TAKE k \in DOMAIN z.f \ q.lost
      <4>1. k \in Nat /\ k \in DOMAIN z.f \ r.lost
        BY <3>3, <1>6a
      <4>2. k >= r.lo /\ k > r.at => z.at # 0 /\ z.at <= k
        BY <4>1, <3>1 DEF StreamOK
      <4> QED BY <4>1, <4>2, <1>6a
    <3> QED BY <3>1, <3>2, <3>4, <1>6 DEF StreamOK
  <2> QED BY <2>1, <2>2
<1>12. \A k \in (q.lo..q.hi) \ demoted : Right(q, k)
  <2>1. ASSUME NEW k \in (r.lo..r.hi) \ demoted PROVE Right(q, k)
    <3>1. Right(r, k)
      BY DEF ScanOK
    <3>2. \A p \in HasKey(r, k) : q.streams[p].f = r.streams[p].f
      BY <1>7 DEF HasKey
    <3>3. q.floor = r.floor /\ q.top = r.top
      BY <1>6
    <3> QED BY <3>1, <3>2, <3>3, <1>8, RightSame
  <2> QED BY <2>1, <1>6
<1>13. ASSUME NEW k \in (q.lo..q.at) \ q.lost PROVE Told(q, k)
  <2>1. k \in r.lo..a /\ k \notin r.lost /\ k \in Nat /\ k >= r.lo /\ k <= a
    <3>1. k \in r.lo..a /\ k \notin r.lost
      BY <1>6a
    <3> QED BY <3>1, <1>6a
  <2>2. \A p \in HasKey(r, k) : q.streams[p].f = r.streams[p].f
    BY <1>7 DEF HasKey
  <2>3. CASE k # a /\ k <= r.at
    <3>1. Told(r, k)
      BY <2>1, <2>3, <1>1 DEF ScanOK
    <3>2. /\ k \in DOMAIN q.out <=> k \in DOMAIN r.out
          /\ k \in DOMAIN r.out => q.out[k] = r.out[k]
      BY <2>3, <1>9
    <3> QED BY <3>1, <3>2, <2>2, <1>8, ToldSame
  <2>4. CASE k # a /\ k > r.at
    <3>1. HasKey(r, k) = {}
      <4> SUFFICES ASSUME NEW p \in HasKey(r, k) PROVE FALSE
        OBVIOUS
      <4>1. p \in Valid(r) /\ r.streams[p].at <= k
        BY <2>1, <2>4, KeysWait
      <4>2. r.streams[p].at \in Nat /\ a <= r.streams[p].at
        BY <4>1, <1>2, StreamKeys DEF Valid
      <4> QED BY <4>1, <4>2, <2>1, <2>4, <1>4
    <3>2. k \notin DOMAIN r.out
      BY <2>1, <2>4, <1>1 DEF ScanShape
    <3>3. k \notin DOMAIN q.out
      BY <3>2, <2>4, <1>9
    <3> QED BY <3>1, <3>3, <1>8 DEF Told
  <2>5. CASE k = a /\ a = r.at
    <3>1. Told(r, k)
      BY <2>1, <2>5, <1>1 DEF ScanOK
    <3>2. q.out = r.out
      BY <2>5, <1>9
    <3> QED BY <3>1, <3>2, <2>2, <1>8, ToldSame
  <2>6. CASE k = a /\ a # r.at
    <3>1. ASSUME NEW p \in HasKey(r, k), FirstHas(r, k, p) PROVE p = i
      <4>1. p \in Valid(r) /\ r.streams[p].at <= k
        BY <2>1, <2>6, <1>1, <1>4, KeysWait
      <4>2. r.streams[p].at \in Nat /\ a <= r.streams[p].at
        BY <4>1, <1>2, StreamKeys DEF Valid
      <4>3. Precedes(i, p)
        BY <4>1, <4>2, <2>6, <1>2, <1>4
      <4>4. i \in HasKey(r, k)
        BY <2>6, <1>3, <1>4 DEF HasKey
      <4>5. Precedes(p, i)
        BY <4>4, <3>1 DEF FirstHas
      <4>6. p \in Nat \X Nat /\ i \in Nat \X Nat
        BY <4>4, <1>1 DEF HasKey
      <4> QED BY <4>3, <4>5, <4>6, OnlyOneFirst
    <3>2. i \in HasKey(r, k)
      BY <2>6, <1>3, <1>4 DEF HasKey
    <3>3. k \notin DOMAIN r.out
      BY <2>1, <2>6, <1>1, <1>4 DEF ScanShape
    <3>4. /\ IsTombstone(e) => k \notin DOMAIN q.out
          /\ ~IsTombstone(e) => k \in DOMAIN q.out /\ q.out[k] = e
      BY <3>3, <2>6, <1>9
    <3>5. q.streams[i].f[k] = e
      BY <2>6, <1>5, <1>7
    <3> QED BY <3>1, <3>2, <3>4, <3>5, <1>8 DEF Told
  <2> QED BY <2>1, <2>3, <2>4, <2>5, <2>6, <1>1
<1>14. q.top <= writes
  BY <1>1, <1>6
<1> QED BY <1>10, <1>11, <1>12, <1>13, <1>14 DEF ScanOK

\* What has been answered is right.
LEMMA ScanIsFresh ==
    ASSUME StoreInv, reader.pc = "scanning", ScanOK(reader)
    PROVE  ScansAreFresh
<1> SUFFICES ASSUME NEW k \in Passed \ (reader.lost \cup demoted)
             PROVE  AsOf(k, IF k \in DOMAIN reader.out THEN reader.out[k] ELSE NoEntry,
                         reader.floor[k], reader.top)
  BY DEF ScansAreFresh
<1> DEFINE r == reader
<1>1. /\ ScanShape(r) /\ r.lo \in Nat /\ r.hi \in Nat /\ r.at \in Nat /\ r.top \in Nat
      /\ HistInv /\ NumKeys \in Nat /\ r.lo \in 1..NumKeys /\ r.hi \in 1..NumKeys
  BY ConfigAssumption, KeysAreNat DEF ScanOK, ScanShape, StoreInv, Keys
<1>2. k \in r.lo..r.hi /\ k \in Keys /\ k \in Nat /\ k >= r.lo /\ k \notin r.lost /\ r.floor[k] \in Nat
  <2>1. k \in r.lo..r.hi
    BY DEF Passed
  <2>2. k \in Keys /\ k \in Nat /\ k >= r.lo
    BY <2>1, <1>1 DEF Keys
  <2> QED BY <2>1, <2>2, <1>1 DEF ScanShape
<1>3. Right(r, k)
  BY <1>2 DEF ScanOK
<1>4. CASE k <= r.at
  <2>1. Told(r, k)
    BY <1>1, <1>2, <1>4 DEF ScanOK
  <2>2. CASE HasKey(r, k) = {}
    BY <2>1, <2>2, <1>3 DEF Told, Right
  <2>3. CASE HasKey(r, k) # {}
    <3>1. PICK p \in HasKey(r, k) : FirstHas(r, k, p)
      BY <2>3, <1>1, FirstExists DEF ScanShape
    <3> DEFINE e == r.streams[p].f[k]
    <3>2. /\ r.floor[k] <= e.seq /\ e.seq <= r.top
          /\ IF IsTombstone(e) THEN k \notin DOMAIN r.out ELSE k \in DOMAIN r.out /\ r.out[k] = e
      BY <3>1, <2>1, <1>3 DEF Told, Right
    <3>3. e \in WritesOf(k)
      BY <3>1, StreamKeys DEF HasKey
    <3> HIDE DEF e
    <3>4. AsOf(k, e, r.floor[k], r.top) /\ (Gone(e) => AsOf(k, NoEntry, r.floor[k], r.top))
      BY <3>2, <3>3, <1>1, <1>2, AnswersAsOf
    <3> QED BY <3>2, <3>4 DEF Gone
  <2> QED BY <2>2, <2>3
<1>5. CASE k > r.at
  <2>1. AtEnd(r)
    BY <1>1, <1>2, <1>5 DEF Passed
  <2>2. HasKey(r, k) = {}
    <3> SUFFICES ASSUME NEW p \in HasKey(r, k) PROVE FALSE
      OBVIOUS
    <3>1. p \in Valid(r) /\ r.streams[p].at <= k
      BY <1>2, <1>5, KeysWait
    <3>2. r.streams[p].at > r.hi /\ r.streams[p].at \in Nat
      BY <3>1, <2>1, StreamKeys DEF AtEnd, Valid
    <3> QED BY <3>1, <3>2, <1>1, <1>2
  <2>3. k \notin DOMAIN r.out
    BY <1>1, <1>2, <1>5 DEF ScanShape
  <2> QED BY <2>2, <2>3, <1>3 DEF Right
<1> QED BY <1>1, <1>2, <1>4, <1>5
-----------------------------------------------------------------------------
\* What a step leaves as it is.

\* A reader goes on being right while there are more writes, and more keys demoted, and
\* the tables show no less.
LEMMA OKStays ==
    ASSUME HistInv, hist \subseteq hist', writes' \in Nat, writes <= writes', demoted \subseteq demoted',
           \A k \in Keys : \A n \in Nat : k \notin demoted' /\ Shows(k, n) => Shows(k, n)'
    PROVE  /\ \A k, e : \A lo, hi \in Nat : AsOf(k, e, lo, hi) => AsOf(k, e, lo, hi)'
           /\ \A k, e, lo : AsOf(k, e, lo, writes) => AsOf(k, e, lo, writes)'
           /\ \A r : GetOK(r) => GetOK(r)'
           /\ \A r : MemScanOK(r) => MemScanOK(r)'
           /\ \A r : ScanOK(r) => ScanOK(r)'
<1>1. writes \in Nat /\ \A r \in hist : r.seq \in Nat
  BY FS_CardinalityType DEF HistInv, writes
<1>2. \A k : WritesOf(k) \subseteq WritesOf(k)'
  BY DEF WritesOf
<1>3. \A f : Holds(f) => Holds(f)'
  BY <1>2 DEF Holds
<1>4. ASSUME NEW k, NEW e, NEW lo, NEW hi \in Nat, NEW top \in Nat, hi <= top, AsOf(k, e, lo, hi)
      PROVE  AsOf(k, e, lo, top)'
  <2> DEFINE B == {r \in hist : r.key = k /\ lo <= r.seq /\ r.seq <= hi}
             C == {r \in hist' : r.key = k /\ lo <= r.seq /\ r.seq <= top}
  <2>1. B \subseteq C
    <3>1. \A r \in B : r \in hist' /\ r.key = k /\ lo <= r.seq /\ r.seq <= top
      BY <1>1, <1>4
    <3> QED BY <3>1
  <2>2. e \in B \/ (e = NoEntry /\ (lo = 0 \/ \E r \in B : IsTombstone(r)))
    BY <1>4 DEF AsOf
  <2> HIDE DEF B
  <2>3. e \in C \/ (e = NoEntry /\ (lo = 0 \/ \E r \in C : IsTombstone(r)))
    BY <2>1, <2>2
  <2> QED BY <2>3 DEF AsOf
<1>5. \A k, e : \A lo, hi \in Nat : AsOf(k, e, lo, hi) => AsOf(k, e, lo, hi)'
  BY <1>4
<1>6. \A k, e, lo : AsOf(k, e, lo, writes) => AsOf(k, e, lo, writes)'
  <2> SUFFICES ASSUME NEW k, NEW e, NEW lo, AsOf(k, e, lo, writes) PROVE AsOf(k, e, lo, writes)'
    OBVIOUS
  <2>1. \A top \in Nat : top = writes' => AsOf(k, e, lo, top)'
    BY <1>1, <1>4
  <2> QED BY <2>1 DEF AsOf
<1>7. ASSUME NEW r, GetOK(r) PROVE GetOK(r)'
  BY <1>7 DEF GetOK
<1>8. ASSUME NEW r, MemScanOK(r) PROVE MemScanOK(r)'
  <2>1. \A p \in MemPlaces : Holds(r.streams[p].f)'
    BY <1>3, <1>8 DEF MemScanOK
  <2>2. ASSUME NEW k \in Keys, HasKey(r, k) = {}, k \notin demoted' PROVE Shows(k, r.floor[k])'
    <3>1. r.floor[k] \in Nat /\ Shows(k, r.floor[k])
      BY <1>8, <2>2 DEF MemScanOK
    <3> QED BY <3>1, <2>2
  <2> QED BY <1>8, <2>1, <2>2 DEF MemScanOK
<1>9. ASSUME NEW r, ScanOK(r) PROVE ScanOK(r)'
  <2>1. r.top <= writes' /\ ScanShape(r)
    BY <1>1, <1>9 DEF ScanOK, ScanShape
  <2>2. \A p \in DOMAIN r.streams : StreamOK(r, r.streams[p])'
    BY <1>3, <1>9 DEF ScanOK, StreamOK
  <2>3. ASSUME NEW k \in (r.lo..r.hi) \ demoted' PROVE Right(r, k)'
    <3>1. k \in Keys
      BY <2>1, ConfigAssumption DEF ScanShape, Keys
    <3>2. Right(r, k) /\ r.floor[k] \in Nat /\ r.top \in Nat
      BY <3>1, <1>9, <2>1, <2>3 DEF ScanOK, ScanShape
    <3>3. AsOf(k, NoEntry, r.floor[k], r.top) => AsOf(k, NoEntry, r.floor[k], r.top)'
      BY <3>2, <1>5
    <3> QED BY <3>2, <3>3 DEF Right
  <2> QED BY <1>9, <2>1, <2>2, <2>3 DEF ScanOK
<1> QED BY <1>5, <1>6, <1>7, <1>8, <1>9

StepOK == /\ StoreInv'
          /\ \A k \in Keys : \A n \in Nat : k \notin demoted' /\ Shows(k, n) => Shows(k, n)'

\* A step of the reader leaves the store as it is.
LEMMA StoreStays ==
    ASSUME StoreInv, UNCHANGED <<levelVars, memVars, flushing, hist, demoted>>
    PROVE  StepOK
<1>1. /\ UNCHANGED <<sst, levels, nextID, open, readers, levelTables, stage, task, outputs, latest, unread>>
      /\ UNCHANGED <<activeMem, immMem, flushing, hist, demoted>>
  BY DEF levelVars, memVars, bounds
<1>2. LInv'
  BY LevelsStutter DEF StoreInv
<1>3. HistInv' /\ MemInv' /\ TableInv' /\ NewestInv'
  <2>1. HistInv'
    BY <1>1 DEF StoreInv, HistInv, writes
  <2>2. MemInv'
    BY <1>1 DEF StoreInv, MemInv, Holds, WritesOf
  <2>3. TableInv'
    BY <1>1 DEF StoreInv, TableInv, Holds, WritesOf
  <2>4. NewestInv'
    BY <1>1, NewestSame DEF StoreInv, NewestInv
  <2> QED BY <2>1, <2>2, <2>3, <2>4
<1>4. SearchInv'
  BY <1>1 DEF StoreInv, SearchInv, Tidy, LaterIsNewer, Apart, MinKey, MaxKey
<1>5. /\ ShownTables' = ShownTables /\ ManifestTables' = ManifestTables /\ Demoting' = Demoting
      /\ \A k : WritesOf(k)' = WritesOf(k)
  BY <1>1 DEF ShownTables, ManifestTables, SearchedTables, SearchedOf, SeqRange, Demoting, WritesOf
<1>6. ShownInv'
  BY <1>1, <1>5 DEF StoreInv, ShownInv, Reflects
<1>7. \A k \in Keys : \A n \in Nat : Shows(k, n) => Shows(k, n)'
  BY <1>1, <1>5 DEF Shows, Reflects
<1> QED BY <1>1, <1>2, <1>3, <1>4, <1>6, <1>7 DEF StepOK, StoreInv
-----------------------------------------------------------------------------
\* Writing.

\* The write is the newest of its key, and the other keys have what they had.
LEMMA NewWrite ==
    ASSUME HistInv, NEW e, e.key \in Keys, e.seq = writes + 1, hist' = hist \cup {e}
    PROVE  /\ HistInv' /\ hist \subseteq hist' /\ writes' = writes + 1 /\ writes' \in Nat
           /\ \A k : WritesOf(k)' = IF k = e.key THEN WritesOf(k) \cup {e} ELSE WritesOf(k)
           /\ \A k : Newest(k)' = IF k = e.key THEN e ELSE Newest(k)
<1>1. writes \in Nat /\ IsFiniteSet(hist) /\ \A r \in hist : r.seq \in Nat /\ r.seq <= writes
  BY WriteFacts DEF HistInv
<1>2. e \notin hist
  BY <1>1
<1>3. IsFiniteSet(hist') /\ writes' = writes + 1
  BY <1>1, <1>2, FS_AddElement DEF writes
<1>4. HistInv'
  <2>1. \A r \in hist' : r.key \in Keys /\ r.seq \in 1..(writes + 1)
    BY <1>1 DEF HistInv
  <2>2. \A r, q \in hist' : r.key = q.key /\ r.seq = q.seq => r = q
    BY <1>1 DEF HistInv
  <2>3. writes' = writes + 1
    BY <1>3
  <2> QED BY <1>3, <2>1, <2>2, <2>3 DEF HistInv
<1>5. \A k : WritesOf(k)' = IF k = e.key THEN WritesOf(k) \cup {e} ELSE WritesOf(k)
  BY DEF WritesOf
<1>6. ASSUME NEW k PROVE Newest(k)' = IF k = e.key THEN e ELSE Newest(k)
  <2> DEFINE Last(W) == IF W = {} THEN NoEntry ELSE CHOOSE r \in W : \A q \in W : q.seq <= r.seq
  <2>1. Newest(k) = Last(WritesOf(k)) /\ Newest(k)' = Last(WritesOf(k)')
    BY DEF Newest, WritesOf
  <2>2. CASE k # e.key
    <3>1. WritesOf(k)' = WritesOf(k)
      BY <1>5, <2>2
    <3> HIDE DEF Last
    <3> QED BY <2>1, <2>2, <3>1
  <2>3. CASE k = e.key
    <3> DEFINE W == WritesOf(k) \cup {e}
               Best(r) == \A q \in W : q.seq <= r.seq
    <3>1. e \in W /\ Best(e)
      <4>1. \A q \in WritesOf(k) : q.seq <= writes /\ q.seq \in Nat
        BY <1>1 DEF WritesOf
      <4> QED BY <4>1, <1>1
    <3>2. ASSUME NEW r \in W, Best(r) PROVE r = e
      <4>1. e.seq <= r.seq
        BY <3>2
      <4>2. r # e => r.seq <= writes /\ r.seq \in Nat
        BY <1>1 DEF WritesOf
      <4> QED BY <4>1, <4>2, <1>1
    <3>3. WritesOf(k)' = W
      BY <1>5, <2>3
    <3>4. Last(W) = CHOOSE r \in W : Best(r)
      BY <3>1
    <3> HIDE DEF W, Best, Last
    <3>5. (CHOOSE r \in W : Best(r)) = e
      BY <3>1, <3>2
    <3> QED BY <2>1, <2>3, <3>3, <3>4, <3>5
  <2> QED BY <2>2, <2>3
<1> QED BY <1>1, <1>3, <1>4, <1>5, <1>6

LEMMA WriteStep ==
    ASSUME StoreInv, Write
    PROVE  StepOK /\ hist \subseteq hist' /\ writes' \in Nat /\ writes <= writes'
<1>1. PICK key \in Keys, op \in Ops, full \in BOOLEAN :
        LET e   == [key |-> key, seq |-> writes + 1, op |-> op]
            mem == Put(activeMem, e)
        IN  /\ full => immMem = Empty
            /\ activeMem' = IF full THEN Empty ELSE mem
            /\ immMem' = IF full THEN mem ELSE immMem
            /\ hist' = hist \cup {e}
            /\ UNCHANGED <<levelVars, flushing, reader, demoted>>
  BY DEF Write
<1>0. PICK e, mem : e = [key |-> key, seq |-> writes + 1, op |-> op] /\ mem = Put(activeMem, e)
  OBVIOUS
<1>2. /\ UNCHANGED <<sst, levels, nextID, open, readers, levelTables, stage, task, outputs, latest, unread>>
      /\ UNCHANGED <<flushing, demoted, levelVars>>
  BY <1>1 DEF levelVars, bounds
<1>3. e.key = key /\ e.seq = writes + 1
  BY <1>0
<1>4. /\ full => immMem = Empty
      /\ activeMem' = IF full THEN Empty ELSE mem
      /\ immMem' = IF full THEN mem ELSE immMem
      /\ hist' = hist \cup {e}
  BY <1>0, <1>1
<1>5. /\ mem = [k \in DOMAIN mem |-> mem[k]] /\ DOMAIN mem = DOMAIN activeMem \cup {key} /\ mem[key] = e
      /\ \A k \in DOMAIN activeMem : k # key => mem[k] = activeMem[k]
  BY <1>0, <1>3 DEF Put
<1>6. HistInv /\ MemInv /\ TableInv /\ NewestInv /\ writes \in Nat
  BY WriteFacts DEF StoreInv
<1>7. /\ HistInv' /\ hist \subseteq hist' /\ writes' = writes + 1 /\ writes' \in Nat
      /\ \A k : WritesOf(k)' = IF k = key THEN WritesOf(k) \cup {e} ELSE WritesOf(k)
      /\ \A k : Newest(k)' = IF k = key THEN e ELSE Newest(k)
  BY <1>3, <1>4, <1>6, NewWrite
<1>8. \A f : Holds(f) => Holds(f)'
  BY <1>7 DEF Holds
<1>9. \A k \in Keys : /\ latest[k].seq \in Nat /\ latest[k].seq < e.seq
                      /\ k \in DOMAIN immMem => immMem[k].seq \in Nat /\ immMem[k].seq < e.seq
  <2>1. \A k \in Keys : latest[k].seq \in Nat /\ latest[k].seq <= writes
    <3>1. NoEntry.seq = 0
      BY DEF NoEntry
    <3> QED BY <3>1, <1>6, WriteFacts DEF NewestInv
  <2>2. \A k \in DOMAIN immMem : immMem[k].seq \in Nat /\ immMem[k].seq <= writes
    BY <1>6, WriteFacts DEF MemInv, Holds
  <2> QED BY <2>1, <2>2, <1>3, <1>6
<1>10. Holds(mem)'
  <2>1. DOMAIN mem \subseteq Keys
    BY <1>5, <1>6 DEF MemInv, Holds
  <2>2. ASSUME NEW k \in DOMAIN mem PROVE mem[k] \in WritesOf(k)'
    BY <1>5, <1>6, <1>7 DEF MemInv, Holds
  <2> QED BY <2>1, <2>2 DEF Holds
<1>11. MemInv' /\ (full => ~flushing)
  <2>1. Empty = [k \in DOMAIN Empty |-> Empty[k]] /\ Holds(Empty)'
    BY DEF Empty, Holds
  <2>2. Holds(activeMem)' /\ Holds(immMem)'
    <3>1. Holds(mem)' /\ Holds(Empty)' /\ \A f : f \in {activeMem, immMem} => Holds(f)'
      BY <1>6, <1>8, <1>10, <2>1 DEF MemInv
    <3>2. activeMem' \in {activeMem, mem, Empty} /\ immMem' \in {immMem, mem}
      BY <1>4
    <3> QED BY <3>1, <3>2 DEF Holds
  <2>3. /\ activeMem' = [k \in DOMAIN activeMem' |-> activeMem'[k]]
        /\ immMem' = [k \in DOMAIN immMem' |-> immMem'[k]]
    <3>1. CASE full
      BY <3>1, <1>4, <1>5, <2>1
    <3>2. CASE ~full
      BY <3>2, <1>4, <1>5, <1>6 DEF MemInv
    <3> QED BY <3>1, <3>2
  <2> QED BY <2>2, <2>3, <1>2, <1>4, <1>6 DEF MemInv
<1>12. TableInv'
  BY <1>2, <1>6, <1>8 DEF TableInv, Holds
<1>13. NewestInv'
  <2>1. ASSUME NEW k \in Keys PROVE latest[k] = NoEntry \/ latest[k] \in WritesOf(k)'
    BY <1>6, <1>7 DEF NewestInv
  <2>2. CASE full
    <3>1. /\ DOMAIN activeMem' = {} /\ immMem' = mem /\ DOMAIN immMem = {} /\ flushing' = FALSE
      BY <2>2, <1>2, <1>4, <1>6, <1>11, EmptyFacts DEF MemInv
    <3>2. ASSUME NEW k \in Keys
          PROVE  /\ k \in DOMAIN mem => latest[k].seq < mem[k].seq /\ mem[k] = Newest(k)'
                 /\ k \notin DOMAIN mem => latest[k] = Newest(k)'
      <4>1. CASE k = key
        BY <4>1, <1>5, <1>7, <1>9
      <4>2. CASE k # key /\ k \in DOMAIN activeMem
        BY <4>2, <1>5, <1>6, <1>7 DEF NewestInv
      <4>3. CASE k # key /\ k \notin DOMAIN activeMem
        BY <4>3, <3>1, <1>5, <1>6, <1>7 DEF NewestInv
      <4> QED BY <4>1, <4>2, <4>3
    <3> QED BY <2>1, <3>1, <3>2, <1>2 DEF NewestInv
  <2>3. CASE ~full
    <3>1. activeMem' = mem /\ immMem' = immMem
      BY <2>3, <1>4
    <3>2. ASSUME NEW k \in Keys
          PROVE  /\ k \in DOMAIN mem => mem[k] = Newest(k)' /\ latest[k].seq < mem[k].seq
                 /\ k \in DOMAIN immMem => IF flushing THEN latest[k] = immMem[k] ELSE latest[k].seq < immMem[k].seq
                 /\ k \in DOMAIN immMem \cap DOMAIN mem => immMem[k].seq < mem[k].seq
                 /\ k \in DOMAIN immMem \ DOMAIN mem => immMem[k] = Newest(k)'
                 /\ k \notin DOMAIN mem \cup DOMAIN immMem => latest[k] = Newest(k)'
      <4>1. CASE k = key
        BY <4>1, <1>5, <1>6, <1>7, <1>9 DEF NewestInv
      <4>2. CASE k # key
        BY <4>2, <1>5, <1>6, <1>7 DEF NewestInv
      <4> QED BY <4>1, <4>2
    <3> QED BY <2>1, <3>1, <3>2, <1>2 DEF NewestInv
  <2> QED BY <2>2, <2>3
<1>14. SearchInv'
  BY <1>2 DEF StoreInv, SearchInv, Tidy, LaterIsNewer, Apart, MinKey, MaxKey
<1>15. ShownTables' = ShownTables /\ ManifestTables' = ManifestTables /\ Demoting' = Demoting
  BY <1>2 DEF ShownTables, ManifestTables, SearchedTables, SearchedOf, SeqRange, Demoting
<1>16. ShownInv'
  <2>1. \A k \in Keys : k \in DOMAIN immMem => k \in DOMAIN immMem'
    BY <1>4, EmptyFacts
  <2> QED BY <2>1, <1>2, <1>15 DEF StoreInv, ShownInv, Reflects
<1>17. \A k \in Keys : \A n \in Nat : Shows(k, n) => Shows(k, n)'
  <2>1. \A k : WritesOf(k) \subseteq WritesOf(k)'
    BY <1>7
  <2> QED BY <2>1, <1>2, <1>15 DEF Shows, Reflects
<1>18. LInv'
  BY <1>2, LevelsStutter DEF StoreInv
<1> QED BY <1>2, <1>6, <1>7, <1>11, <1>12, <1>13, <1>14, <1>16, <1>17, <1>18 DEF StepOK, StoreInv
-----------------------------------------------------------------------------
\* Flushing.

\* New files change nothing for the tables that there are.
LEMMA FilesStay ==
    ASSUME NEW T, \A t \in T : sst'[t] = sst[t], NEW k, NEW e
    PROVE  Reflects(T, k, e)' <=> Reflects(T, k, e)
BY DEF Reflects

LEMMA ShownStay ==
    ASSUME StoreInv, levelTables' = levelTables, nextID \in Nat, nextID' \in Nat, nextID <= nextID',
           \A t \in ShownTables : t \in DOMAIN sst' /\ sst'[t] = sst[t]
    PROVE  /\ ShownTables' = ShownTables /\ Tidy(levelTables)'
           /\ \A k \in Keys : LaterIsNewer(levelTables[0], k)'
           /\ \A k, e : Reflects(ShownTables, k, e)' <=> Reflects(ShownTables, k, e)
<1>1. ShownTables' = ShownTables
  BY DEF ShownTables, SearchedTables, SeqRange
<1>2. /\ Tidy(levelTables) /\ 0 \in Searched
      /\ \A l \in Searched : /\ SeqRange(levelTables[l]) \subseteq ShownTables
                             /\ \A i \in 1..Len(levelTables[l]) : levelTables[l][i] \in ShownTables
  BY ShownFacts, LevelTypes, SMTT(30) DEF ShownTables, SearchedTables, SeqRange
<1>3. Tidy(levelTables)'
  <2>1. ASSUME NEW l \in Searched
        PROVE  levelTables[l] \in Seq(1..(nextID' - 1)) /\ SeqRange(levelTables[l]) \subseteq DOMAIN sst'
    <3> DEFINE S == 1..(nextID - 1)
               R == 1..(nextID' - 1)
    <3>1. \A i \in S : i \in R
      <4>1. \A m, n \in Nat : m <= n => \A i \in 1..(m - 1) : i \in 1..(n - 1)
        OBVIOUS
      <4> QED BY <4>1
    <3>2. levelTables[l] \in Seq(S) /\ SeqRange(levelTables[l]) \subseteq ShownTables
      BY <1>2 DEF Tidy
    <3>3. levelTables[l] \in Seq(R)
      <4> HIDE DEF S, R
      <4>1. S \subseteq R
        BY <3>1
      <4> QED BY <4>1, <3>2, SeqGrows
    <3> QED BY <3>2, <3>3
  <2>2. ASSUME NEW l \in Searched \ {0}, NEW i \in 1..Len(levelTables[l]), NEW j \in 1..Len(levelTables[l]), i # j
        PROVE  Apart(levelTables[l][i], levelTables[l][j])'
    <3>1. Apart(levelTables[l][i], levelTables[l][j])
      BY <1>2, <2>2 DEF Tidy
    <3>2. sst'[levelTables[l][i]] = sst[levelTables[l][i]] /\ sst'[levelTables[l][j]] = sst[levelTables[l][j]]
      BY <1>2
    <3> QED BY <3>1, <3>2 DEF Apart, MinKey, MaxKey
  <2>3. \A l, m \in Searched : \A t \in SeqRange(levelTables[l]), u \in SeqRange(levelTables[m]) :
         \A k \in DOMAIN sst'[t] \cap DOMAIN sst'[u] : l < m => sst'[t][k].seq > sst'[u][k].seq
    <3>1. \A l \in Searched : \A t \in SeqRange(levelTables[l]) : sst'[t] = sst[t]
      BY <1>2
    <3> QED BY <3>1, <1>2 DEF Tidy
  <2> QED BY <2>1, <2>2, <2>3 DEF Tidy, Apart, MinKey, MaxKey
<1>4. ASSUME NEW k \in Keys PROVE LaterIsNewer(levelTables[0], k)'
  <2>1. LaterIsNewer(levelTables[0], k) /\ \A i \in 1..Len(levelTables[0]) : sst'[levelTables[0][i]] = sst[levelTables[0][i]]
    BY <1>2, ShownFacts
  <2> QED BY <2>1 DEF LaterIsNewer
<1>5. \A k, e : Reflects(ShownTables, k, e)' <=> Reflects(ShownTables, k, e)
  BY <1>1 DEF Reflects
<1> QED BY <1>1, <1>3, <1>4, <1>5

LEMMA ManifestFacts ==
    ASSUME StoreInv
    PROVE  /\ Tidy(SearchedOf(levels)) /\ ManifestTables \subseteq Tables /\ Tables \subseteq DOMAIN sst
           /\ ManifestTables = UNION {SeqRange(levels[l]) : l \in Searched}
           /\ SearchedOf(levels)[0] = levels[0] /\ 0 \in Searched /\ 0 \in AllLevels
           /\ SeqRange(levels[0]) \subseteq ManifestTables
           /\ \A i \in 1..Len(levels[0]) : levels[0][i] \in ManifestTables
           /\ nextID \in Nat /\ NoEntry.seq = 0
           /\ \A k \in Keys : latest[k].seq \in Nat
<1>1. LInv /\ ~unread
  BY DEF StoreInv
<1>2. Tidy(SearchedOf(levels)) /\ ManifestTables \subseteq Tables
  BY <1>1, ManifestTidy DEF ManifestTables
<1>3. ManifestTables = UNION {SeqRange(levels[l]) : l \in Searched}
  BY DEF ManifestTables, SearchedTables, SearchedOf
<1>4. 0 \in Searched /\ 0 \in AllLevels /\ nextID \in Nat /\ Tables \subseteq DOMAIN sst
  BY <1>1, LevelTypes DEF LInv, TypeOK, ManifestHasFiles
<1>5. SearchedOf(levels)[0] = levels[0] /\ NoEntry.seq = 0
  BY <1>4 DEF SearchedOf, NoEntry
<1>6. \A k \in Keys : latest[k].seq \in Nat
  BY <1>5, WriteFacts DEF StoreInv, NewestInv
<1> QED BY <1>2, <1>3, <1>4, <1>5, <1>6 DEF SeqRange

LEMMA FlushStartStep == ASSUME StoreInv, FlushStart PROVE StepOK
<1>1. /\ ~flushing /\ immMem # Empty /\ FlushTable(immMem) /\ flushing' = TRUE
      /\ UNCHANGED <<activeMem, immMem, hist, demoted>>
  BY DEF FlushStart, memVars
<1>2. /\ stage = "idle" /\ stage' = "flushed" /\ open
      /\ UNCHANGED <<open, readers, levelTables, task, unread>>
      /\ latest' = [k \in Keys |-> IF k \in DOMAIN immMem THEN immMem[k] ELSE latest[k]]
  BY <1>1 DEF FlushTable
<1>3. LInv /\ HistInv /\ MemInv /\ TableInv /\ NewestInv
  BY DEF StoreInv
<1>4. /\ DOMAIN immMem \in (SUBSET Keys) \ {{}}
      /\ \A k \in DOMAIN immMem : /\ immMem[k] \in WritesOf(k) /\ immMem[k].seq \in Nat \ {0}
                                  /\ latest[k].seq < immMem[k].seq
  <2>1. DOMAIN immMem \subseteq Keys /\ \A k \in DOMAIN immMem : immMem[k] \in WritesOf(k)
    BY <1>3 DEF MemInv, Holds
  <2>2. DOMAIN immMem # {}
    <3> SUFFICES ASSUME DOMAIN immMem = {} PROVE FALSE
      OBVIOUS
    <3>1. immMem = [k \in DOMAIN immMem |-> immMem[k]]
      BY <1>3 DEF MemInv
    <3> QED BY <3>1, <1>1 DEF Empty
  <2>3. \A k \in DOMAIN immMem : immMem[k].seq \in Nat \ {0}
    BY <2>1, <1>3, WriteFacts
  <2>4. \A k \in DOMAIN immMem : latest[k].seq < immMem[k].seq
    BY <2>1, <1>1, <1>3 DEF NewestInv
  <2> QED BY <2>1, <2>2, <2>3, <2>4
<1>5. \A k \in Keys : latest[k].seq \in Nat
  BY ManifestFacts
<1>6. \A t \in DOMAIN sst : \A k \in DOMAIN sst[t] :
        k \in Keys /\ sst[t][k].seq \in Nat /\ sst[t][k].seq <= latest[k].seq
  BY <1>3, ShownFacts DEF TableInv
<1>7. LInv'
  <2>1. \A t \in DOMAIN sst : \A k \in DOMAIN immMem \cap DOMAIN sst[t] : sst[t][k].seq < immMem[k].seq
    BY <1>4, <1>5, <1>6
  <2> QED BY <2>1, <1>1, <1>3, <1>4, FlushTableStep
<1>8. /\ nextID \in Nat /\ nextID \notin DOMAIN sst /\ nextID' = nextID + 1
      /\ DOMAIN sst' = DOMAIN sst \cup {nextID} /\ sst'[nextID] = immMem
      /\ \A t \in DOMAIN sst : sst'[t] = sst[t]
      /\ \A l \in AllLevels : SeqRange(levels'[l]) = SeqRange(levels[l]) \cup (IF l = 0 THEN {nextID} ELSE {})
      /\ \A l \in AllLevels : Edited(levels'[l], levels[l], {}, IF l = 0 THEN <<nextID>> ELSE <<>>)
  BY <1>1, <1>3, FlushTableFacts
<1>9. \A k : Newest(k)' = Newest(k) /\ WritesOf(k)' = WritesOf(k)
  BY <1>1, NewestSame
<1>10. HistInv' /\ MemInv' /\ \A f : Holds(f) => Holds(f)'
  BY <1>1, <1>3, <1>9 DEF HistInv, writes, MemInv, Holds
<1>11. \A k \in Keys : latest'[k].seq \in Nat /\ latest[k].seq <= latest'[k].seq
  BY <1>2, <1>4, <1>5
<1>12. TableInv'
  <2>1. ASSUME NEW t \in DOMAIN sst'
        PROVE  Holds(sst'[t]) /\ \A k \in DOMAIN sst'[t] : sst'[t][k].seq <= latest'[k].seq
    <3>1. CASE t \in DOMAIN sst
      BY <3>1, <1>3, <1>5, <1>6, <1>8, <1>11 DEF TableInv
    <3>2. CASE t = nextID
      BY <3>2, <1>2, <1>3, <1>4, <1>8 DEF MemInv
    <3> QED BY <3>1, <3>2, <1>8
  <2> QED BY <2>1, <1>9 DEF TableInv, Holds
<1>13. NewestInv'
  <2>1. ASSUME NEW k \in Keys
        PROVE  /\ latest'[k] = NoEntry \/ latest'[k] \in WritesOf(k)
               /\ k \in DOMAIN activeMem => activeMem[k] = Newest(k) /\ latest'[k].seq < activeMem[k].seq
               /\ k \in DOMAIN immMem => latest'[k] = immMem[k]
               /\ k \in DOMAIN immMem \cap DOMAIN activeMem => immMem[k].seq < activeMem[k].seq
               /\ k \in DOMAIN immMem \ DOMAIN activeMem => immMem[k] = Newest(k)
               /\ k \notin DOMAIN activeMem \cup DOMAIN immMem => latest'[k] = Newest(k)
    BY <1>2, <1>3, <1>4 DEF NewestInv
  <2> QED BY <2>1, <1>1, <1>9 DEF NewestInv
<1>14. /\ ShownTables' = ShownTables /\ Tidy(levelTables)'
       /\ \A k \in Keys : LaterIsNewer(levelTables[0], k)'
       /\ \A k, e : Reflects(ShownTables, k, e)' <=> Reflects(ShownTables, k, e)
  BY <1>2, <1>8, ShownFacts, ShownStay
<1>15. ASSUME NEW k \in Keys PROVE LaterIsNewer(levels[0], k)'
  <2> SUFFICES ASSUME NEW i \in 1..Len(levels'[0]), NEW j \in 1..Len(levels'[0]), i < j,
                      k \in DOMAIN sst'[levels'[0][i]], k \in DOMAIN sst'[levels'[0][j]]
               PROVE  \/ levels'[0][i] = levels'[0][j]
                      \/ sst'[levels'[0][i]][k].seq < sst'[levels'[0][j]][k].seq
    BY DEF LaterIsNewer
  <2> DEFINE t == levels'[0][i]
             u == levels'[0][j]
  <2>1. Edited(levels'[0], levels[0], {}, <<nextID>>) /\ SeqRange(<<nextID>>) = {nextID}
    BY <1>8, ManifestFacts DEF SeqRange
  <2>2. SeqRange(levels[0]) \subseteq DOMAIN sst /\ \A n \in 1..Len(levels[0]) : levels[0][n] \in DOMAIN sst
    BY ManifestFacts
  <2>3. \/ \E m, n \in 1..Len(levels[0]) : m < n /\ t = levels[0][m] /\ u = levels[0][n]
        \/ t \in SeqRange(levels[0]) /\ u = nextID
    BY <2>1 DEF Edited
  <2>4. CASE \E m, n \in 1..Len(levels[0]) : m < n /\ t = levels[0][m] /\ u = levels[0][n]
    <3>1. PICK m \in 1..Len(levels[0]), n \in 1..Len(levels[0]) : m < n /\ t = levels[0][m] /\ u = levels[0][n]
      BY <2>4
    <3>2. sst'[t] = sst[t] /\ sst'[u] = sst[u]
      BY <3>1, <2>2, <1>8
    <3>3. LaterIsNewer(levels[0], k)
      BY DEF StoreInv, SearchInv
    <3> QED BY <3>1, <3>2, <3>3 DEF LaterIsNewer
  <2>5. CASE t \in SeqRange(levels[0]) /\ u = nextID
    <3>1. sst'[t] = sst[t] /\ t \in DOMAIN sst /\ sst'[u] = immMem
      BY <2>2, <2>5, <1>8
    <3>2. sst[t][k].seq < immMem[k].seq
      BY <3>1, <1>4, <1>5, <1>6
    <3> QED BY <3>1, <3>2
  <2> QED BY <2>3, <2>4, <2>5
<1>16. SearchInv'
  BY <1>14, <1>15 DEF SearchInv
<1>17. ManifestTables' = ManifestTables \cup {nextID}
  <2>1. ManifestTables' = UNION {SeqRange(levels'[l]) : l \in Searched}
    BY DEF ManifestTables, SearchedTables, SearchedOf
  <2>2. \A l \in Searched : SeqRange(levels'[l]) = SeqRange(levels[l]) \cup (IF l = 0 THEN {nextID} ELSE {})
    BY <1>3, <1>8, LevelTypes DEF LInv
  <2>3. 0 \in Searched /\ ManifestTables = UNION {SeqRange(levels[l]) : l \in Searched}
    BY ManifestFacts
  <2>4. ASSUME NEW t \in ManifestTables' PROVE t \in ManifestTables \cup {nextID}
    <3>1. PICK l \in Searched : t \in SeqRange(levels'[l])
      BY <2>1, <2>4
    <3>2. t \in SeqRange(levels[l]) \/ t = nextID
      BY <3>1, <2>2
    <3> QED BY <3>2, <2>3
  <2>5. ASSUME NEW t \in ManifestTables PROVE t \in ManifestTables'
    <3>1. PICK l \in Searched : t \in SeqRange(levels[l])
      BY <2>3, <2>5
    <3>2. t \in SeqRange(levels'[l])
      BY <3>1, <2>2
    <3> QED BY <3>2, <2>1
  <2>6. nextID \in ManifestTables'
    <3>1. nextID \in SeqRange(levels'[0])
      BY <2>2, <2>3
    <3> QED BY <3>1, <2>1, <2>3
  <2> QED BY <2>4, <2>5, <2>6
<1>18. ASSUME NEW k \in Keys \ demoted PROVE Reflects(ManifestTables, k, latest[k])'
  <2>1. Reflects(ManifestTables, k, latest[k]) /\ ManifestTables \subseteq DOMAIN sst
    BY <1>2, ManifestFacts DEF StoreInv, ShownInv, Demoting
  <2>2. \A t \in ManifestTables : sst'[t] = sst[t]
    BY <2>1, <1>8
  <2>3. CASE k \in DOMAIN immMem
    <3>1. latest'[k] = immMem[k] /\ \A t \in ManifestTables : k \in DOMAIN sst[t] => sst[t][k].seq <= immMem[k].seq
      BY <2>1, <2>3, <1>2, <1>4, <1>5, <1>6
    <3> QED BY <3>1, <2>2, <2>3, <1>4, <1>8, <1>17 DEF Reflects
  <2>4. CASE k \notin DOMAIN immMem
    <3>1. latest'[k] = latest[k]
      BY <2>4, <1>2
    <3> QED BY <3>1, <2>1, <2>2, <2>4, <1>8, <1>17 DEF Reflects
  <2> QED BY <2>3, <2>4
<1>19. ShownInv'
  <2>1. Demoting' = {} /\ demoted' = demoted
    BY <1>1, <1>2 DEF Demoting
  <2>2. ASSUME NEW k \in Keys \ demoted, k \notin DOMAIN immMem PROVE Reflects(ShownTables, k, latest[k])'
    <3>1. Reflects(ShownTables, k, latest[k]) /\ latest'[k] = latest[k]
      BY <2>2, <1>2 DEF StoreInv, ShownInv
    <3>2. PICK e : e = latest[k]
      OBVIOUS
    <3>3. Reflects(ShownTables, k, e)'
      BY <3>1, <3>2, <1>14
    <3> QED BY <3>1, <3>2, <3>3 DEF Reflects
  <2> QED BY <2>1, <2>2, <1>1, <1>2, <1>18 DEF ShownInv
<1>20. ASSUME NEW k \in Keys, NEW n \in Nat, Shows(k, n) PROVE Shows(k, n)'
  <2>1. PICK e \in WritesOf(k) \cup {NoEntry} : n <= e.seq /\ Reflects(ShownTables, k, e)
    BY <1>20 DEF Shows
  <2>2. Reflects(ShownTables, k, e)'
    BY <2>1, <1>14
  <2>3. n <= latest'[k].seq
    BY <1>5, <1>11, <1>20 DEF Shows
  <2> QED BY <2>1, <2>2, <2>3, <1>9 DEF Shows
<1> QED BY <1>2, <1>7, <1>10, <1>12, <1>13, <1>16, <1>19, <1>20 DEF StepOK, StoreInv

\* Where nothing is written, and no table has an entry that none had before.
LEMMA MemStay ==
    ASSUME StoreInv, UNCHANGED <<memVars, flushing, hist, latest>>, NoNewEntries
    PROVE  /\ HistInv' /\ MemInv' /\ NewestInv' /\ TableInv'
           /\ \A k : WritesOf(k)' = WritesOf(k)
<1>1. UNCHANGED <<activeMem, immMem, flushing, hist, latest>> /\ HistInv /\ MemInv /\ NewestInv /\ TableInv
  BY DEF memVars, StoreInv
<1>2. \A k : Newest(k)' = Newest(k) /\ WritesOf(k)' = WritesOf(k)
  BY <1>1, NewestSame
<1>3. HistInv'
  BY <1>1 DEF HistInv, writes
<1>4. MemInv'
  BY <1>1, <1>2 DEF MemInv, Holds
<1>5. NewestInv'
  BY <1>1, <1>2 DEF NewestInv
<1>6. ASSUME NEW t \in DOMAIN sst', NEW k \in DOMAIN sst'[t]
      PROVE  k \in Keys /\ sst'[t][k] \in WritesOf(k) /\ sst'[t][k].seq <= latest[k].seq
  <2>1. PICK s \in DOMAIN sst : k \in DOMAIN sst[s] /\ sst'[t][k] = sst[s][k]
    BY <1>6 DEF NoNewEntries
  <2> QED BY <2>1, <1>1 DEF TableInv, Holds
<1>7. TableInv'
  BY <1>1, <1>2, <1>6 DEF TableInv, Holds
<1> QED BY <1>2, <1>3, <1>4, <1>5, <1>7

LEMMA LaterStays ==
    ASSUME NEW ts, NEW k, LaterIsNewer(ts, k), \A i \in 1..Len(ts) : sst'[ts[i]] = sst[ts[i]]
    PROVE  LaterIsNewer(ts, k)'
BY DEF LaterIsNewer

\* The tables show what the last flush wrote of a key.
LEMMA LatestShows ==
    ASSUME StoreInv, NEW k \in Keys, NEW n \in Nat, Shows(k, n),
           UNCHANGED <<hist, latest>>, Reflects(ShownTables, k, latest[k])'
    PROVE  Shows(k, n)'
<1>1. n <= latest[k].seq /\ latest[k] \in WritesOf(k) \cup {NoEntry}
  BY DEF Shows, StoreInv, NewestInv
<1>2. WritesOf(k)' = WritesOf(k)
  BY DEF WritesOf
<1> QED BY <1>1, <1>2 DEF Shows

\* A change of the levels that are searched to those of the manifest.
LEMMA LevelsShown ==
    ASSUME StoreInv, LInv', UNCHANGED <<sst, levels, nextID, open, unread, hist, latest, memVars, flushing>>,
           levelTables' = SearchedOf(levels), stage' \in {"idle", "installed"},
           demoted' = demoted \cup Demoting
    PROVE  StepOK
<1>1. HistInv' /\ MemInv' /\ NewestInv' /\ TableInv'
  BY MemStay, SameFiles
<1>2. /\ Tidy(SearchedOf(levels)) /\ SearchedOf(levels)[0] = levels[0]
      /\ \A k \in Keys : LaterIsNewer(levels[0], k)
  BY ManifestFacts DEF StoreInv, SearchInv
<1>3. SearchInv'
  <2>1. PICK lv : lv = SearchedOf(levels)
    OBVIOUS
  <2>2. Tidy(lv)'
    BY <2>1, <1>2 DEF Tidy, Apart, MinKey, MaxKey
  <2>3. \A k \in Keys : LaterIsNewer(lv[0], k)' /\ LaterIsNewer(levels[0], k)'
    BY <2>1, <1>2 DEF LaterIsNewer
  <2>4. levelTables' = lv
    BY <2>1
  <2> QED BY <2>2, <2>3, <2>4 DEF SearchInv, Tidy, LaterIsNewer
<1>4. ShownTables' = ManifestTables /\ ManifestTables' = ManifestTables /\ Demoting' = {}
  BY DEF ShownTables, ManifestTables, SearchedTables, SearchedOf, Demoting, SeqRange
<1>5. ASSUME NEW k \in Keys \ demoted'
      PROVE  Reflects(ManifestTables, k, latest[k])' /\ Reflects(ShownTables, k, latest[k])'
  <2>1. PICK e : e = latest[k]
    OBVIOUS
  <2>2. Reflects(ManifestTables, k, e)
    BY <2>1, <1>5 DEF StoreInv, ShownInv
  <2>3. Reflects(ManifestTables, k, e)' /\ Reflects(ShownTables, k, e)'
    BY <2>2, <1>4 DEF Reflects
  <2> QED BY <2>1, <2>3 DEF Reflects
<1>6. ShownInv'
  BY <1>4, <1>5 DEF ShownInv
<1>7. \A k \in Keys : \A n \in Nat : k \notin demoted' /\ Shows(k, n) => Shows(k, n)'
  BY <1>5, LatestShows
<1> QED BY <1>1, <1>3, <1>6, <1>7 DEF StepOK, StoreInv

LEMMA FlushShowStep == ASSUME StoreInv, FlushShow PROVE StepOK
<1>1. FlushInstall /\ UNCHANGED <<memVars, flushing, hist, demoted>>
  BY DEF FlushShow
<1>2. /\ stage = "flushed" /\ stage' = "idle" /\ levelTables' = SearchedOf(levels)
      /\ UNCHANGED <<sst, levels, nextID, open, unread, latest>>
  BY <1>1 DEF FlushInstall
<1>3. LInv'
  BY <1>1, FlushInstallStep DEF StoreInv
<1>4. demoted' = demoted \cup Demoting
  BY <1>1, <1>2 DEF Demoting
<1> QED BY <1>1, <1>2, <1>3, <1>4, LevelsShown

LEMMA InstallStep == ASSUME StoreInv, Install PROVE StepOK
<1>1. CompactInstall /\ UNCHANGED <<memVars, flushing, hist>>
  BY DEF Install
<1>2. /\ stage = "committed" /\ stage' = "installed" /\ levelTables' = SearchedOf(levels)
      /\ UNCHANGED <<sst, levels, nextID, open, unread, latest>>
  BY <1>1 DEF CompactInstall
<1>3. LInv'
  BY <1>1, CompactInstallStep DEF StoreInv
<1>4. demoted' = demoted \cup Demoting
  BY <1>2 DEF Install, Demoting
<1> QED BY <1>1, <1>2, <1>3, <1>4, LevelsShown

LEMMA FlushClearStep == ASSUME StoreInv, FlushClear PROVE StepOK
<1>1. /\ UNCHANGED <<sst, levels, nextID, open, readers, levelTables, stage, task, outputs, latest, unread>>
      /\ UNCHANGED <<levelVars, hist, demoted>>
      /\ flushing /\ stage = "idle" /\ flushing' = FALSE
      /\ \/ immMem' = Empty /\ activeMem' = activeMem
         \/ immMem' = activeMem /\ activeMem' = Empty
  BY DEF FlushClear, levelVars, bounds
<1>2. LInv' /\ HistInv /\ MemInv /\ NewestInv /\ TableInv
  BY <1>1, LevelsStutter DEF StoreInv
<1>3. \A k : Newest(k)' = Newest(k) /\ WritesOf(k)' = WritesOf(k)
  BY <1>1, NewestSame
<1>4. HistInv' /\ TableInv'
  BY <1>1, <1>2, <1>3 DEF HistInv, writes, TableInv, Holds
<1>5. Empty = [k \in DOMAIN Empty |-> Empty[k]] /\ DOMAIN Empty = {} /\ Holds(Empty)
  BY DEF Empty, Holds
<1>6. MemInv'
  BY <1>1, <1>2, <1>3, <1>5 DEF MemInv, Holds
<1>7. NewestInv'
  <2> SUFFICES ASSUME NEW k \in Keys
               PROVE  /\ latest[k] = NoEntry \/ latest[k] \in WritesOf(k)
                      /\ k \in DOMAIN activeMem' => activeMem'[k] = Newest(k) /\ latest[k].seq < activeMem'[k].seq
                      /\ k \in DOMAIN immMem' => latest[k].seq < immMem'[k].seq
                      /\ k \notin DOMAIN immMem' \/ k \notin DOMAIN activeMem'
                      /\ k \in DOMAIN immMem' \ DOMAIN activeMem' => immMem'[k] = Newest(k)
                      /\ k \notin DOMAIN activeMem' \cup DOMAIN immMem' => latest[k] = Newest(k)
    BY <1>1, <1>3 DEF NewestInv
  <2>1. CASE immMem' = Empty /\ activeMem' = activeMem
    <3>1. DOMAIN immMem' = {}
      BY <2>1, <1>5
    <3>2. k \notin DOMAIN activeMem => latest[k] = Newest(k)
      BY <1>1, <1>2 DEF NewestInv
    <3> QED BY <2>1, <3>1, <3>2, <1>2 DEF NewestInv
  <2>2. CASE immMem' = activeMem /\ activeMem' = Empty
    <3>1. DOMAIN activeMem' = {}
      BY <2>2, <1>5
    <3>2. k \notin DOMAIN activeMem => latest[k] = Newest(k)
      BY <1>1, <1>2 DEF NewestInv
    <3> QED BY <2>2, <3>1, <3>2, <1>2 DEF NewestInv
  <2> QED BY <2>1, <2>2, <1>1
<1>8. SearchInv'
  BY <1>1 DEF StoreInv, SearchInv, Tidy, LaterIsNewer, Apart, MinKey, MaxKey
<1>9. ShownTables' = ShownTables /\ ManifestTables' = ManifestTables /\ Demoting' = Demoting
  BY <1>1 DEF ShownTables, ManifestTables, SearchedTables, SearchedOf, SeqRange, Demoting
<1>10. ShownInv'
  BY <1>1, <1>9 DEF StoreInv, ShownInv, Reflects
<1>11. \A k \in Keys : \A n \in Nat : Shows(k, n) => Shows(k, n)'
  BY <1>1, <1>3, <1>9 DEF Shows, Reflects
<1> QED BY <1>1, <1>2, <1>4, <1>6, <1>7, <1>8, <1>10, <1>11 DEF StepOK, StoreInv
-----------------------------------------------------------------------------
\* Compacting.

\* A step that leaves the levels that are searched and their tables, and of the manifest
\* what it reflects.
LEMMA LevelsStay ==
    ASSUME StoreInv, LInv', NoNewEntries,
           UNCHANGED <<memVars, flushing, hist, demoted, latest, open, unread, levelTables>>,
           nextID' \in Nat, nextID <= nextID',
           \A t \in ShownTables : t \in DOMAIN sst' /\ sst'[t] = sst[t],
           stage' \notin {"flushed"}, stage # "flushed",
           stage' = "merged" => task'.from + 1 \in Searched,
           \A k \in Keys : LaterIsNewer(levels[0], k)',
           \A k \in Keys \ (demoted \cup Demoting') : Reflects(ManifestTables, k, latest[k])'
    PROVE  StepOK
<1>1. HistInv' /\ MemInv' /\ NewestInv' /\ TableInv' /\ \A k : WritesOf(k)' = WritesOf(k)
  BY MemStay
<1>2. nextID \in Nat
  BY ManifestFacts
<1>3. /\ ShownTables' = ShownTables /\ Tidy(levelTables)'
      /\ \A k \in Keys : LaterIsNewer(levelTables[0], k)'
      /\ \A k, e : Reflects(ShownTables, k, e)' <=> Reflects(ShownTables, k, e)
  BY <1>2, ShownStay
<1>4. SearchInv'
  BY <1>3 DEF SearchInv
<1>5. ASSUME NEW k \in Keys \ demoted PROVE Reflects(ShownTables, k, latest[k])'
  <2>1. PICK e : e = latest[k]
    OBVIOUS
  <2>2. Reflects(ShownTables, k, e)
    BY <2>1 DEF StoreInv, ShownInv
  <2>3. Reflects(ShownTables, k, e)'
    BY <2>2, <1>3
  <2> QED BY <2>1, <2>3 DEF Reflects
<1>6. ShownInv'
  BY <1>5 DEF ShownInv
<1>7. \A k \in Keys : \A n \in Nat : k \notin demoted' /\ Shows(k, n) => Shows(k, n)'
  BY <1>5, LatestShows
<1> QED BY <1>1, <1>4, <1>6, <1>7 DEF StepOK, StoreInv

LEMMA MergeStep == ASSUME LastLevelHoldsAll, StoreInv, Merge PROVE StepOK
<1>1. CompactMerge /\ UNCHANGED <<memVars, flushing, hist, demoted>>
  BY DEF Merge
<1>2. /\ stage = "idle" /\ stage' = "merged" /\ UNCHANGED <<levels, open, readers, levelTables, latest, unread>>
      /\ PickCompaction # NoTask /\ task' = PickCompaction
  BY <1>1 DEF CompactMerge
<1>3. /\ DOMAIN sst \subseteq DOMAIN sst' /\ \A t \in DOMAIN sst : sst'[t] = sst[t]
      /\ nextID' \in Nat /\ nextID <= nextID' /\ NoNewEntries
  BY <1>1, MergeFiles DEF StoreInv
<1>4. LInv'
  BY <1>1, CompactMergeStep DEF StoreInv
<1>5. task'.from + 1 \in Searched
  BY <1>2, NotTheLast DEF StoreInv
<1>6. /\ ShownTables \subseteq DOMAIN sst /\ ManifestTables \subseteq DOMAIN sst
      /\ \A i \in 1..Len(levels[0]) : levels[0][i] \in DOMAIN sst
  BY ShownFacts, ManifestFacts
<1>7. ASSUME NEW k \in Keys PROVE LaterIsNewer(levels[0], k)'
  <2>1. PICK ts : ts = levels[0]
    OBVIOUS
  <2>2. LaterIsNewer(ts, k) /\ \A i \in 1..Len(ts) : sst'[ts[i]] = sst[ts[i]]
    BY <2>1, <1>3, <1>6 DEF StoreInv, SearchInv
  <2>3. LaterIsNewer(ts, k)' /\ levels'[0] = ts
    BY <2>1, <2>2, <1>2, LaterStays
  <2> QED BY <2>3 DEF LaterIsNewer
<1>8. ASSUME NEW k \in Keys \ (demoted \cup Demoting') PROVE Reflects(ManifestTables, k, latest[k])'
  <2>1. PICK e, T : e = latest[k] /\ T = ManifestTables
    OBVIOUS
  <2>2. Demoting = {} /\ ManifestTables' = T
    BY <2>1, <1>2 DEF Demoting, ManifestTables, SearchedTables, SearchedOf, SeqRange
  <2>3. Reflects(T, k, e) /\ \A t \in T : sst'[t] = sst[t]
    BY <2>1, <2>2, <1>3, <1>6 DEF StoreInv, ShownInv
  <2>4. Reflects(T, k, e)'
    BY <2>3, FilesStay
  <2> QED BY <2>1, <2>2, <2>4, <1>2 DEF Reflects
<1>9. \A t \in ShownTables : t \in DOMAIN sst' /\ sst'[t] = sst[t]
  BY <1>3, <1>6
<1> QED BY <1>1, <1>2, <1>3, <1>4, <1>5, <1>7, <1>8, <1>9, LevelsStay

LEMMA CommitStep == ASSUME StoreInv, Commit PROVE StepOK
<1>1. CompactCommit /\ UNCHANGED <<memVars, flushing, hist, demoted>>
  BY DEF Commit
<1>2. /\ stage = "merged" /\ stage' = "committed"
      /\ UNCHANGED <<sst, nextID, open, readers, levelTables, task, outputs, latest, unread>>
  BY <1>1 DEF CompactCommit
<1>3. LInv /\ ~unread /\ task.from + 1 \in Searched
  BY <1>2 DEF StoreInv
<1>4. LInv'
  BY <1>1, <1>3, CompactCommitStep
<1>5. nextID \in Nat /\ ManifestTables \subseteq DOMAIN sst /\ 0 \in AllLevels /\ 0 \in Searched
  BY ManifestFacts
<1>6. task.from + 1 # 0 /\ InputFacts(task) /\ SearchedOf(levels)[0] = levels[0]
      /\ SeqRange(levels[0]) \subseteq 1..(nextID - 1) /\ nextID - 1 \in Int
  <2>1. TypeOK
    BY <1>3 DEF LInv
  <2> QED BY <1>2, <1>3, <1>5, <2>1, LevelTypes, ManifestFacts, CommitTables, <1>1, SMTT(30) DEF LInv
<1>7. ASSUME NEW k \in Keys PROVE LaterIsNewer(levels[0], k)'
  <2>1. Edited(levels'[0], levels[0], Inputs, <<>>)
    BY <1>1, <1>3, <1>5, <1>6, CommitTables
  <2>2. LaterIsNewer(levels[0], k)
    BY DEF StoreInv, SearchInv
  <2>3. SeqRange(<<>>) = {} /\ Len(<<>>) = 0
    BY DEF SeqRange
  <2>4. \A m, n \in 1..Len(levels'[0]) : m < n =>
          \E i, j \in 1..Len(levels[0]) : i < j /\ levels'[0][m] = levels[0][i] /\ levels'[0][n] = levels[0][j]
    BY <2>1, <2>3, SMTT(30) DEF Edited
  <2>5. PICK ts, us : ts = levels[0] /\ us = levels'[0]
    OBVIOUS
  <2>6. ASSUME NEW m \in 1..Len(us), NEW n \in 1..Len(us), m < n,
               k \in DOMAIN sst[us[m]], k \in DOMAIN sst[us[n]]
        PROVE  us[m] = us[n] \/ sst[us[m]][k].seq < sst[us[n]][k].seq
    <3>1. PICK i \in 1..Len(ts) : \E j \in 1..Len(ts) : i < j /\ us[m] = ts[i] /\ us[n] = ts[j]
      BY <2>4, <2>5, <2>6
    <3>2. PICK j \in 1..Len(ts) : i < j /\ us[m] = ts[i] /\ us[n] = ts[j]
      BY <3>1
    <3>3. LaterIsNewer(ts, k)
      BY <2>2, <2>5
    <3> QED BY <2>6, <3>2, <3>3 DEF LaterIsNewer
  <2>7. LaterIsNewer(us, k)'
    <3>1. sst' = sst
      BY <1>2
    <3>2. LaterIsNewer(us, k)
      BY <2>6 DEF LaterIsNewer
    <3> QED BY <3>1, <3>2 DEF LaterIsNewer
  <2> QED BY <2>5, <2>7 DEF LaterIsNewer
<1>8. ASSUME NEW k \in Keys \ (demoted \cup Demoting') PROVE Reflects(ManifestTables, k, latest[k])'
  <2>1. PICK e, T : e = latest[k] /\ T = ManifestTables
    OBVIOUS
  <2>2. PICK U : U = (T \ Inputs) \cup Outputs
    OBVIOUS
  <2>3. Reflects(T, k, e)
    BY <2>1, <1>2 DEF StoreInv, ShownInv, Demoting
  <2>4. ManifestTables' = U
    <3>1. ManifestTables' = SearchedTables(SearchedOf(levels'))
      BY DEF ManifestTables, SearchedTables, SearchedOf, SeqRange
    <3> QED BY <3>1, <2>1, <2>2, <1>1, <1>3, CommittedTables DEF ManifestTables
  <2>5. task.from = 0 => OneAtTop(SearchedOf(levels), k)
    <3> SUFFICES ASSUME task.from = 0 PROVE OneAtTop(SearchedOf(levels), k)
      OBVIOUS
    <3>1. PICK S, n : S = {t \in SeqRange(task.inFrom) : k \in DOMAIN sst[t]} /\ n = nextID - 1
      OBVIOUS
    <3>2. SeqRange(task.inFrom) = SeqRange(levels[0])
      BY <1>6 DEF InputFacts
    <3>3. S \in SUBSET (1..n) /\ n \in Int
      BY <3>1, <3>2, <1>6
    <3>4. ~(Cardinality(S) > 1)
      BY <3>1, <1>2, <1>8 DEF Demoting
    <3>5. \A t, u \in S : t = u
      BY <3>3, <3>4, AtMostOne
    <3> QED BY <3>1, <3>2, <3>5, <1>6 DEF OneAtTop
  <2>6. Reflects(U, k, e)
    BY <2>1, <2>2, <2>3, <2>5, <1>2, <1>3, MergeReflects DEF ManifestTables
  <2> QED BY <2>1, <2>4, <2>6, <1>2 DEF Reflects
<1>9. \A t \in ShownTables : t \in DOMAIN sst' /\ sst'[t] = sst[t]
  BY <1>2, ShownFacts
<1>10. NoNewEntries /\ nextID' \in Nat /\ nextID <= nextID'
  BY <1>2, <1>5, SameFiles
<1> QED BY <1>1, <1>2, <1>4, <1>7, <1>8, <1>9, <1>10, LevelsStay

LEMMA UnlinkStep == ASSUME StoreInv, Unlink PROVE StepOK
<1>1. CompactUnlink /\ UNCHANGED <<memVars, flushing, hist, demoted>>
  BY DEF Unlink
<1>2. /\ stage = "installed" /\ stage' = "idle"
      /\ UNCHANGED <<levels, nextID, open, readers, levelTables, latest, unread>>
      /\ sst' = [t \in DOMAIN sst \ Inputs |-> sst[t]]
  BY <1>1 DEF CompactUnlink, Inputs, InputsOf
<1>3. LInv' /\ LInv
  BY <1>1, CompactUnlinkStep DEF StoreInv
<1>4. Inputs \cap Tables = {} /\ levelTables = SearchedOf(levels)
  BY <1>2, <1>3 DEF LInv, StageFacts, ReaderFacts, StoreInv
<1>5. /\ ManifestTables \subseteq Tables /\ Tables \subseteq DOMAIN sst /\ nextID \in Nat
      /\ \A i \in 1..Len(levels[0]) : levels[0][i] \in ManifestTables
  BY ManifestFacts
<1>6. ShownTables = ManifestTables /\ \A t \in ManifestTables : t \in DOMAIN sst' /\ sst'[t] = sst[t]
  BY <1>2, <1>4, <1>5 DEF ShownTables, ManifestTables
<1>7. ASSUME NEW k \in Keys PROVE LaterIsNewer(levels[0], k)'
  <2>1. PICK ts : ts = levels[0]
    OBVIOUS
  <2>2. LaterIsNewer(ts, k) /\ \A i \in 1..Len(ts) : sst'[ts[i]] = sst[ts[i]]
    BY <2>1, <1>5, <1>6 DEF StoreInv, SearchInv
  <2>3. LaterIsNewer(ts, k)' /\ levels'[0] = ts
    BY <2>1, <2>2, <1>2, LaterStays
  <2> QED BY <2>3 DEF LaterIsNewer
<1>8. ASSUME NEW k \in Keys \ (demoted \cup Demoting') PROVE Reflects(ManifestTables, k, latest[k])'
  <2>1. PICK e, T : e = latest[k] /\ T = ManifestTables
    OBVIOUS
  <2>2. Demoting = {} /\ ManifestTables' = T
    BY <2>1, <1>2 DEF Demoting, ManifestTables, SearchedTables, SearchedOf, SeqRange
  <2>3. Reflects(T, k, e) /\ \A t \in T : sst'[t] = sst[t]
    BY <2>1, <2>2, <1>6 DEF StoreInv, ShownInv
  <2>4. Reflects(T, k, e)'
    BY <2>3, FilesStay
  <2> QED BY <2>1, <2>2, <2>4, <1>2 DEF Reflects
<1>9. NoNewEntries
  BY <1>2 DEF NoNewEntries
<1>10. nextID' \in Nat /\ nextID <= nextID'
  BY <1>2, <1>5
<1>11. \A t \in ShownTables : t \in DOMAIN sst' /\ sst'[t] = sst[t]
  BY <1>6
<1> HIDE DEF ManifestTables, ShownTables
<1> QED BY <1>1, <1>2, <1>3, <1>7, <1>8, <1>9, <1>10, <1>11, LevelsStay
-----------------------------------------------------------------------------
\* The invariant.

\* Any step, with what the reader is left with.
LEMMA ReaderMoves ==
    ASSUME HistInv, StepOK, hist \subseteq hist', writes' \in Nat, writes <= writes', demoted \subseteq demoted',
           NEW r, reader' = r,
           r.pc = "tables" => GetOK(r),
           r.pc = "memtables" => MemScanOK(r),
           r.pc \in {"opening", "scanning"} => ScanOK(r),
           r.pc = "got" /\ r.key \notin demoted => AsOf(r.key, r.got, r.floor, writes)
    PROVE  ReadInv'
<1>1. /\ \A k, e, lo : AsOf(k, e, lo, writes) => AsOf(k, e, lo, writes)'
      /\ GetOK(r) => GetOK(r)'
      /\ MemScanOK(r) => MemScanOK(r)'
      /\ ScanOK(r) => ScanOK(r)'
  <2>1. \A k \in Keys : \A n \in Nat : k \notin demoted' /\ Shows(k, n) => Shows(k, n)'
    BY DEF StepOK
  <2> QED BY <2>1, OKStays
<1>2. /\ r.pc = "tables" => GetOK(r)'
      /\ r.pc = "memtables" => MemScanOK(r)'
      /\ r.pc \in {"opening", "scanning"} => ScanOK(r)'
  BY <1>1
<1>3. ReaderInv'
  <2>1. reader'.pc = "tables" => GetOK(reader)'
    BY <1>2 DEF GetOK
  <2>2. reader'.pc = "memtables" => MemScanOK(reader)'
    BY <1>2 DEF MemScanOK, HasKey, FirstHas
  <2>3. reader'.pc \in {"opening", "scanning"} => ScanOK(reader)'
    BY <1>2 DEF ScanOK, ScanShape, StreamOK, Right, Told, HasKey, FirstHas
  <2> QED BY <2>1, <2>2, <2>3 DEF ReaderInv
<1>4. GetsAreFresh'
  <2> SUFFICES ASSUME r.pc = "got", r.key \notin demoted' PROVE AsOf(reader.key, reader.got, reader.floor, writes)'
    BY DEF GetsAreFresh
  <2>1. AsOf(r.key, r.got, r.floor, writes)'
    BY <1>1
  <2> QED BY <2>1 DEF AsOf
<1> QED BY <1>3, <1>4 DEF ReadInv, StepOK

LEMMA StoreStepKeepsReadInv ==
    ASSUME LastLevelHoldsAll, ReadInv,
           Write \/ FlushStart \/ FlushShow \/ FlushClear \/ Merge \/ Commit \/ Install \/ Unlink
    PROVE  ReadInv'
<1>1. StoreInv /\ ReaderInv /\ GetsAreFresh /\ HistInv /\ writes \in Nat
  BY WriteFacts DEF ReadInv, StoreInv
<1>2. StepOK
  BY <1>1, WriteStep, FlushStartStep, FlushShowStep, FlushClearStep, MergeStep, CommitStep, InstallStep, UnlinkStep
<1>3. hist \subseteq hist' /\ writes' \in Nat /\ writes <= writes'
  <2>1. CASE Write
    BY <2>1, <1>1, WriteStep
  <2>2. CASE hist' = hist
    BY <2>2, <1>1 DEF writes
  <2> QED BY <2>1, <2>2 DEF FlushStart, FlushShow, FlushClear, Merge, Commit, Install, Unlink
<1>4. demoted \subseteq demoted' /\ reader' = reader
  BY DEF Write, FlushStart, FlushShow, FlushClear, Merge, Commit, Install, Unlink
<1>5. PICK r : r = reader
  OBVIOUS
<1>6. /\ r.pc = "tables" => GetOK(r)
      /\ r.pc = "memtables" => MemScanOK(r)
      /\ r.pc \in {"opening", "scanning"} => ScanOK(r)
      /\ r.pc = "got" /\ r.key \notin demoted => AsOf(r.key, r.got, r.floor, writes)
  BY <1>1, <1>5 DEF ReaderInv, GetsAreFresh
<1> QED BY <1>1, <1>2, <1>3, <1>4, <1>5, <1>6, ReaderMoves

LEMMA ReaderStepKeepsReadInv ==
    ASSUME ReadInv,
           \/ \E k \in Keys : GetMem(k)
           \/ GetTables
           \/ \E r \in Ranges : ScanMem(r[1], r[2])
           \/ ScanTables \/ ScanStep \/ ScanReturn \/ Finish
    PROVE  ReadInv'
<1>1. StoreInv /\ ReaderInv /\ HistInv /\ writes \in Nat
  BY WriteFacts DEF ReadInv, StoreInv
<1>2. UNCHANGED <<levelVars, memVars, flushing, hist, demoted>>
  BY DEF GetMem, GetTables, ScanMem, ScanTables, ScanStep, ScanReturn, Finish
<1>3. StepOK /\ hist \subseteq hist' /\ writes' \in Nat /\ writes <= writes' /\ demoted \subseteq demoted'
  BY <1>1, <1>2, StoreStays DEF writes
<1>4. PICK r : r = reader'
  OBVIOUS
<1>5. SUFFICES /\ r.pc = "tables" => GetOK(r)
               /\ r.pc = "memtables" => MemScanOK(r)
               /\ r.pc \in {"opening", "scanning"} => ScanOK(r)
               /\ r.pc = "got" /\ r.key \notin demoted => AsOf(r.key, r.got, r.floor, writes)
  BY <1>1, <1>3, <1>4, ReaderMoves
<1>6. ASSUME NEW k \in Keys, GetMem(k)
      PROVE  /\ r.pc \in {"tables", "got"} /\ (r.pc = "tables" => GetOK(r))
             /\ r.pc = "got" => AsOf(r.key, r.got, r.floor, writes)
  <2>1. r = [pc |-> IF FindInMem(k) = NoEntry THEN "tables" ELSE "got",
             key |-> k, got |-> FindInMem(k), floor |-> Newest(k).seq]
    BY <1>4, <1>6 DEF GetMem
  <2>2. r.pc \in {"tables", "got"} /\ r.key = k
    BY <2>1
  <2> QED BY <2>1, <2>2, <1>1, GetMemOK
<1>7. CASE GetTables
  <2>1. PICK q : q = reader
    OBVIOUS
  <2>2. q.pc = "tables" /\ r = [q EXCEPT !.pc = "got", !.got = Get(q.key)] /\ GetOK(q)
    BY <1>1, <1>4, <1>7, <2>1 DEF GetTables, ReaderInv
  <2>3. r.pc = "got" /\ r.key = q.key /\ r.got = Get(q.key) /\ r.floor = q.floor
    BY <2>2 DEF GetOK
  <2> QED BY <2>2, <2>3, <1>1, GetTablesOK
<1>8. ASSUME NEW lo \in Keys, NEW hi \in Keys, ScanMem(lo, hi) PROVE r.pc = "memtables" /\ MemScanOK(r)
  BY <1>1, <1>4, <1>8, ScanMemOK DEF ScanMem
<1>9. CASE ScanTables
  <2>1. PICK q : q = reader
    OBVIOUS
  <2>2. PICK tables : tables = PlacesFor(q.lo, q.hi)
    OBVIOUS
  <2>3. MemScanOK(q)
    BY <2>1, <1>1, <1>9 DEF ScanTables, ReaderInv
  <2>4. r = [pc |-> "opening", lo |-> q.lo, hi |-> q.hi,
             streams |-> [p \in MemPlaces \cup tables |->
                 IF p \in MemPlaces THEN q.streams[p]
                 ELSE Stream(TableAt(p), sst[TableAt(p)], q.lo)],
             floor |-> q.floor, top |-> writes,
             at |-> 0, out |-> Empty, lost |-> {}]
    BY <2>1, <2>2, <1>4, <1>9 DEF ScanTables
  <2>5. r.pc = "opening"
    BY <2>4
  <2> QED BY <2>2, <2>3, <2>4, <2>5, <1>1, ScanTablesOK
<1>10. CASE ScanStep
  <2>1. PICK q : q = reader
    OBVIOUS
  <2>2. PICK i, s, e : i = Root(q) /\ s = q.streams[i] /\ e = s.f[s.at]
    OBVIOUS
  <2>3. ScanOK(q) /\ Valid(q) # {} /\ q.pc \in {"opening", "scanning"}
    BY <2>1, <1>1, <1>10 DEF ScanStep, ReaderInv
  <2>4. s.at <= q.hi /\ r = Stepped(q, i, s, e)
    BY <2>1, <2>2, <1>4, <1>10 DEF ScanStep, Stepped
  <2>5. r.pc = q.pc
    BY <2>3, <2>4 DEF ScanOK, ScanShape, Stepped
  <2>6. ScanOK(r)
    <3>1. StepsTo(r, q, i, s, e)
      BY <2>3, <2>4, SteppedIs DEF ScanOK
    <3> QED BY <2>2, <2>3, <2>4, <3>1, ScanStepOK
  <2> QED BY <2>3, <2>5, <2>6
<1>11. CASE ScanReturn
  <2>1. PICK q : q = reader
    OBVIOUS
  <2>2. r = [q EXCEPT !.pc = "scanning"] /\ ScanOK(q)
    BY <2>1, <1>1, <1>4, <1>11 DEF ScanReturn, ReaderInv
  <2>3. /\ ScanShape(r) /\ r.pc = "scanning"
        /\ r.lo = q.lo /\ r.hi = q.hi /\ r.streams = q.streams /\ r.floor = q.floor
        /\ r.top = q.top /\ r.at = q.at /\ r.out = q.out /\ r.lost = q.lost
    BY <2>2 DEF ScanOK, ScanShape
  <2>4. ScanOK(r)
    <3>1. \A p \in DOMAIN r.streams : StreamOK(r, r.streams[p])
      BY <2>2, <2>3 DEF ScanOK, StreamOK
    <3>2. \A k : HasKey(r, k) = HasKey(q, k) /\ \A p : FirstHas(r, k, p) <=> FirstHas(q, k, p)
      BY <2>3 DEF HasKey, FirstHas
    <3>3. \A k \in (r.lo..r.hi) \ demoted : Right(r, k)
      BY <2>2, <2>3, <3>2 DEF ScanOK, Right
    <3>4. \A k \in (r.lo..r.at) \ r.lost : Told(r, k)
      BY <2>2, <2>3, <3>2 DEF ScanOK, Told
    <3> QED BY <2>2, <2>3, <3>1, <3>3, <3>4 DEF ScanOK
  <2> QED BY <2>3, <2>4
<1>12. CASE Finish
  <2>1. r.pc = "idle"
    BY <1>4, <1>12 DEF Finish, Idle
  <2> QED BY <2>1
<1>13. \A r0 \in Ranges : r0[1] \in Keys /\ r0[2] \in Keys
  BY ReadAssumption
<1> QED BY <1>6, <1>7, <1>8, <1>9, <1>10, <1>11, <1>12, <1>13

\* The stored writes are numbered from 1 on in the order of their keys.
LEMMA StoredFacts ==
    ASSUME NEW n, n = [k \in Stored |-> Cardinality({j \in Stored : j <= k})]
    PROVE  /\ IsFiniteSet(Stored) /\ Cardinality(Stored) \in Nat
           /\ \A k \in Stored : n[k] \in Nat /\ n[k] > 0 /\ n[k] <= Cardinality(Stored)
<1>1. Stored \in SUBSET (1..NumKeys) /\ NumKeys \in Int /\ Stored \subseteq Nat
  BY ReadAssumption, ConfigAssumption DEF Keys
<1>2. IsFiniteSet(Stored) /\ Cardinality(Stored) \in Nat
  <2>1. IsFiniteSet(1..NumKeys)
    BY <1>1, FS_Interval
  <2> QED BY <2>1, <1>1, FS_Subset, FS_CardinalityType
<1>3. ASSUME NEW k \in Stored PROVE n[k] \in Nat /\ n[k] > 0 /\ n[k] <= Cardinality(Stored)
  <2> DEFINE D == {j \in Stored : j <= k}
  <2>1. D \in SUBSET Stored /\ k \in D /\ n[k] = Cardinality(D)
    BY <1>1
  <2> HIDE DEF D
  <2>2. IsFiniteSet(D) /\ Cardinality(D) <= Cardinality(Stored) /\ Cardinality(D) \in Nat /\ Cardinality(D) # 0
    BY <2>1, <1>2, FS_Subset, FS_CardinalityType, FS_EmptySet
  <2> QED BY <2>1, <2>2, <1>2
<1> QED BY <1>2, <1>3

LEMMA ReadInitLInv == ASSUME ReadInit PROVE LInv
<1>1. PICK n, f : /\ n = [k \in Stored |-> Cardinality({j \in Stored : j <= k})]
                  /\ f = [k \in Stored |-> [key |-> k, seq |-> n[k], op |-> "put"]]
  OBVIOUS
<1>2. /\ sst = [t \in {1} |-> f]
      /\ levels = [l \in AllLevels |-> IF l = 1 THEN <<1>> ELSE <<>>]
      /\ nextID = 2 /\ open = TRUE /\ readers = {1} /\ levelTables = SearchedOf(levels)
      /\ stage = "idle" /\ outputs = <<>> /\ flushes = 0 /\ unread = FALSE
  BY <1>1 DEF ReadInit
<1>3. /\ DOMAIN sst = {1} /\ sst[1] = f /\ DOMAIN f = Stored /\ Stored \in (SUBSET Keys) \ {{}}
      /\ \A k \in Stored : f[k].seq \in Nat \ {0}
  <2>1. \A k \in Stored : n[k] \in Nat /\ n[k] > 0
    BY <1>1, StoredFacts
  <2>2. \A k \in Stored : f[k].seq = n[k]
    BY <1>1
  <2> QED BY <2>1, <2>2, <1>1, <1>2, ReadAssumption
<1>4. 0 \in AllLevels /\ 1 \in AllLevels /\ 1 \in Searched /\ \A l \in Searched : l \in AllLevels
  BY ConfigAssumption DEF AllLevels, Searched
<1>5. \A l \in AllLevels : /\ levels[l] \in Seq(1..1)
                           /\ SeqRange(levels[l]) = IF l = 1 THEN {1} ELSE {}
                           /\ l = 1 => Len(levels[l]) = 1
                           /\ l # 1 => Len(levels[l]) = 0
  <2>1. <<1>> \in Seq(1..1) /\ <<>> \in Seq(1..1) /\ Len(<<1>>) = 1 /\ Len(<<>>) = 0
    OBVIOUS
  <2>2. SeqRange(<<1>>) = {1} /\ SeqRange(<<>>) = {}
    BY DEF SeqRange
  <2> QED BY <2>1, <2>2, <1>2
<1>6. Tables = {1} /\ \A l \in Searched : levelTables[l] = levels[l]
  BY <1>2, <1>4, <1>5 DEF Tables, SearchedOf
<1>7. TypeOK
  <2>1. nextID - 1 = 1 /\ 1..1 = {1}
    BY <1>2
  <2>2. \A l \in AllLevels : levels[l] \in Seq(1..(nextID - 1))
    BY <2>1, <1>5
  <2>3. \A l \in Searched : levelTables[l] \in Seq(1..(nextID - 1))
    BY <2>2, <1>4, <1>6
  <2>4. DOMAIN sst \subseteq 1..(nextID - 1) /\ readers \subseteq 1..(nextID - 1)
    BY <2>1, <1>2, <1>3
  <2>5. \A t \in DOMAIN sst : DOMAIN sst[t] \in (SUBSET Keys) \ {{}}
    BY <1>3
  <2> QED BY <2>2, <2>3, <2>4, <2>5, <1>2 DEF TypeOK
<1>8. Numbered /\ ManifestHasFiles /\ StageFacts
  <2>1. SeqRange(<<>>) = {} /\ <<>> \in Seq(1..(nextID - 1))
    BY DEF SeqRange
  <2>2. StageFacts
    BY <2>1, <1>2 DEF StageFacts, Outputs
  <2> QED BY <2>2, <1>2, <1>3, <1>6 DEF Numbered, ManifestHasFiles
<1>9. ReaderFacts
  BY <1>2, <1>3, <1>4, <1>5, <1>6 DEF ReaderFacts
<1>10. LevelsDisjoint /\ NewerByLevel
  <2>1. ASSUME NEW l \in AllLevels, NEW i \in 1..Len(levels[l]), NEW j \in 1..Len(levels[l]) PROVE i = j
    <3>1. Len(levels[l]) = 0 \/ Len(levels[l]) = 1
      BY <1>5
    <3>2. 1..0 = {} /\ 1..1 = {1}
      OBVIOUS
    <3>3. CASE Len(levels[l]) = 0
      <4>1. i \in 1..0
        BY <3>3
      <4> QED BY <4>1, <3>2
    <3>4. CASE Len(levels[l]) = 1
      <4>1. i \in 1..1 /\ j \in 1..1
        BY <3>4
      <4> QED BY <4>1, <3>2
    <3> QED BY <3>1, <3>3, <3>4
  <2>2. \A l, m \in AllLevels : \A t \in SeqRange(levels[l]), u \in SeqRange(levels[m]) : l = 1 /\ m = 1
    BY <1>5
  <2>3. LevelsDisjoint
    BY <2>1 DEF LevelsDisjoint
  <2>4. NewerByLevel
    <3>1. ~(1 < 1)
      OBVIOUS
    <3> QED BY <2>2, <3>1, Zenon DEF NewerByLevel
  <2> QED BY <2>3, <2>4
<1> QED BY <1>2, <1>7, <1>8, <1>9, <1>10 DEF LInv

LEMMA ReadInitReadInv == ReadInit => ReadInv
<1> SUFFICES ASSUME ReadInit PROVE ReadInv
  OBVIOUS
<1>1. PICK n, f : /\ n = [k \in Stored |-> Cardinality({j \in Stored : j <= k})]
                  /\ f = [k \in Stored |-> [key |-> k, seq |-> n[k], op |-> "put"]]
  OBVIOUS
<1>2. /\ sst = [t \in {1} |-> f] /\ open = TRUE /\ levelTables = SearchedOf(levels)
      /\ levels = [l \in AllLevels |-> IF l = 1 THEN <<1>> ELSE <<>>]
      /\ stage = "idle" /\ unread = FALSE
      /\ latest = [k \in Keys |-> IF k \in Stored THEN f[k] ELSE NoEntry]
      /\ activeMem = Empty /\ immMem = Empty /\ flushing = FALSE
      /\ reader = Idle /\ hist = {f[k] : k \in Stored} /\ demoted = {}
  BY <1>1 DEF ReadInit
<1>3. /\ DOMAIN sst = {1} /\ sst[1] = f /\ DOMAIN f = Stored
      /\ \A k \in Stored : f[k].key = k /\ f[k].seq = n[k]
      /\ Stored \subseteq Keys
  BY <1>1, <1>2, ReadAssumption
<1>4. IsFiniteSet(hist) /\ Cardinality(Stored) \in Nat /\ Cardinality(Stored) <= writes /\ writes \in Nat
  <2>1. IsFiniteSet(Stored) /\ Cardinality(Stored) \in Nat
    BY <1>1, StoredFacts
  <2>2. f \in Surjection(Stored, hist)
    <3>1. f \in [Stored -> hist] /\ \A r \in hist : \E k \in Stored : f[k] = r
      BY <1>1, <1>2, <1>3, ZenonT(30)
    <3> QED BY <3>1 DEF Surjection
  <2>3. IsFiniteSet(hist)
    BY <2>1, <2>2, FS_Surjection
  <2>4. PICK g : g = [r \in hist |-> r.key]
    OBVIOUS
  <2>5. g \in Surjection(hist, Stored)
    <3>1. g \in [hist -> Stored]
      BY <2>4, <1>2, <1>3
    <3>2. \A k \in Stored : f[k] \in hist /\ g[f[k]] = k
      BY <2>4, <1>2, <1>3
    <3> QED BY <3>1, <3>2 DEF Surjection
  <2>6. Cardinality(Stored) <= Cardinality(hist)
    BY <2>3, <2>5, FS_Surjection
  <2> QED BY <2>1, <2>3, <2>6, FS_CardinalityType DEF writes
<1>5. \A k \in Stored : n[k] \in Nat /\ n[k] > 0 /\ n[k] <= Cardinality(Stored)
  BY <1>1, StoredFacts
<1>6. HistInv
  <2>1. ASSUME NEW r \in hist PROVE r.key \in Keys /\ r.seq \in 1..writes /\ r = f[r.key]
    <3>1. PICK k \in Stored : r = f[k]
      BY <1>2
    <3>2. n[k] \in 1..writes
      BY <1>4, <1>5
    <3> QED BY <3>1, <3>2, <1>3
  <2> QED BY <2>1, <1>4 DEF HistInv
<1>7. \A k : WritesOf(k) = IF k \in Stored THEN {f[k]} ELSE {}
  BY <1>2, <1>3 DEF WritesOf
<1>8. \A k \in Keys : latest[k] = Newest(k) /\ latest[k] \in WritesOf(k) \cup {NoEntry}
  BY <1>2, <1>6, <1>7, NewestFacts
<1>9. MemInv /\ NewestInv
  <2>1. Empty = [k \in DOMAIN Empty |-> Empty[k]] /\ DOMAIN Empty = {} /\ Holds(Empty)
    BY DEF Empty, Holds
  <2> QED BY <2>1, <1>2, <1>8 DEF MemInv, NewestInv
<1>10. TableInv
  <2>1. \A k \in Stored : f[k] \in WritesOf(k) /\ latest[k] = f[k] /\ f[k].seq \in Nat
    BY <1>2, <1>3, <1>5, <1>7
  <2> QED BY <2>1, <1>3 DEF TableInv, Holds
<1>11. LInv /\ ~unread /\ Tidy(SearchedOf(levels))
  BY <1>2, ReadInitLInv, ManifestTidy
<1>12. 0 \in Searched /\ 1 \in Searched /\ \A l \in Searched : l \in AllLevels
  BY ConfigAssumption DEF AllLevels, Searched
<1>13. SearchInv
  <2>1. levels[0] = <<>> /\ levelTables[0] = <<>> /\ Len(<<>>) = 0
    BY <1>2, <1>12 DEF SearchedOf
  <2> QED BY <2>1, <1>2, <1>11 DEF SearchInv, LaterIsNewer
<1>14. ShownTables = {1} /\ ManifestTables = {1}
  <2>1. \A l \in Searched : SeqRange(SearchedOf(levels)[l]) = IF l = 1 THEN {1} ELSE {}
    <3>1. SeqRange(<<1>>) = {1} /\ SeqRange(<<>>) = {}
      BY DEF SeqRange
    <3> QED BY <3>1, <1>2, <1>12 DEF SearchedOf
  <2>2. SearchedTables(SearchedOf(levels)) = {1}
    BY <2>1, <1>12 DEF SearchedTables
  <2> QED BY <2>2, <1>2 DEF ShownTables, ManifestTables
<1>15. \A k \in Keys : Reflects({1}, k, latest[k])
  <2>1. ASSUME NEW k \in Stored PROVE Reflects({1}, k, latest[k])
    <3>1. latest[k] = sst[1][k] /\ k \in DOMAIN sst[1] /\ latest[k].seq \in Nat
      BY <1>2, <1>3, <1>5
    <3> QED BY <3>1 DEF Reflects
  <2>2. ASSUME NEW k \in Keys \ Stored PROVE Reflects({1}, k, latest[k])
    BY <1>2, <1>3 DEF Reflects, Gone
  <2> QED BY <2>1, <2>2
<1>16. ShownInv
  BY <1>14, <1>15 DEF ShownInv
<1>17. StoreInv
  BY <1>2, <1>6, <1>9, <1>10, <1>11, <1>13, <1>16 DEF StoreInv
<1>18. ReaderInv /\ GetsAreFresh
  BY <1>2 DEF Idle, ReaderInv, GetsAreFresh
<1> QED BY <1>17, <1>18 DEF ReadInv

LEMMA StutterKeepsReadInv == ASSUME ReadInv, UNCHANGED readVars PROVE ReadInv'
<1>1. StoreInv /\ ReaderInv /\ GetsAreFresh /\ HistInv /\ writes \in Nat
  BY WriteFacts DEF ReadInv, StoreInv
<1>2. UNCHANGED <<levelVars, memVars, flushing, hist, demoted>> /\ reader' = reader
  BY DEF readVars
<1>3. StepOK /\ hist \subseteq hist' /\ writes' \in Nat /\ writes <= writes' /\ demoted \subseteq demoted'
  BY <1>1, <1>2, StoreStays DEF writes
<1>4. PICK r : r = reader
  OBVIOUS
<1>5. /\ r.pc = "tables" => GetOK(r)
      /\ r.pc = "memtables" => MemScanOK(r)
      /\ r.pc \in {"opening", "scanning"} => ScanOK(r)
      /\ r.pc = "got" /\ r.key \notin demoted => AsOf(r.key, r.got, r.floor, writes)
  BY <1>1, <1>4 DEF ReaderInv, GetsAreFresh
<1> QED BY <1>1, <1>2, <1>3, <1>4, <1>5, ReaderMoves

\* Every step of writers, of the flush worker, of the compaction worker and of a reader
\* keeps the inductive invariant (Engine.Put, flushImmutable, Compact, Get and Scan with
\* the iterator that it returns), in any interleaving.
THEOREM ReadsInvariance == ASSUME LastLevelHoldsAll PROVE ReadSpec => []ReadInv
<1>1. ReadInit => ReadInv
  BY ReadInitReadInv
<1>2. ReadInv /\ [ReadNext]_readVars => ReadInv'
  <2> SUFFICES ASSUME ReadInv, [ReadNext]_readVars PROVE ReadInv'
    OBVIOUS
  <2>1. CASE Write \/ FlushStart \/ FlushShow \/ FlushClear \/ Merge \/ Commit \/ Install \/ Unlink
    BY <2>1, StoreStepKeepsReadInv
  <2>2. CASE \/ \E k \in Keys : GetMem(k)
             \/ GetTables
             \/ \E r \in Ranges : ScanMem(r[1], r[2])
             \/ ScanTables \/ ScanStep \/ ScanReturn \/ Finish
    BY <2>2, ReaderStepKeepsReadInv
  <2>3. CASE UNCHANGED readVars
    BY <2>3, StutterKeepsReadInv
  <2> QED BY <2>1, <2>2, <2>3 DEF ReadNext
<1> QED BY <1>1, <1>2, PTL DEF ReadSpec

\* At every moment, within any rotation of a memtable, flush or compaction, the memtables
\* and the tables that are searched together have the newest write of each key (Engine.Get
\* with flushImmutable and Compact): none is ever without a place in which it is found,
\* and no older one comes before it.
THEOREM ReadsFindNewest == ASSUME LastLevelHoldsAll PROVE ReadSpec => []NewestIsFound
<1>1. ReadInv => NewestIsFound
  BY StoreInvFinds DEF ReadInv
<1> QED BY <1>1, ReadsInvariance, PTL

\* A Get answers with nothing older than the newest write at its start, though it lets go
\* of mu before it takes readersMu and memtables are flushed and tables compacted in
\* between (Engine.Get).
THEOREM GetsStayFresh == ASSUME LastLevelHoldsAll PROVE ReadSpec => []GetsAreFresh
<1>1. ReadInv => GetsAreFresh
  BY DEF ReadInv
<1> QED BY <1>1, ReadsInvariance, PTL

\* A Scan gives every key of its range an entry that it had at a moment of the call, or
\* none if it was deleted then or not yet written, however long the iterator is read after
\* that (Engine.Scan and the merging iterator over memtables and tables).
THEOREM ScansStayFresh == ASSUME LastLevelHoldsAll PROVE ReadSpec => []ScansAreFresh
<1>1. ReadInv => ScansAreFresh
  <2> SUFFICES ASSUME ReadInv PROVE ScansAreFresh
    OBVIOUS
  <2>1. CASE reader.pc = "scanning"
    BY <2>1, ScanIsFresh DEF ReadInv, ReaderInv
  <2>2. CASE reader.pc # "scanning"
    BY <2>2 DEF ScansAreFresh
  <2> QED BY <2>1, <2>2
<1> QED BY <1>1, ReadsInvariance, PTL
=============================================================================
