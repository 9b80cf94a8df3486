----------------------------- MODULE FlushProofs -----------------------------
(***************************************************************************)
(* The way of a memtable to disk is exact for every number of keys, every  *)
(* height drawn for a node, every size of a block and every filter: the    *)
(* list is the map that was put, its table has the same keys, lookups and  *)
(* iterators find them, and a power failure adds none (module FlushPath).  *)
(***************************************************************************)
EXTENDS FlushPath, FiniteSetTheorems, SequenceTheorems, NatLemmas, TLAPS

-----------------------------------------------------------------------------
\* Sums of the weights of 1..n.
IsSum(f, w, n) == f = [k \in 0..n |-> IF k = 0 THEN 0 ELSE f[k - 1] + w[k]]

LEMMA SumExists ==
    ASSUME NEW w, NEW n \in Nat
    PROVE  \E f : IsSum(f, w, n)
<1> DEFINE Without == {m \in Nat : ~\E f : IsSum(f, w, m)}
<1> SUFFICES ASSUME Without # {} PROVE FALSE
  OBVIOUS
<1>1. PICK m \in Without : \A i \in Without : m <= i
  <2> HIDE DEF Without
  <2>1. Without \subseteq Nat
    BY DEF Without
  <2> QED BY <2>1, MinExists
<1>2. CASE m = 0
  <2> DEFINE f == [k \in 0..m |-> 0]
  <2>1. f = [k \in 0..m |-> IF k = 0 THEN 0 ELSE f[k - 1] + w[k]]
    BY <1>2
  <2> HIDE DEF f
  <2>2. IsSum(f, w, m)
    BY <2>1 DEF IsSum
  <2> QED BY <2>2, <1>1
<1>3. CASE m # 0
  <2>1. m - 1 \in Nat /\ m - 1 < m
    BY <1>1, <1>3
  <2>2. PICK g : IsSum(g, w, m - 1)
    BY <2>1, <1>1
  <2> DEFINE f == [k \in 0..m |-> IF k = m THEN g[m - 1] + w[m] ELSE g[k]]
  <2>3. ASSUME NEW k \in 0..m PROVE f[k] = IF k = 0 THEN 0 ELSE f[k - 1] + w[k]
    <3>1. CASE k = m
      <4>1. f[k - 1] = g[m - 1] /\ f[k] = g[m - 1] + w[m]
        BY <3>1, <2>1, <1>3
      <4> HIDE DEF f
      <4> QED BY <4>1, <3>1, <1>3
    <3>2. CASE k # m
      <4>1. k \in 0..(m - 1) /\ (k # 0 => k - 1 \in 0..m /\ k - 1 # m)
        BY <3>2, <1>1
      <4>2. g[k] = IF k = 0 THEN 0 ELSE g[k - 1] + w[k]
        BY <2>2, <4>1 DEF IsSum
      <4>3. f[k] = g[k] /\ (k # 0 => f[k - 1] = g[k - 1])
        BY <3>2, <4>1
      <4> HIDE DEF f
      <4> QED BY <4>2, <4>3
    <3> QED BY <3>1, <3>2
  <2>4. f = [k \in 0..m |-> f[k]]
    OBVIOUS
  <2> HIDE DEF f
  <2>5. IsSum(f, w, m)
    BY <2>3, <2>4 DEF IsSum
  <2> QED BY <2>5, <1>1
<1> QED BY <1>2, <1>3

\* The sum, as function BytesAreExact has it.
SumOf(w, n) == LET Sum[k \in 0..n] == IF k = 0 THEN 0 ELSE Sum[k - 1] + w[k] IN Sum[n]

LEMMA SumIs ==
    ASSUME NEW w, NEW n \in Nat
    PROVE  \E f : IsSum(f, w, n) /\ SumOf(w, n) = f[n]
<1> DEFINE Body(f) == [k \in 0..n |-> IF k = 0 THEN 0 ELSE f[k - 1] + w[k]]
           s == CHOOSE f : f = Body(f)
<1>1. SumOf(w, n) = s[n]
  BY DEF SumOf
<1>2. \E f : f = Body(f)
  BY SumExists DEF IsSum
<1>3. s = Body(s)
  <2> HIDE DEF Body
  <2> QED BY <1>2
<1> HIDE DEF s
<1>4. IsSum(s, w, n)
  BY <1>3 DEF IsSum
<1> QED BY <1>1, <1>4

LEMMA SumType ==
    ASSUME NEW w, NEW n \in Nat, \A k \in 1..n : w[k] \in Nat
    PROVE  SumOf(w, n) \in Nat
<1>1. PICK f : IsSum(f, w, n) /\ SumOf(w, n) = f[n]
  BY SumIs
<1> DEFINE Wrong == {k \in 0..n : f[k] \notin Nat}
<1>2. Wrong = {}
  <2> SUFFICES ASSUME Wrong # {} PROVE FALSE
    OBVIOUS
  <2>1. PICK k \in Wrong : \A i \in Wrong : k <= i
    <3>1. Wrong \subseteq Nat
      OBVIOUS
    <3> HIDE DEF Wrong
    <3> QED BY <3>1, MinExists
  <2>2. f[k] = IF k = 0 THEN 0 ELSE f[k - 1] + w[k]
    BY <1>1 DEF IsSum
  <2>3. k # 0 /\ k \in 1..n /\ k - 1 \in 0..n
    BY <2>2, <2>1
  <2>4. f[k - 1] \in Nat
    BY <2>1, <2>3
  <2> QED BY <2>1, <2>2, <2>3, <2>4
<1> QED BY <1>1, <1>2

\* A sum changes by what one of its weights does.
LEMMA SumChanges ==
    ASSUME NEW w, NEW v, NEW n \in Nat, NEW j \in 1..n,
           \A k \in 1..n : w[k] \in Nat /\ v[k] \in Nat,
           \A k \in 1..n : k # j => v[k] = w[k]
    PROVE  SumOf(v, n) = SumOf(w, n) + v[j] - w[j]
<1>1. PICK f : IsSum(f, w, n) /\ SumOf(w, n) = f[n]
  BY SumIs
<1>2. PICK g : IsSum(g, v, n) /\ SumOf(v, n) = g[n]
  BY SumIs
<1> DEFINE Right(k) == f[k] \in Int /\ g[k] = (IF k < j THEN f[k] ELSE f[k] + (v[j] - w[j]))
           Wrong == {k \in 0..n : ~Right(k)}
<1>3. Wrong = {}
  <2> SUFFICES ASSUME Wrong # {} PROVE FALSE
    OBVIOUS
  <2>1. PICK k \in Wrong : \A i \in Wrong : k <= i
    <3>1. Wrong \subseteq Nat
      OBVIOUS
    <3> HIDE DEF Wrong
    <3> QED BY <3>1, MinExists
  <2>2. /\ f[k] = IF k = 0 THEN 0 ELSE f[k - 1] + w[k]
        /\ g[k] = IF k = 0 THEN 0 ELSE g[k - 1] + v[k]
    BY <1>1, <1>2 DEF IsSum
  <2>3. k # 0
    BY <2>1, <2>2
  <2>4. k \in 1..n /\ k - 1 \in 0..n /\ k \in Int /\ j \in Int
    BY <2>3
  <2>5. Right(k - 1)
    <3>1. k - 1 < k
      BY <2>4
    <3> HIDE DEF Right
    <3> QED BY <2>1, <2>4, <3>1
  <2>6. ~Right(k)
    BY <2>1
  <2>7. w[k] \in Nat /\ v[k] \in Nat /\ w[j] \in Nat /\ v[j] \in Nat /\ (k # j => v[k] = w[k])
    BY <2>4
  <2>8. CASE k < j
    <3>1. f[k - 1] \in Int /\ g[k - 1] = f[k - 1]
      BY <2>4, <2>5, <2>8
    <3>2. f[k] \in Int /\ g[k] = f[k]
      BY <3>1, <2>2, <2>3, <2>4, <2>7, <2>8
    <3> QED BY <2>6, <2>8, <3>2
  <2>9. CASE k = j
    <3>1. f[k - 1] \in Int /\ g[k - 1] = f[k - 1]
      BY <2>4, <2>5, <2>9
    <3>2. f[k] \in Int /\ g[k] = f[k] + (v[j] - w[j])
      BY <3>1, <2>2, <2>3, <2>4, <2>7, <2>9
    <3> QED BY <2>4, <2>6, <2>9, <3>2
  <2>10. CASE k > j
    <3>1. f[k - 1] \in Int /\ g[k - 1] = f[k - 1] + (v[j] - w[j])
      BY <2>4, <2>5, <2>10
    <3>2. f[k] \in Int /\ g[k] = f[k] + (v[j] - w[j])
      BY <3>1, <2>2, <2>3, <2>4, <2>7, <2>10
    <3> QED BY <2>4, <2>6, <2>10, <3>2
  <2> QED BY <2>4, <2>8, <2>9, <2>10
<1>4. Right(n)
  BY <1>3
<1>5. w[j] \in Nat /\ v[j] \in Nat /\ ~(n < j)
  OBVIOUS
<1> HIDE DEF Wrong
<1>6. f[n] \in Int /\ g[n] = f[n] + (v[j] - w[j])
  BY <1>4, <1>5
<1> QED BY <1>1, <1>2, <1>5, <1>6
-----------------------------------------------------------------------------
\* The list.  The nodes of a level, with the head.
Level(hs, l) == {List!HeadNode} \cup {k \in DOMAIN hs : hs[k] >= l}

\* Node m is the first of S behind n; node m is the last of S before k.
IsNext(S, n, m) ==
    IF \E j \in S : j > n THEN m \in S /\ m > n /\ \A j \in S : j > n => m <= j
    ELSE m = List!Nil

IsPrev(S, k, m) == m \in S /\ m < k /\ \A j \in S : j < k => j <= m

\* Nodes have keys and heights, and the entries that were put.
ListTypes ==
    /\ height \in List!Links
    /\ DOMAIN heights \subseteq List!Keys
    /\ \A k \in DOMAIN heights : heights[k] \in 1..height
    /\ DOMAIN model = DOMAIN heights /\ entries = model
    /\ model = [k \in DOMAIN model |-> model[k]]
    /\ \A k \in DOMAIN model : model[k].size \in Nat

\* Each level links its nodes, from the head to the end, in the order of their keys.
Linked ==
    /\ next \in [List!Links -> UNION {[S \cup {List!HeadNode} -> List!Keys \cup {List!Nil}] : S \in SUBSET List!Keys}]
    /\ \A l \in List!Links : DOMAIN next[l] = Level(heights, l)
    /\ \A l \in List!Links : \A n \in Level(heights, l) : IsNext(Level(heights, l), n, next[l][n])

WeightOf(m, hs) ==
    [k \in 1..NumKeys |-> IF k \in DOMAIN m THEN m[k].size + NodeOverhead + hs[k] * List!PointerSize ELSE 0]

Counted == bytes = SumOf(WeightOf(model, heights), NumKeys) /\ length = Cardinality(DOMAIN model)

ListInv == ListTypes /\ Linked /\ Counted
-----------------------------------------------------------------------------
\* Its nodes are numbers, of which the head is the least.
LEMMA LevelTypes ==
    ASSUME ListAssumption, ListTypes, NEW l \in List!Links
    PROVE  /\ Level(heights, l) \subseteq 0..NumKeys /\ 0 \in Level(heights, l)
           /\ \A k \in Level(heights, l) : k # 0 => k \in DOMAIN heights /\ k \in List!Keys
           /\ \A k \in DOMAIN heights : k \in Level(heights, l) <=> heights[k] >= l
           /\ List!Nil = NumKeys + 1 /\ List!Nil \in Nat /\ NumKeys \in Nat
BY DEF ListAssumption, ListTypes, Level, List!Links, List!Keys, List!HeadNode, List!Nil

\* One level of the search stops at the last node before the key.
LEMMA WalkStops ==
    ASSUME ListAssumption, ListTypes, Linked, NEW l \in List!Links, NEW k \in List!Keys,
           NEW n \in Level(heights, l), n < k
    PROVE  IsPrev(Level(heights, l), k, List!Walk(l, n, k))
<1> DEFINE S == DOMAIN next[l]
           nx == next[l]
           B == {c \in S : nx[c] # List!Nil /\ nx[c] < k}
           out == [c \in S |-> c]
           Body(f) == [c \in S |-> IF nx[c] # List!Nil /\ nx[c] < k THEN f[nx[c]] ELSE c]
           walk == CHOOSE f : f = Body(f)
           I == {c \in S : c < k}
           m == [c \in S |-> NumKeys - c]
<1>1. /\ S = Level(heights, l) /\ S \subseteq 0..NumKeys /\ NumKeys \in Nat
      /\ \A c \in S : IsNext(S, c, nx[c])
  BY LevelTypes DEF Linked
<1>2. k \in 1..NumKeys /\ List!Nil = NumKeys + 1
  BY DEF List!Keys, List!Nil
<1>3. List!Walk(l, n, k) = walk[n]
  BY DEF List!Walk
<1> HIDE DEF S, nx
<1>4. \A c \in S \cap B : nx[c] \in S /\ nx[c] > c /\ nx[c] < k
  BY <1>1, <1>2 DEF IsNext
<1>5. \A f : Body(f) = [c \in S |-> IF c \in B THEN f[nx[c]] ELSE out[c]]
  OBVIOUS
<1>6. \E f : f = [c \in S |-> IF c \in B THEN f[nx[c]] ELSE out[c]]
  <2> HIDE DEF B, out
  <2>1. HasLoop(S, B, nx, out)
    BY <1>4, LoopExists
  <2> QED BY <2>1 DEF HasLoop
<1>7. walk = Body(walk)
  <2> HIDE DEF B, out, Body
  <2> QED BY <1>5, <1>6
<1>8. IsLoop(walk, S, B, nx, out)
  <2>1. walk = [c \in S |-> IF c \in B THEN walk[nx[c]] ELSE out[c]]
    <3> HIDE DEF B, out, Body, walk
    <3> QED BY <1>5, <1>7
  <2> HIDE DEF B, out, walk
  <2> QED BY <2>1 DEF IsLoop
<1>9. Keeps(I, S, B, nx, m)
  <2>1. \A c \in I : m[c] \in Nat
    BY <1>1
  <2>2. \A c \in I \cap B : nx[c] \in I /\ m[nx[c]] < m[c]
    <3> TAKE c \in I \cap B
    <3>1. c \in S /\ nx[c] \in S /\ nx[c] > c /\ nx[c] < k
      BY <1>4
    <3>2. c \in Int /\ nx[c] \in Int /\ NumKeys \in Int
      BY <1>1, <3>1
    <3>3. m[c] = NumKeys - c /\ m[nx[c]] = NumKeys - nx[c]
      BY <3>1
    <3> HIDE DEF m
    <3> QED BY <3>1, <3>2, <3>3
  <2> HIDE DEF m, B
  <2> QED BY <2>1, <2>2 DEF Keeps
<1>10. PICK e \in I \ B : walk[n] = out[e]
  <2>1. n \in I
    BY <1>1
  <2> HIDE DEF walk, I, m, B, out
  <2> QED BY <1>8, <1>9, <2>1, LoopEnds
<1>11. walk[n] = e /\ e \in S /\ e < k /\ (nx[e] = List!Nil \/ ~(nx[e] < k))
  <2> HIDE DEF walk
  <2> QED BY <1>10
<1>12. \A j \in S : j < k => j <= e
  BY <1>1, <1>2, <1>11 DEF IsNext
<1> HIDE DEF walk
<1> QED BY <1>1, <1>3, <1>11, <1>12 DEF IsPrev

\* So the search path has on each level the node before the key.
LEMMA UpdateIs ==
    ASSUME ListAssumption, ListTypes, Linked, NEW k \in List!Keys
    PROVE  \A l \in List!Links : IsPrev(Level(heights, l), k, List!Update(k)[l])
<1> DEFINE Body(f) == [l \in List!Links |->
                         IF l > height THEN List!HeadNode
                         ELSE List!Walk(l, IF l = MaxHeight THEN List!HeadNode ELSE f[l + 1], k)]
           path == CHOOSE f : f = Body(f)
           Before(l) == CHOOSE m : IsPrev(Level(heights, l), k, m)
           p == [l \in List!Links |-> Before(l)]
<1>0. List!Update(k) = path
  BY DEF List!Update
<1>1. MaxHeight \in Nat \ {0} /\ List!Links = 1..MaxHeight /\ List!HeadNode = 0 /\ k \in Nat /\ k > 0
  BY DEF ListAssumption, List!Links, List!HeadNode, List!Keys
<1>2. ASSUME NEW l \in List!Links, l > height PROVE IsPrev(Level(heights, l), k, 0)
  <2>1. \A j \in DOMAIN heights : ~(heights[j] >= l)
    BY <1>1, <1>2 DEF ListTypes
  <2>2. Level(heights, l) = {0}
    BY <1>1, <2>1 DEF Level
  <2> QED BY <1>1, <2>2 DEF IsPrev
<1>3. ASSUME NEW l \in List!Links, l # MaxHeight, NEW m, IsPrev(Level(heights, l + 1), k, m)
      PROVE  m \in Level(heights, l) /\ m < k
  <2>1. m \in Level(heights, l + 1) /\ m < k
    BY <1>3 DEF IsPrev
  <2>2. \A j \in DOMAIN heights : heights[j] \in Int
    BY <1>1 DEF ListTypes
  <2> QED BY <1>1, <2>1, <2>2 DEF Level
<1>4. ASSUME NEW f, NEW l \in List!Links, \A j \in List!Links : j > l => IsPrev(Level(heights, j), k, f[j])
      PROVE  IsPrev(Level(heights, l), k, Body(f)[l])
  <2>1. CASE l > height
    BY <1>1, <1>2, <2>1
  <2>2. CASE ~(l > height)
    <3> DEFINE n == IF l = MaxHeight THEN List!HeadNode ELSE f[l + 1]
    <3>1. n \in Level(heights, l) /\ n < k
      <4>1. CASE l = MaxHeight
        BY <4>1, <1>1 DEF Level
      <4>2. CASE l # MaxHeight
        <5>1. l + 1 \in List!Links /\ l + 1 > l
          BY <1>1, <4>2
        <5>2. IsPrev(Level(heights, l + 1), k, f[l + 1])
          BY <5>1, <1>4
        <5> QED BY <5>2, <1>3, <4>2
      <4> QED BY <4>1, <4>2
    <3>2. Body(f)[l] = List!Walk(l, n, k)
      BY <2>2
    <3> HIDE DEF n, Body
    <3> QED BY <3>1, <3>2, WalkStops
  <2> QED BY <2>1, <2>2
<1>5. \A l \in List!Links : IsPrev(Level(heights, l), k, p[l])
  <2> TAKE l \in List!Links
  <2> DEFINE T == {j \in Level(heights, l) : j < k}
  <2>1. T \in SUBSET Nat /\ T # {} /\ \A j \in T : j <= k
    BY LevelTypes, <1>1
  <2>2. PICK m \in T : \A j \in T : j <= m
    <3> HIDE DEF T
    <3> QED BY <2>1, <1>1, MaxExists
  <2>3. IsPrev(Level(heights, l), k, m)
    BY <2>2 DEF IsPrev
  <2>4. IsPrev(Level(heights, l), k, Before(l))
    BY <2>3
  <2> HIDE DEF Before
  <2> QED BY <2>4
<1>6. \A l \in List!Links : \A a, b : IsPrev(Level(heights, l), k, a) /\ IsPrev(Level(heights, l), k, b) => a = b
  <2> TAKE l \in List!Links
  <2> TAKE a, b
  <2> HAVE IsPrev(Level(heights, l), k, a) /\ IsPrev(Level(heights, l), k, b)
  <2>1. a \in 0..NumKeys /\ b \in 0..NumKeys /\ a <= b /\ b <= a
    BY LevelTypes DEF IsPrev
  <2> QED BY <2>1
<1>7. p = Body(p)
  <2>1. \A l \in List!Links : p[l] = Body(p)[l]
    <3> TAKE l \in List!Links
    <3>1. IsPrev(Level(heights, l), k, Body(p)[l])
      <4> HIDE DEF Body, p
      <4> QED BY <1>4, <1>5
    <3> HIDE DEF Body, p
    <3> QED BY <1>5, <1>6, <3>1
  <2>2. p = [l \in List!Links |-> p[l]] /\ Body(p) = [l \in List!Links |-> Body(p)[l]]
    OBVIOUS
  <2> HIDE DEF Body, p
  <2> QED BY <2>1, <2>2
<1>8. path = Body(path)
  <2> HIDE DEF Body, p
  <2> QED BY <1>7
<1> DEFINE Wrong == {l \in List!Links : ~IsPrev(Level(heights, l), k, path[l])}
<1>9. Wrong = {}
  <2> SUFFICES ASSUME Wrong # {} PROVE FALSE
    OBVIOUS
  <2>1. PICK l \in Wrong : \A j \in Wrong : j <= l
    <3>1. Wrong \in SUBSET Nat /\ \A j \in Wrong : j <= MaxHeight
      BY <1>1
    <3> HIDE DEF Wrong
    <3> QED BY <3>1, <1>1, MaxExists
  <2>2. \A j \in List!Links : j > l => IsPrev(Level(heights, j), k, path[j])
    BY <2>1, <1>1
  <2>3. IsPrev(Level(heights, l), k, Body(path)[l])
    <3> HIDE DEF Body, path
    <3> QED BY <2>1, <2>2, <1>4
  <2> HIDE DEF Body, path
  <2> QED BY <2>1, <2>3, <1>8
<1> HIDE DEF path
<1> QED BY <1>0, <1>9
\* What follows the search path is the node of the key, if there is one.
LEMMA CandidateIs ==
    ASSUME ListAssumption, ListTypes, Linked, NEW k \in List!Keys
    PROVE  List!Candidate(k) = k <=> k \in DOMAIN heights
<1> DEFINE S == Level(heights, 1)
           p == List!Update(k)[1]
<1>1. 1 \in List!Links /\ List!Candidate(k) = next[1][p]
  BY DEF ListAssumption, List!Links, List!Candidate
<1>2. IsPrev(S, k, p) /\ IsNext(S, p, next[1][p])
  BY <1>1, UpdateIs DEF Linked, IsPrev
<1>3. /\ S \subseteq 0..NumKeys /\ NumKeys \in Nat /\ List!Nil = NumKeys + 1 /\ k \in 1..NumKeys
      /\ k \in S <=> k \in DOMAIN heights
  <2>1. \A j \in DOMAIN heights : heights[j] >= 1
    BY DEF ListTypes, List!Links
  <2> QED BY <1>1, <2>1, LevelTypes DEF List!Keys, List!HeadNode, Level
<1> HIDE DEF p, S
<1>4. ASSUME k \in S PROVE next[1][p] = k
  <2>1. p \in Int /\ p < k
    BY <1>2, <1>3 DEF IsPrev
  <2>2. next[1][p] \in S /\ next[1][p] > p /\ next[1][p] <= k
    BY <1>2, <1>4, <2>1 DEF IsNext
  <2> DEFINE q == next[1][p]
  <2>6. q \in S /\ q > p /\ q <= k
    BY <2>2
  <2> HIDE DEF q
  <2>3. q \in S /\ q \in Int /\ q > p /\ q <= k /\ k \in Int
    BY <1>3, <2>6
  <2>4. ~(q < k)
    BY <1>2, <2>1, <2>3 DEF IsPrev
  <2>5. q = k
    BY <2>3, <2>4
  <2> QED BY <2>5 DEF q
<1>5. ASSUME k \notin S PROVE next[1][p] # k
  BY <1>2, <1>3, <1>5 DEF IsNext
<1> QED BY <1>1, <1>3, <1>4, <1>5

\* So a search finds what was put.
LEMMA ListSearches ==
    ASSUME ListAssumption, ListTypes, Linked
    PROVE  List!SearchFindsLast
BY CandidateIs DEF List!SearchFindsLast, List!Found, ListTypes

\* s has the keys of A, in order and each once.
Sorted(s) == \A i, j \in 1..Len(s) : i < j => s[i] < s[j]

RangeOf(s) == {s[i] : i \in 1..Len(s)}

Lists(s, A) == s \in Seq(List!Keys) /\ Sorted(s) /\ RangeOf(s) = A

\* A list grows at its end.
LEMMA ListsOneMore ==
    ASSUME NEW s, NEW A, Lists(s, A), NEW k \in List!Keys, \A j \in A : j < k
    PROVE  Lists(Append(s, k), A \cup {k})
<1> DEFINE a == Append(s, k)
           n == Len(s)
<1>1. s \in Seq(List!Keys) /\ n \in Nat /\ \A i \in 1..n : s[i] \in A
  BY DEF Lists, RangeOf
<1>2. /\ a \in Seq(List!Keys) /\ Len(a) = n + 1 /\ a[n + 1] = k
      /\ \A i \in 1..n : a[i] = s[i]
  BY <1>1
<1>3. \A i \in 1..(n + 1) : i \in 1..n \/ i = n + 1
  BY <1>1
<1> HIDE DEF a, n
<1>4. Sorted(a)
  <2> SUFFICES ASSUME NEW i \in 1..(n + 1), NEW j \in 1..(n + 1), i < j PROVE a[i] < a[j]
    BY <1>2 DEF Sorted
  <2>1. i \in 1..n
    BY <1>1, <1>3
  <2>2. CASE j \in 1..n
    BY <1>2, <2>1, <2>2 DEF Lists, Sorted, n
  <2>3. CASE j = n + 1
    BY <1>1, <1>2, <2>1, <2>3
  <2> QED BY <1>3, <2>2, <2>3
<1>5. RangeOf(a) = RangeOf(s) \cup {k}
  <2>1. \A x \in RangeOf(a) : x \in RangeOf(s) \cup {k}
    BY <1>2, <1>3 DEF RangeOf, n
  <2>2. \A x \in RangeOf(s) : x \in RangeOf(a)
    <3> TAKE x \in RangeOf(s)
    <3>1. PICK i \in 1..n : x = s[i]
      BY DEF RangeOf, n
    <3>2. i \in 1..(n + 1) /\ a[i] = x
      BY <1>1, <1>2, <3>1
    <3> QED BY <1>2, <3>2 DEF RangeOf
  <2>3. k \in RangeOf(a)
    <3>1. n + 1 \in 1..(n + 1)
      BY <1>1
    <3> QED BY <1>2, <3>1 DEF RangeOf
  <2> QED BY <2>1, <2>2, <2>3
<1> QED BY <1>2, <1>4, <1>5 DEF Lists, a

\* The iterator's snapshot has the keys of the list.
LEMMA SnapshotIs ==
    ASSUME ListAssumption, ListTypes, Linked
    PROVE  Lists(List!Snapshot, DOMAIN model)
<1> DEFINE D == DOMAIN entries
           S == Seq(List!Keys) \X (D \cup {List!Nil})
           B == {s \in S : s[2] # List!Nil}
           nx == [s \in S |-> <<Append(s[1], s[2]), next[1][s[2]]>>]
           out == [s \in S |-> s[1]]
           Body(f) == [s \in S |-> IF s[2] = List!Nil THEN s[1]
                                   ELSE f[<<Append(s[1], s[2]), next[1][s[2]]>>]]
           nodes == CHOOSE f : f = Body(f)
           Below(k) == {j \in D : j < k}
           I == {s \in S : Lists(s[1], Below(s[2]))}
           m == [s \in S |-> List!Nil - s[2]]
           start == <<<<>>, next[1][List!HeadNode]>>
<1>0. List!Snapshot = nodes[start]
  BY DEF List!Snapshot
<1>1. /\ 1 \in List!Links /\ D = DOMAIN model /\ D \subseteq 1..NumKeys /\ NumKeys \in Nat
      /\ List!Nil = NumKeys + 1 /\ List!HeadNode = 0 /\ List!Keys = 1..NumKeys
      /\ Level(heights, 1) = D \cup {0}
  <2>1. \A j \in DOMAIN heights : heights[j] >= 1
    BY DEF ListTypes, List!Links
  <2> QED BY <2>1 DEF ListAssumption, ListTypes, List!Links, List!Keys, List!Nil, List!HeadNode, Level
<1>2. \A n \in D \cup {0} : IsNext(D \cup {0}, n, next[1][n])
  BY <1>1 DEF Linked
<1> HIDE DEF D
<1>3. ASSUME NEW n \in D \cup {0}
      PROVE  /\ next[1][n] \in D \cup {List!Nil} /\ next[1][n] > n
             /\ \A j \in D : j < next[1][n] <=> j <= n
  BY <1>1, <1>2 DEF IsNext
<1>4. \A s \in S \cap B : /\ s[1] \in Seq(List!Keys) /\ s[2] \in D
                          /\ nx[s] = <<Append(s[1], s[2]), next[1][s[2]]>> /\ nx[s] \in S
  <2> TAKE s \in S \cap B
  <2>1. s[1] \in Seq(List!Keys) /\ s[2] \in D
    OBVIOUS
  <2>2. nx[s] = <<Append(s[1], s[2]), next[1][s[2]]>>
    OBVIOUS
  <2>3. Append(s[1], s[2]) \in Seq(List!Keys)
    BY <1>1, <2>1
  <2>4. next[1][s[2]] \in D \cup {List!Nil}
    BY <1>3, <2>1
  <2> HIDE DEF nx
  <2>5. nx[s] \in S
    <3> DEFINE a == Append(s[1], s[2])
               b == next[1][s[2]]
    <3>1. a \in Seq(List!Keys) /\ b \in D \cup {List!Nil} /\ nx[s] = <<a, b>>
      BY <2>2, <2>3, <2>4
    <3> HIDE DEF a, b
    <3> QED BY <3>1
  <2> HIDE DEF S
  <2> QED BY <2>1, <2>2, <2>5
<1>5. \A f : Body(f) = [s \in S |-> IF s \in B THEN f[nx[s]] ELSE out[s]]
  OBVIOUS
<1>6. \E f : f = [s \in S |-> IF s \in B THEN f[nx[s]] ELSE out[s]]
  <2>1. \A s \in S \cap B : nx[s] \in S
    BY <1>4
  <2> HIDE DEF S, B, nx, out
  <2>2. HasLoop(S, B, nx, out)
    BY <2>1, LoopExists
  <2> QED BY <2>2 DEF HasLoop
<1>7. nodes = Body(nodes)
  <2> HIDE DEF S, B, nx, out, Body
  <2> QED BY <1>5, <1>6
<1>8. IsLoop(nodes, S, B, nx, out)
  <2>1. nodes = [s \in S |-> IF s \in B THEN nodes[nx[s]] ELSE out[s]]
    <3> HIDE DEF S, B, nx, out, Body, nodes
    <3> QED BY <1>5, <1>7
  <2> HIDE DEF S, B, nx, out, nodes
  <2> QED BY <2>1 DEF IsLoop
<1>9. Keeps(I, S, B, nx, m)
  <2>1. \A s \in I : m[s] \in Nat
    BY <1>1
  <2>2. \A s \in I \cap B : nx[s] \in I /\ m[nx[s]] < m[s]
    <3> TAKE s \in I \cap B
    <3> DEFINE k == s[2]
               n == next[1][s[2]]
    <3>1. /\ s \in S \cap B /\ nx[s] = <<Append(s[1], k), n>> /\ nx[s] \in S /\ k \in D
          /\ n \in D \cup {List!Nil} /\ n > k /\ \A j \in D : j < n <=> j <= k
      BY <1>3, <1>4
    <3>2. Lists(s[1], Below(k))
      OBVIOUS
    <3>3. nx[s][1] = Append(s[1], k) /\ nx[s][2] = n
      <4> HIDE DEF nx, S, B
      <4> QED BY <3>1
    <3>4. m[s] = List!Nil - k /\ m[nx[s]] = List!Nil - n
      <4> HIDE DEF nx, B
      <4> QED BY <3>1, <3>3
    <3> HIDE DEF k, n, nx, S, B, m
    <3>5. Lists(Append(s[1], k), Below(n))
      <4>1. Below(n) = Below(k) \cup {k}
        BY <1>1, <3>1
      <4>2. Lists(Append(s[1], k), Below(k) \cup {k})
        <5>1. \A j \in Below(k) : j < k
          OBVIOUS
        <5>2. k \in List!Keys
          BY <1>1, <3>1
        <5> HIDE DEF Below
        <5> QED BY <3>2, <5>1, <5>2, ListsOneMore
      <4> QED BY <4>1, <4>2
    <3>6. m[nx[s]] < m[s]
      BY <1>1, <3>1, <3>4
    <3> QED BY <3>1, <3>3, <3>5, <3>6
  <2> HIDE DEF S, B, nx, m, Below
  <2> QED BY <2>1, <2>2 DEF Keeps
<1>10. start \in I
  <2>1. /\ next[1][0] \in D \cup {List!Nil} /\ \A j \in D : j < next[1][0] <=> j <= 0
    BY <1>3
  <2>2. start = <<<<>>, next[1][0]>>
    BY <1>1
  <2>3. Below(next[1][0]) = {}
    BY <1>1, <2>1
  <2>4. Lists(<<>>, {})
    BY DEF Lists, Sorted, RangeOf
  <2>5. <<>> \in Seq(List!Keys)
    OBVIOUS
  <2>6. start \in S /\ start[1] = <<>> /\ start[2] = next[1][0]
    <3> HIDE DEF start
    <3> QED BY <2>1, <2>2, <2>5
  <2> HIDE DEF start, Below, S
  <2> QED BY <2>3, <2>4, <2>6
<1>11. PICK e \in I \ B : nodes[start] = out[e]
  <2> HIDE DEF S, B, nx, out, nodes, m, I, start
  <2> QED BY <1>8, <1>9, <1>10, LoopEnds
<1>12. e \in S /\ e[2] = List!Nil /\ out[e] = e[1] /\ Lists(e[1], Below(e[2]))
  OBVIOUS
<1>13. Below(List!Nil) = D
  <2>1. \A j \in D : j < List!Nil
    BY <1>1
  <2> QED BY <2>1
<1> HIDE DEF S, B, nx, out, nodes, m, I, start, Below
<1> QED BY <1>0, <1>1, <1>11, <1>12, <1>13

\* The binary search for the first place not below t; where the places from low on,
\* up to high, are left, those before low are below t and those from a on are not.
Narrows(keys, t, low, high, a) ==
    /\ low \in 1..(Len(keys) + 1) /\ high \in 0..Len(keys) /\ low <= high + 1 /\ a = high + 1
    /\ \A i \in 1..Len(keys) : (i < low => keys[i] < t) /\ (i > high => keys[i] >= t)

LEMMA SeekFinds ==
    ASSUME NEW keys \in Seq(Int), Sorted(keys), NEW t \in Int
    PROVE  /\ List!SeekPlace(keys, t) \in 1..(Len(keys) + 1)
           /\ \A i \in 1..Len(keys) : keys[i] >= t <=> i >= List!SeekPlace(keys, t)
<1> DEFINE Mid(s) == (s[1] + s[2]) \div 2
           S == Int \X Int \X Int
           B == {s \in S : s[1] <= s[2]}
           nx == [s \in S |-> IF keys[Mid(s)] >= t THEN <<s[1], Mid(s) - 1, Mid(s)>>
                              ELSE <<Mid(s) + 1, s[2], s[3]>>]
           out == [s \in S |-> s[3]]
           Body(f) == [s \in S |-> IF s[1] > s[2] THEN s[3]
                         ELSE IF keys[Mid(s)] >= t THEN f[<<s[1], Mid(s) - 1, Mid(s)>>]
                         ELSE f[<<Mid(s) + 1, s[2], s[3]>>]]
           search == CHOOSE f : f = Body(f)
           n == Len(keys)
           I == {s \in S : Narrows(keys, t, s[1], s[2], s[3])}
           m == [s \in S |-> s[2] - s[1] + 1]
           start == <<1, n, n + 1>>
<1>0. List!SeekPlace(keys, t) = search[start]
  BY DEF List!SeekPlace
<1>1. n \in Nat
  OBVIOUS
<1> HIDE DEF n
<1>2. ASSUME NEW s \in S
      PROVE  /\ s = <<s[1], s[2], s[3]>> /\ s[1] \in Int /\ s[2] \in Int /\ s[3] \in Int
             /\ Mid(s) \in Int /\ (s[1] <= s[2] => s[1] <= Mid(s) /\ Mid(s) <= s[2])
  <2>1. s = <<s[1], s[2], s[3]>> /\ s[1] \in Int /\ s[2] \in Int /\ s[3] \in Int
    OBVIOUS
  <2> DEFINE a == s[1]
             b == s[2]
  <2>2. a \in Int /\ b \in Int
    BY <2>1
  <2> HIDE DEF a, b
  <2>3. (a + b) \div 2 \in Int /\ (a <= b => a <= (a + b) \div 2 /\ (a + b) \div 2 <= b)
    BY <2>2
  <2> QED BY <2>1, <2>3 DEF a, b
<1>3. ASSUME NEW s \in S
      PROVE  nx[s] \in S /\ nx[s] = (IF keys[Mid(s)] >= t THEN <<s[1], Mid(s) - 1, Mid(s)>>
                                     ELSE <<Mid(s) + 1, s[2], s[3]>>)
  <2>1. nx[s] = (IF keys[Mid(s)] >= t THEN <<s[1], Mid(s) - 1, Mid(s)>>
                 ELSE <<Mid(s) + 1, s[2], s[3]>>)
    OBVIOUS
  <2> HIDE DEF nx, Mid
  <2>2. nx[s] \in S
    BY <1>2, <2>1
  <2> HIDE DEF S
  <2> QED BY <2>1, <2>2
<1>4. \A f : Body(f) = [s \in S |-> IF s \in B THEN f[nx[s]] ELSE out[s]]
  <2> TAKE f
  <2>1. \A s \in S : (IF s[1] > s[2] THEN s[3]
                      ELSE IF keys[Mid(s)] >= t THEN f[<<s[1], Mid(s) - 1, Mid(s)>>]
                      ELSE f[<<Mid(s) + 1, s[2], s[3]>>])
                   = (IF s \in B THEN f[nx[s]] ELSE out[s])
    <3> TAKE s \in S
    <3>1. s[1] > s[2] <=> s \notin B
      BY <1>2
    <3>2. out[s] = s[3]
      OBVIOUS
    <3> HIDE DEF Mid, nx, S, B, out
    <3> QED BY <1>3, <3>1, <3>2
  <2> HIDE DEF Mid, nx, S, B, out
  <2> QED BY <2>1
<1>5. \E f : f = [s \in S |-> IF s \in B THEN f[nx[s]] ELSE out[s]]
  <2>1. \A s \in S \cap B : nx[s] \in S
    BY <1>3
  <2> HIDE DEF S, B, nx, out
  <2>2. HasLoop(S, B, nx, out)
    BY <2>1, LoopExists
  <2> QED BY <2>2 DEF HasLoop
<1>6. search = Body(search)
  <2> HIDE DEF S, B, nx, out, Body
  <2> QED BY <1>4, <1>5
<1>7. IsLoop(search, S, B, nx, out)
  <2>1. search = [s \in S |-> IF s \in B THEN search[nx[s]] ELSE out[s]]
    <3> HIDE DEF S, B, nx, out, Body, search
    <3> QED BY <1>4, <1>6
  <2> HIDE DEF S, B, nx, out, search
  <2> QED BY <2>1 DEF IsLoop
<1>8. Keeps(I, S, B, nx, m)
  <2>1. \A s \in I : m[s] \in Nat
    <3> TAKE s \in I
    <3>1. s[1] \in Int /\ s[2] \in Int /\ s[1] <= s[2] + 1 /\ m[s] = s[2] - s[1] + 1
      BY <1>1, <1>2 DEF Narrows, n
    <3> HIDE DEF m, I
    <3> QED BY <3>1
  <2>2. \A s \in I \cap B : nx[s] \in I /\ m[nx[s]] < m[s]
    <3> TAKE s \in I \cap B
    <3> DEFINE low == s[1]
               high == s[2]
               mid == Mid(s)
               u == nx[s]
    <3>1. /\ s \in S /\ low \in Int /\ high \in Int /\ low <= mid /\ mid <= high /\ mid \in Int
          /\ Narrows(keys, t, low, high, s[3])
      BY <1>2
    <3>2. u \in S /\ u = (IF keys[mid] >= t THEN <<low, mid - 1, mid>> ELSE <<mid + 1, high, s[3]>>)
      BY <1>3
    <3>3. m[s] = high - low + 1 /\ m[u] = u[2] - u[1] + 1
      <4> HIDE DEF u
      <4> QED BY <3>2
    <3> HIDE DEF low, high, mid, u, S, B, m, nx, Mid
    <3>4. low \in 1..(n + 1) /\ high \in 0..n /\ mid \in 1..n
      BY <1>1, <3>1 DEF Narrows, n
    <3>5. keys[mid] \in Int /\ \A i \in 1..n : keys[i] \in Int
      BY <3>4 DEF n
    <3>6. ASSUME keys[mid] >= t PROVE u \in I /\ m[u] < m[s]
      <4>1. u[1] = low /\ u[2] = mid - 1 /\ u[3] = mid
        BY <3>2, <3>6
      <4>2. \A i \in 1..n : i > mid - 1 => keys[i] >= t
        <5> TAKE i \in 1..n
        <5> HAVE i > mid - 1
        <5>1. i = mid \/ mid < i
          BY <3>4
        <5>2. keys[mid] <= keys[i]
          <6>1. mid \in 1..Len(keys) /\ i \in 1..Len(keys)
            BY <3>4 DEF n
          <6>2. mid < i => keys[mid] < keys[i]
            BY <6>1 DEF Sorted
          <6>3. keys[mid] \in Int /\ keys[i] \in Int
            BY <3>5
          <6> QED BY <5>1, <6>2, <6>3
        <5> QED BY <3>5, <3>6, <5>2
      <4>3. Narrows(keys, t, low, mid - 1, mid)
        BY <1>1, <3>1, <3>4, <4>2 DEF Narrows, n
      <4>4. u \in I
        BY <3>2, <4>1, <4>3 DEF I
      <4> QED BY <3>1, <3>3, <4>1, <4>4
    <3>7. ASSUME ~(keys[mid] >= t) PROVE u \in I /\ m[u] < m[s]
      <4>1. u[1] = mid + 1 /\ u[2] = high /\ u[3] = s[3]
        BY <3>2, <3>7
      <4>2. \A i \in 1..n : i < mid + 1 => keys[i] < t
        <5> TAKE i \in 1..n
        <5> HAVE i < mid + 1
        <5>1. i = mid \/ i < mid
          BY <3>4
        <5>2. keys[i] <= keys[mid]
          <6>1. mid \in 1..Len(keys) /\ i \in 1..Len(keys)
            BY <3>4 DEF n
          <6>2. i < mid => keys[i] < keys[mid]
            BY <6>1 DEF Sorted
          <6>3. keys[mid] \in Int /\ keys[i] \in Int
            BY <3>5
          <6> QED BY <5>1, <6>2, <6>3
        <5> QED BY <3>5, <3>7, <5>2
      <4>3. Narrows(keys, t, mid + 1, high, s[3])
        BY <1>1, <3>1, <3>4, <4>2 DEF Narrows, n
      <4>4. u \in I
        BY <3>2, <4>1, <4>3 DEF I
      <4> QED BY <3>1, <3>3, <4>1, <4>4
    <3> QED BY <3>6, <3>7 DEF u
  <2>3. I \subseteq S
    OBVIOUS
  <2> HIDE DEF S, B, nx, m, I
  <2> QED BY <2>1, <2>2, <2>3 DEF Keeps
<1>9. start \in I
  <2>1. Narrows(keys, t, 1, n, n + 1)
    BY <1>1 DEF Narrows, n
  <2>2. start \in S /\ start[1] = 1 /\ start[2] = n /\ start[3] = n + 1
    BY <1>1
  <2> HIDE DEF start, S
  <2> QED BY <2>1, <2>2
<1>10. PICK e \in I \ B : search[start] = out[e]
  <2> HIDE DEF S, B, nx, out, search, m, I, start
  <2> QED BY <1>7, <1>8, <1>9, LoopEnds
<1>11. e \in S /\ ~(e[1] <= e[2]) /\ out[e] = e[3] /\ Narrows(keys, t, e[1], e[2], e[3])
  OBVIOUS
<1>12. e[1] \in Int /\ e[2] \in Int
  BY <1>2, <1>11
<1> HIDE DEF S, B, nx, out, search, m, I, start
<1>13. e[1] = e[2] + 1 /\ e[3] = e[2] + 1 /\ e[2] \in 0..n
  BY <1>1, <1>11, <1>12 DEF Narrows, n
<1>14. e[3] \in 1..(n + 1)
  BY <1>1, <1>13
<1>15. \A i \in 1..n : keys[i] >= t <=> i >= e[3]
  <2> TAKE i \in 1..n
  <2>1. i \in Int /\ keys[i] \in Int /\ (i < e[1] => keys[i] < t) /\ (i > e[2] => keys[i] >= t)
    BY <1>11 DEF Narrows, n
  <2> QED BY <1>12, <1>13, <2>1
<1> QED BY <1>0, <1>10, <1>11, <1>14, <1>15 DEF n
\* The iterator's snapshot is in order, and Seek on it finds its place.
LEMMA ListIterates ==
    ASSUME ListAssumption, ListTypes, Linked
    PROVE  List!SnapshotIsSorted
<1> DEFINE s == List!Snapshot
<1>1. Lists(s, DOMAIN model)
  BY SnapshotIs
<1>2. s \in Seq(List!Keys) /\ Len(s) \in Nat /\ Sorted(s) /\ RangeOf(s) = DOMAIN model
  BY <1>1 DEF Lists
<1>3. s \in Seq(Int) /\ List!Keys \subseteq Int
  BY <1>2 DEF List!Keys
<1> HIDE DEF s
<1>4. {s[i] : i \in 1..Len(s)} = DOMAIN model
  BY <1>2 DEF RangeOf
<1>5. \A i \in 1..(Len(s) - 1) : s[i] < s[i + 1]
  <2> TAKE i \in 1..(Len(s) - 1)
  <2>1. i \in 1..Len(s) /\ i + 1 \in 1..Len(s) /\ i < i + 1
    BY <1>2
  <2> QED BY <1>2, <2>1 DEF Sorted
<1>6. \A t \in List!Keys : \A i \in 1..Len(s) : s[i] >= t <=> i >= List!SeekPlace(s, t)
  BY <1>2, <1>3, SeekFinds
<1> QED BY <1>4, <1>5, <1>6 DEF s, List!SnapshotIsSorted

LEMMA SumUnique ==
    ASSUME NEW w, NEW n \in Nat, NEW f, NEW g, IsSum(f, w, n), IsSum(g, w, n)
    PROVE  f[n] = g[n]
<1> DEFINE Wrong == {k \in 0..n : f[k] # g[k]}
<1>1. Wrong = {}
  <2> SUFFICES ASSUME Wrong # {} PROVE FALSE
    OBVIOUS
  <2>1. PICK k \in Wrong : \A i \in Wrong : k <= i
    <3>1. Wrong \subseteq Nat
      OBVIOUS
    <3> HIDE DEF Wrong
    <3> QED BY <3>1, MinExists
  <2>2. /\ f[k] = IF k = 0 THEN 0 ELSE f[k - 1] + w[k]
        /\ g[k] = IF k = 0 THEN 0 ELSE g[k - 1] + w[k]
    BY DEF IsSum
  <2>3. k # 0 /\ k - 1 \in 0..n /\ k - 1 < k
    BY <2>1, <2>2
  <2>4. f[k - 1] = g[k - 1]
    BY <2>1, <2>3
  <2> QED BY <2>1, <2>2, <2>3, <2>4
<1> QED BY <1>1

\* The bytes are those of the nodes.
LEMMA ListCounts ==
    ASSUME ListAssumption, Counted
    PROVE  List!BytesAreExact
<1> DEFINE w == WeightOf(model, heights)
           Body(f) == [k \in 0..NumKeys |->
                         IF k = 0 THEN 0
                         ELSE f[k - 1] + (IF k \in DOMAIN model
                                          THEN model[k].size + NodeOverhead + heights[k] * List!PointerSize
                                          ELSE 0)]
           s == CHOOSE f : f = Body(f)
<1>1. NumKeys \in Nat
  BY DEF ListAssumption
<1>2. \A f : f = Body(f) <=> IsSum(f, w, NumKeys)
  <2> TAKE f
  <2>1. \A k \in 0..NumKeys : k # 0 =>
          w[k] = (IF k \in DOMAIN model THEN model[k].size + NodeOverhead + heights[k] * List!PointerSize ELSE 0)
    BY <1>1 DEF WeightOf
  <2> HIDE DEF w
  <2>2. Body(f) = [k \in 0..NumKeys |-> IF k = 0 THEN 0 ELSE f[k - 1] + w[k]]
    BY <2>1
  <2> HIDE DEF Body
  <2> QED BY <2>2 DEF IsSum
<1>3. \E f : f = Body(f)
  <2> HIDE DEF Body
  <2> QED BY <1>1, <1>2, SumExists
<1>4. s = Body(s)
  <2> HIDE DEF Body
  <2> QED BY <1>3
<1>5. IsSum(s, w, NumKeys)
  <2> HIDE DEF Body, s
  <2> QED BY <1>2, <1>4
<1>6. PICK g : IsSum(g, w, NumKeys) /\ SumOf(w, NumKeys) = g[NumKeys]
  BY <1>1, SumIs
<1>7. s[NumKeys] = SumOf(w, NumKeys)
  <2> HIDE DEF s, w
  <2> QED BY <1>1, <1>5, <1>6, SumUnique
<1>8. bytes = s[NumKeys] /\ length = Cardinality(DOMAIN model)
  <2> HIDE DEF s
  <2> QED BY <1>7 DEF Counted
<1>9. \A S : List!Cardinality(S) = Cardinality(S)
  BY DEF List!Cardinality, Cardinality
<1> QED BY <1>8, <1>9 DEF List!BytesAreExact

LEMMA WeightTypes ==
    ASSUME ListAssumption, NEW m, NEW hs, DOMAIN hs = DOMAIN m,
           \A k \in DOMAIN m : m[k].size \in Nat /\ hs[k] \in Nat
    PROVE  \A k \in 1..NumKeys : WeightOf(m, hs)[k] \in Nat
<1> TAKE k \in 1..NumKeys
<1>1. CASE k \in DOMAIN m
  <2>1. m[k].size \in Nat /\ hs[k] \in Nat /\ NodeOverhead \in Nat /\ hs[k] * 8 \in Nat
    BY <1>1 DEF ListAssumption
  <2>2. WeightOf(m, hs)[k] = m[k].size + NodeOverhead + hs[k] * 8
    BY <1>1 DEF WeightOf, List!PointerSize
  <2> QED BY <2>1, <2>2
<1>2. CASE k \notin DOMAIN m
  BY <1>2 DEF WeightOf
<1> QED BY <1>1, <1>2

LEMMA UpToFinite ==
    ASSUME NEW n \in Nat
    PROVE  IsFiniteSet(1..n) /\ Cardinality(1..n) = n
<1> DEFINE i0 == 1
<1>1. i0 \in Int
  OBVIOUS
<1>2. IsFiniteSet(i0..n) /\ Cardinality(i0..n) = IF i0 > n THEN 0 ELSE n - i0 + 1
  <2> HIDE DEF i0
  <2> QED BY <1>1, FS_Interval
<1> QED BY <1>2

\* Types of the list.
LEMMA ListTypeOK ==
    ASSUME ListAssumption, ListInv
    PROVE  List!TypeOK
<1>1. NumKeys \in Nat /\ List!Keys = 1..NumKeys /\ DOMAIN model \subseteq 1..NumKeys
  BY DEF ListAssumption, ListInv, ListTypes, List!Keys
<1>2. IsFiniteSet(1..NumKeys) /\ Cardinality(1..NumKeys) = NumKeys
  BY <1>1, UpToFinite
<1>3. length \in 0..NumKeys
  <2>1. IsFiniteSet(DOMAIN model) /\ Cardinality(DOMAIN model) <= NumKeys
    BY <1>1, <1>2, FS_Subset
  <2>2. Cardinality(DOMAIN model) \in Nat
    BY <2>1, FS_CardinalityType
  <2> QED BY <1>1, <2>1, <2>2 DEF ListInv, Counted
<1>4. bytes \in Nat
  <2>1. \A k \in DOMAIN model : model[k].size \in Nat /\ heights[k] \in Nat
    BY DEF ListInv, ListTypes, List!Links, ListAssumption
  <2>2. DOMAIN heights = DOMAIN model
    BY DEF ListInv, ListTypes
  <2>3. \A k \in 1..NumKeys : WeightOf(model, heights)[k] \in Nat
    BY <2>1, <2>2, WeightTypes
  <2>4. SumOf(WeightOf(model, heights), NumKeys) \in Nat
    BY <1>1, <2>3, SumType
  <2> QED BY <2>4 DEF ListInv, Counted
<1>5. height \in List!Links
  BY DEF ListInv, ListTypes
<1> QED BY <1>3, <1>4, <1>5 DEF ListInv, Linked, List!TypeOK
-----------------------------------------------------------------------------
\* The empty list.
LEMMA ListInit == List!Init => ListInv
<1> SUFFICES ASSUME List!Init PROVE ListInv
  OBVIOUS
<1>0. ListAssumption
  BY ListAssumption
<1>1. DOMAIN heights = {} /\ DOMAIN model = {} /\ entries = model /\ model = [k \in DOMAIN model |-> model[k]]
  BY DEF List!Init
<1>2. 1 \in List!Links /\ NumKeys \in Nat
  BY <1>0 DEF ListAssumption, List!Links
<1>3. ListTypes
  BY <1>1, <1>2 DEF List!Init, ListTypes
<1>4. \A l \in List!Links : Level(heights, l) = {0}
  BY <1>1 DEF Level, List!HeadNode
<1>5. next = [l \in List!Links |-> [n \in {0} |-> List!Nil]]
  BY DEF List!Init, List!HeadNode
<1>6. Linked
  <2>1. next \in [List!Links -> UNION {[S \cup {List!HeadNode} -> List!Keys \cup {List!Nil}] : S \in SUBSET List!Keys}]
    <3>1. [n \in {0} |-> List!Nil] \in [{} \cup {0} -> List!Keys \cup {List!Nil}]
      OBVIOUS
    <3>2. [n \in {0} |-> List!Nil] \in UNION {[S \cup {List!HeadNode} -> List!Keys \cup {List!Nil}] : S \in SUBSET List!Keys}
      BY <3>1 DEF List!HeadNode
    <3> QED BY <1>5, <3>2
  <2>2. \A l \in List!Links : IsNext({0}, 0, next[l][0])
    BY <1>5 DEF IsNext
  <2> QED BY <1>4, <1>5, <2>1, <2>2 DEF Linked
<1>7. Counted
  <2>1. \A k \in 1..NumKeys : WeightOf(model, heights)[k] = 0
    BY <1>1 DEF WeightOf
  <2>2. SumOf(WeightOf(model, heights), NumKeys) = 0
    <3> DEFINE w == WeightOf(model, heights)
    <3>1. PICK f : IsSum(f, w, NumKeys) /\ SumOf(w, NumKeys) = f[NumKeys]
      BY <1>2, SumIs
    <3> DEFINE z == [k \in 0..NumKeys |-> 0]
    <3>2. IsSum(z, w, NumKeys)
      <4>1. \A k \in 0..NumKeys : k # 0 => k \in 1..NumKeys /\ k - 1 \in 0..NumKeys
        BY <1>2
      <4>2. \A k \in 0..NumKeys : z[k] = IF k = 0 THEN 0 ELSE z[k - 1] + w[k]
        BY <2>1, <4>1
      <4>3. z = [k \in 0..NumKeys |-> z[k]]
        OBVIOUS
      <4> HIDE DEF z, w
      <4> QED BY <4>2, <4>3 DEF IsSum
    <3>3. z[NumKeys] = 0
      BY <1>2
    <3> HIDE DEF z, w
    <3>4. SumOf(w, NumKeys) = 0
      BY <1>2, <3>1, <3>2, <3>3, SumUnique
    <3> QED BY <3>4 DEF w
  <2>3. Cardinality({}) = 0
    BY FS_EmptySet
  <2> QED BY <1>1, <2>2, <2>3 DEF List!Init, Counted
<1> QED BY <1>3, <1>6, <1>7 DEF ListInv

\* So it is again after a flush.
LEMMA ListEmptied == List!Init' => ListInv'
BY ListInit, PTL
-----------------------------------------------------------------------------
\* The entry that a Put gives its key.
Given(k, e) == model' = [j \in DOMAIN model \cup {k} |-> IF j = k THEN e ELSE model[j]]

\* An entry that is replaced changes the bytes by the difference.
LEMMA ReplaceKeepsInv ==
    ASSUME ListAssumption, ListInv, NEW k \in List!Keys, k \in DOMAIN heights,
           NEW e, e.size \in Nat, Given(k, e), List!Replace(k, e)
    PROVE  ListInv'
<1>1. /\ UNCHANGED <<next, height, heights, length>>
      /\ entries' = [entries EXCEPT ![k] = e] /\ bytes' = bytes + e.size - entries[k].size
  BY DEF List!Replace
<1>2. DOMAIN model = DOMAIN heights /\ entries = model /\ model = [j \in DOMAIN model |-> model[j]]
      /\ DOMAIN heights \subseteq 1..NumKeys /\ NumKeys \in Nat
  BY DEF ListAssumption, ListInv, ListTypes, List!Keys
<1>3. DOMAIN model' = DOMAIN model /\ model' = [j \in DOMAIN model' |-> model'[j]]
      /\ \A j \in DOMAIN model : model'[j] = IF j = k THEN e ELSE model[j]
  BY <1>2 DEF Given
<1>4. entries' = model'
  BY <1>1, <1>2 DEF Given
<1>5. ListTypes'
  <2>1. \A j \in DOMAIN model : model[j].size \in Nat
    BY DEF ListInv, ListTypes
  <2>2. \A j \in DOMAIN model' : model'[j].size \in Nat
    BY <1>3, <2>1
  <2> QED BY <1>1, <1>2, <1>3, <1>4, <2>2 DEF ListInv, ListTypes
<1>6. Linked'
  <2>1. \A l : Level(heights', l) = Level(heights, l)
    BY <1>1
  <2> QED BY <1>1, <2>1 DEF ListInv, Linked
<1>7. Counted'
  <2> DEFINE w == WeightOf(model, heights)
             v == WeightOf(model', heights')
  <2>1. /\ \A j \in DOMAIN model : model[j].size \in Nat /\ heights[j] \in Nat
        /\ \A j \in DOMAIN model' : model'[j].size \in Nat /\ heights'[j] \in Nat
        /\ DOMAIN heights' = DOMAIN model'
    BY <1>1, <1>2, <1>3 DEF ListInv, ListTypes, List!Links
  <2>2. (\A j \in 1..NumKeys : w[j] \in Nat) /\ (\A j \in 1..NumKeys : v[j] \in Nat)
    BY <1>2, <2>1, WeightTypes
  <2>3. \A j \in 1..NumKeys : j # k => v[j] = w[j]
    BY <1>1, <1>3 DEF WeightOf
  <2>4. k \in 1..NumKeys /\ k \in DOMAIN model /\ k \in DOMAIN model'
    BY <1>2, <1>3
  <2>5. SumOf(v, NumKeys) = SumOf(w, NumKeys) + v[k] - w[k]
    <3> HIDE DEF v, w
    <3> QED BY <1>2, <2>2, <2>3, <2>4, SumChanges
  <2>6. v[k] - w[k] = e.size - model[k].size
    <3> DEFINE c == heights[k] * List!PointerSize
    <3>1. w[k] = model[k].size + NodeOverhead + c /\ v[k] = e.size + NodeOverhead + c
      BY <1>1, <1>3, <2>4 DEF WeightOf
    <3>2. c \in Nat
      BY <2>1, <2>4 DEF List!PointerSize
    <3>3. model[k].size \in Nat /\ NodeOverhead \in Nat
      BY <2>1, <2>4 DEF ListAssumption
    <3> HIDE DEF c, v, w
    <3> QED BY <3>1, <3>2, <3>3
  <2>7. bytes = SumOf(w, NumKeys) /\ length = Cardinality(DOMAIN model)
    BY DEF ListInv, Counted
  <2>8. w[k] \in Nat /\ v[k] \in Nat /\ SumOf(w, NumKeys) \in Nat /\ model[k].size \in Nat
    <3> HIDE DEF v, w
    <3> QED BY <1>2, <2>1, <2>2, <2>4, SumType
  <2>9. bytes' = SumOf(v, NumKeys)
    <3> HIDE DEF v, w
    <3> QED BY <1>1, <1>2, <2>5, <2>6, <2>7, <2>8
  <2> QED BY <1>1, <1>3, <2>7, <2>9 DEF Counted
<1> QED BY <1>5, <1>6, <1>7 DEF ListInv

\* A node between m and what followed it leaves the list in order.
LEMMA LinkBehind ==
    ASSUME NEW N \in Nat, List!Nil = N + 1, NEW S \in SUBSET (0..N), NEW nx,
           \A n \in S : IsNext(S, n, nx[n]), NEW k \in 1..N, k \notin S, NEW p, IsPrev(S, k, p),
           NEW n \in S \cup {k}
    PROVE  IsNext(S \cup {k}, n, IF n = k THEN nx[p] ELSE IF n = p THEN k ELSE nx[n])
<1>1. /\ p \in S /\ p \in Int /\ p < k /\ \A j \in S : j < k => j <= p
      /\ k \in Int /\ n \in Int /\ \A j \in S : j \in Int
  BY DEF IsPrev
<1>2. CASE n = k
  <2>1. IsNext(S, p, nx[p])
    BY <1>1
  <2>2. \A j \in S : j > p <=> j > k
    BY <1>1
  <2> DEFINE q == nx[p]
  <2>3. /\ \A j \in S \cup {k} : j > k => j \in S /\ j > p
        /\ \A j \in S : j > p => j \in S \cup {k} /\ j > k
    BY <1>1, <2>2
  <2>4. IsNext(S, p, q)
    BY <2>1
  <2> HIDE DEF q
  <2>5. IsNext(S \cup {k}, k, q)
    <3>1. CASE \E j \in S : j > p
      <4>1. q \in S /\ q > p /\ \A j \in S : j > p => q <= j
        BY <2>4, <3>1 DEF IsNext
      <4>2. q \in S \cup {k} /\ q > k /\ \A j \in S \cup {k} : j > k => q <= j
        BY <2>3, <4>1
      <4>3. \E j \in S \cup {k} : j > k
        BY <4>2
      <4> QED BY <4>2, <4>3 DEF IsNext
    <3>2. CASE ~\E j \in S : j > p
      <4>1. q = List!Nil
        BY <2>4, <3>2 DEF IsNext
      <4>2. ~\E j \in S \cup {k} : j > k
        BY <2>3, <3>2
      <4> QED BY <4>1, <4>2 DEF IsNext
    <3> QED BY <3>1, <3>2
  <2>6. q = IF n = k THEN nx[p] ELSE IF n = p THEN k ELSE nx[n]
    BY <1>2 DEF q
  <2> QED BY <1>2, <2>5, <2>6
<1>3. CASE n = p
  <2>1. \A j \in S \cup {k} : j > p => k <= j
    BY <1>1
  <2> QED BY <1>1, <1>3, <2>1 DEF IsNext
<1>4. CASE n # k /\ n # p
  <2>1. n \in S /\ IsNext(S, n, nx[n])
    BY <1>4
  <2>2. CASE n < k
    <3>1. n < p
      BY <1>1, <1>4, <2>1, <2>2
    <3>2. nx[n] \in S /\ nx[n] > n /\ \A j \in S : j > n => nx[n] <= j
      BY <1>1, <2>1, <3>1 DEF IsNext
    <3>3. nx[n] <= k
      <4>1. nx[n] \in Int /\ nx[n] <= p
        BY <1>1, <3>1, <3>2
      <4> QED BY <1>1, <4>1
    <3> QED BY <1>4, <2>2, <3>2, <3>3 DEF IsNext
  <2>3. CASE n > k
    BY <1>4, <2>1, <2>3 DEF IsNext
  <2> QED BY <1>4, <2>1, <2>2, <2>3
<1> QED BY <1>2, <1>3, <1>4

\* A new node is linked on each of its levels.
LEMMA InsertLinks ==
    ASSUME ListAssumption, ListInv, NEW k \in List!Keys, k \notin DOMAIN heights,
           NEW e, NEW h \in List!Links, List!Insert(k, e, h)
    PROVE  Linked'
<1> DEFINE update == List!Update(k)
<1>1. /\ next' = [l \in List!Links |->
            IF l > h THEN next[l]
            ELSE [n \in DOMAIN next[l] \cup {k} |->
                    IF n = k THEN next[l][update[l]]
                    ELSE IF n = update[l] THEN k
                    ELSE next[l][n]]]
      /\ heights' = [j \in DOMAIN heights \cup {k} |-> IF j = k THEN h ELSE heights[j]]
  BY DEF List!Insert
<1>2. /\ NumKeys \in Nat /\ k \in 1..NumKeys /\ List!Nil = NumKeys + 1 /\ List!HeadNode = 0
      /\ List!Keys = 1..NumKeys /\ List!Links = 1..MaxHeight /\ h \in 1..MaxHeight
  BY DEF ListAssumption, List!Keys, List!Nil, List!HeadNode, List!Links
<1>3. \A l \in List!Links : IsPrev(Level(heights, l), k, update[l])
  BY UpdateIs DEF ListInv
<1> HIDE DEF update
<1>4. \A l \in List!Links : /\ DOMAIN next[l] = Level(heights, l)
                            /\ Level(heights, l) \subseteq 0..NumKeys /\ k \notin Level(heights, l)
                            /\ 0 \in Level(heights, l)
                            /\ \A n \in Level(heights, l) : next[l][n] \in List!Keys \cup {List!Nil}
                            /\ \A n \in Level(heights, l) : IsNext(Level(heights, l), n, next[l][n])
  <2> TAKE l \in List!Links
  <2>1. Level(heights, l) \subseteq 0..NumKeys /\ k \notin Level(heights, l) /\ 0 \in Level(heights, l)
    BY <1>2, LevelTypes DEF ListInv, Level
  <2>2. DOMAIN next[l] = Level(heights, l)
        /\ \A n \in Level(heights, l) : IsNext(Level(heights, l), n, next[l][n])
    BY DEF ListInv, Linked
  <2>4. next[l] \in UNION {[S \cup {List!HeadNode} -> List!Keys \cup {List!Nil}] : S \in SUBSET List!Keys}
    BY DEF ListInv, Linked
  <2>3. PICK S \in SUBSET List!Keys : next[l] \in [S \cup {List!HeadNode} -> List!Keys \cup {List!Nil}]
    BY <2>4
  <2> QED BY <2>1, <2>2, <2>3
<1>5. ASSUME NEW l \in List!Links, l > h
      PROVE  Level(heights', l) = Level(heights, l) /\ next'[l] = next[l]
  <2>1. next'[l] = next[l]
    BY <1>1, <1>5
  <2>2. Level(heights', l) = Level(heights, l)
    BY <1>1, <1>2, <1>5 DEF Level
  <2> QED BY <2>1, <2>2
<1>6. ASSUME NEW l \in List!Links, ~(l > h)
      PROVE  /\ Level(heights', l) = Level(heights, l) \cup {k}
             /\ next'[l] = [n \in Level(heights, l) \cup {k} |->
                              IF n = k THEN next[l][update[l]]
                              ELSE IF n = update[l] THEN k ELSE next[l][n]]
  <2>1. h >= l
    BY <1>2, <1>6
  <2>2. Level(heights', l) = Level(heights, l) \cup {k}
    BY <1>1, <2>1 DEF Level
  <2>3. next'[l] = [n \in Level(heights, l) \cup {k} |->
                              IF n = k THEN next[l][update[l]]
                              ELSE IF n = update[l] THEN k ELSE next[l][n]]
    BY <1>1, <1>4, <1>6
  <2> QED BY <2>2, <2>3
<1>7. ASSUME NEW l \in List!Links
      PROVE  /\ next'[l] \in UNION {[S \cup {List!HeadNode} -> List!Keys \cup {List!Nil}] : S \in SUBSET List!Keys}
             /\ DOMAIN next'[l] = Level(heights', l)
             /\ \A n \in Level(heights', l) : IsNext(Level(heights', l), n, next'[l][n])
  <2>1. CASE l > h
    <3>1. next[l] \in UNION {[S \cup {List!HeadNode} -> List!Keys \cup {List!Nil}] : S \in SUBSET List!Keys}
      BY DEF ListInv, Linked
    <3> QED BY <1>4, <1>5, <2>1, <3>1
  <2>2. CASE ~(l > h)
    <3> DEFINE S == Level(heights, l)
               p == update[l]
               nx == next[l]
    <3>1. /\ S \subseteq 0..NumKeys /\ k \notin S /\ 0 \in S /\ IsPrev(S, k, p)
          /\ \A n \in S : nx[n] \in List!Keys \cup {List!Nil}
          /\ \A n \in S : IsNext(S, n, nx[n])
          /\ Level(heights', l) = S \cup {k}
          /\ next'[l] = [n \in S \cup {k} |-> IF n = k THEN nx[p] ELSE IF n = p THEN k ELSE nx[n]]
      BY <1>3, <1>4, <1>6, <2>2
    <3> HIDE DEF S, p, nx
    <3>2. \A n \in S \cup {k} : IsNext(S \cup {k}, n, IF n = k THEN nx[p] ELSE IF n = p THEN k ELSE nx[n])
      <4> TAKE n \in S \cup {k}
      <4>1. S \in SUBSET (0..NumKeys) /\ (\A i \in S : IsNext(S, i, nx[i])) /\ k \notin S /\ IsPrev(S, k, p)
        BY <3>1
      <4>2. NumKeys \in Nat /\ List!Nil = NumKeys + 1 /\ k \in 1..NumKeys
        BY <1>2
      <4> QED BY <4>1, <4>2, LinkBehind
    <3>3. p \in S
      BY <3>1 DEF IsPrev
    <3>4. next'[l] \in [S \cup {k} -> List!Keys \cup {List!Nil}]
      BY <1>2, <3>1, <3>3
    <3>5. /\ S \cup {k} = (((S \cup {k}) \ {0}) \cup {List!HeadNode})
          /\ (S \cup {k}) \ {0} \in SUBSET List!Keys
      BY <1>2, <3>1
    <3>6. next'[l] \in UNION {[T \cup {List!HeadNode} -> List!Keys \cup {List!Nil}] : T \in SUBSET List!Keys}
      <4> DEFINE T == (S \cup {k}) \ {0}
      <4>1. T \in SUBSET List!Keys /\ next'[l] \in [T \cup {List!HeadNode} -> List!Keys \cup {List!Nil}]
        BY <3>4, <3>5
      <4> HIDE DEF T
      <4> QED BY <4>1
    <3>7. \A n \in S \cup {k} : IsNext(S \cup {k}, n, next'[l][n])
      <4> TAKE n \in S \cup {k}
      <4>1. next'[l][n] = IF n = k THEN nx[p] ELSE IF n = p THEN k ELSE nx[n]
        BY <3>1
      <4> QED BY <3>2, <4>1
    <3>8. DOMAIN next'[l] = S \cup {k}
      BY <3>1
    <3> QED BY <3>1, <3>6, <3>7, <3>8
  <2> QED BY <2>1, <2>2
<1>8. next' = [l \in List!Links |-> next'[l]]
  BY <1>1
<1>9. next' \in [List!Links -> UNION {[S \cup {List!HeadNode} -> List!Keys \cup {List!Nil}] : S \in SUBSET List!Keys}]
  BY <1>7, <1>8
<1> QED BY <1>7, <1>9 DEF Linked

\* With a new node, the list has one more key and the bytes of it.
LEMMA InsertKeepsInv ==
    ASSUME ListAssumption, ListInv, NEW k \in List!Keys, k \notin DOMAIN heights,
           NEW e, e.size \in Nat, NEW h \in List!Links, Given(k, e), List!Insert(k, e, h)
    PROVE  ListInv'
<1>1. /\ entries' = [j \in DOMAIN entries \cup {k} |-> IF j = k THEN e ELSE entries[j]]
      /\ heights' = [j \in DOMAIN heights \cup {k} |-> IF j = k THEN h ELSE heights[j]]
      /\ height' = (IF h > height THEN h ELSE height)
      /\ length' = length + 1 /\ bytes' = bytes + e.size + NodeOverhead + h * List!PointerSize
  BY DEF List!Insert
<1>2. /\ DOMAIN model = DOMAIN heights /\ entries = model /\ NumKeys \in Nat
      /\ DOMAIN heights \subseteq 1..NumKeys /\ List!Keys = 1..NumKeys
      /\ List!Links = 1..MaxHeight /\ MaxHeight \in Nat /\ height \in 1..MaxHeight
      /\ \A j \in DOMAIN heights : heights[j] \in 1..height
      /\ \A j \in DOMAIN model : model[j].size \in Nat
  BY DEF ListAssumption, ListInv, ListTypes, List!Keys, List!Links
<1>3. /\ DOMAIN model' = DOMAIN model \cup {k} /\ model' = [j \in DOMAIN model' |-> model'[j]]
      /\ DOMAIN heights' = DOMAIN model' /\ entries' = model'
      /\ \A j \in DOMAIN model' : /\ model'[j] = (IF j = k THEN e ELSE model[j])
                                  /\ heights'[j] = (IF j = k THEN h ELSE heights[j])
  BY <1>1, <1>2 DEF Given
<1>4. ListTypes'
  <2>1. height' \in List!Links /\ height' >= height /\ height' >= h
    BY <1>1, <1>2
  <2>2. \A j \in DOMAIN heights' : heights'[j] \in 1..height'
    <3> TAKE j \in DOMAIN heights'
    <3>1. CASE j = k
      BY <1>2, <1>3, <2>1, <3>1
    <3>2. CASE j # k
      <4>1. heights'[j] = heights[j] /\ heights[j] \in 1..height
        BY <1>2, <1>3, <3>2
      <4> QED BY <1>2, <2>1, <4>1
    <3> QED BY <3>1, <3>2
  <2>3. \A j \in DOMAIN model' : model'[j].size \in Nat
    BY <1>2, <1>3
  <2>4. DOMAIN heights' \subseteq List!Keys
    BY <1>2, <1>3
  <2> QED BY <1>3, <2>1, <2>2, <2>3, <2>4 DEF ListTypes
<1>5. Linked'
  BY InsertLinks
<1>6. Counted'
  <2> DEFINE w == WeightOf(model, heights)
             v == WeightOf(model', heights')
             c == h * List!PointerSize
  <2>1. /\ \A j \in DOMAIN model : model[j].size \in Nat /\ heights[j] \in Nat
        /\ \A j \in DOMAIN model' : model'[j].size \in Nat /\ heights'[j] \in Nat
    BY <1>2, <1>3
  <2>2. (\A j \in 1..NumKeys : w[j] \in Nat) /\ (\A j \in 1..NumKeys : v[j] \in Nat)
    BY <1>2, <1>3, <2>1, WeightTypes
  <2>3. \A j \in 1..NumKeys : j # k => v[j] = w[j]
    BY <1>3 DEF WeightOf
  <2>4. k \in 1..NumKeys /\ k \notin DOMAIN model /\ k \in DOMAIN model'
    BY <1>2, <1>3
  <2>5. SumOf(v, NumKeys) = SumOf(w, NumKeys) + v[k] - w[k]
    <3> HIDE DEF v, w
    <3> QED BY <1>2, <2>2, <2>3, <2>4, SumChanges, SMTT(30)
  <2>6. w[k] = 0 /\ v[k] = e.size + NodeOverhead + c
    BY <1>3, <2>4 DEF WeightOf
  <2>7. bytes = SumOf(w, NumKeys) /\ length = Cardinality(DOMAIN model)
    BY DEF ListInv, Counted
  <2>8. SumOf(w, NumKeys) \in Nat /\ NodeOverhead \in Nat /\ c \in Nat
    <3>1. SumOf(w, NumKeys) \in Nat
      <4> HIDE DEF w
      <4> QED BY <1>2, <2>2, SumType
    <3> QED BY <1>2, <3>1 DEF ListAssumption, List!PointerSize
  <2>9. bytes' = SumOf(v, NumKeys)
    <3> HIDE DEF v, w, c
    <3>1. bytes' = bytes + e.size + NodeOverhead + c
      BY <1>1 DEF c
    <3> QED BY <2>5, <2>6, <2>7, <2>8, <3>1
  <2>10. Cardinality(DOMAIN model') = Cardinality(DOMAIN model) + 1
    <3>1. IsFiniteSet(1..NumKeys)
      BY <1>2, UpToFinite
    <3>2. IsFiniteSet(DOMAIN model)
      BY <1>2, <3>1, FS_Subset
    <3> QED BY <1>3, <2>4, <3>2, FS_AddElement
  <2> HIDE DEF w, v, c
  <2>11. length' = Cardinality(DOMAIN model')
    BY <1>1, <2>7, <2>10
  <2> QED BY <2>9, <2>11 DEF Counted, v
<1> QED BY <1>4, <1>5, <1>6 DEF ListInv

LEMMA PutKeepsInv ==
    ASSUME ListAssumption, ListInv, NEW k \in List!Keys, NEW size \in Sizes, NEW h \in List!Links,
           List!Put(k, size, h)
    PROVE  ListInv'
<1> DEFINE e == [num |-> puts + 1, size |-> size]
<1>1. Given(k, e) /\ e.size \in Nat
  BY DEF List!Put, Given, ListAssumption
<1>2. List!Candidate(k) = k <=> k \in DOMAIN heights
  BY CandidateIs DEF ListInv
<1>3. \/ k \in DOMAIN heights /\ List!Replace(k, e)
      \/ k \notin DOMAIN heights /\ List!Insert(k, e, h)
  BY <1>2 DEF List!Put
<1> HIDE DEF e
<1> QED BY <1>1, <1>3, ReplaceKeepsInv, InsertKeepsInv
-----------------------------------------------------------------------------
\* The table.  Every key of A is before every key of B.
Below(A, B) == \A a \in A, b \in B : a < b

Ordered(s) == s \in Seq(List!Keys) /\ Sorted(s)

Stages  == {"none", "building", "open", "closed", "refused"}
Damages == {"none", "cut", "zeros"}

\* What the table has of its builder at each stage, and where an iterator may stand.
TableTypes ==
    /\ stage \in Stages /\ damage \in Damages
    /\ Table!Has \subseteq List!Keys
    /\ stage = "none" => input = <<>> /\ blocks = <<>>
    /\ stage # "none" => hash \in [List!Keys -> Nat \X Nat]
    /\ stage \in {"none", "building"} => iter = Table!NoBlock /\ from = 0 /\ damage = "none"
    /\ stage # "building" => currBlock = <<>> /\ input = <<>>
    /\ Ordered(currBlock) /\ Ordered(input)
    /\ blocks \in Seq(Seq(List!Keys))
    /\ \A b \in 1..Len(blocks) : blocks[b] # <<>> /\ Ordered(blocks[b])
    /\ from \in Nat /\ iter \in [block : 0..Len(blocks), entry : Nat]
    /\ iter.block # 0 => iter.entry # 0

\* The keys of the table are in its blocks, in the block being filled and in the
\* input, one after the other.
KeysOf(b) == RangeOf(blocks[b])

Divided ==
    /\ \A b, c \in 1..Len(blocks) : b < c => Below(KeysOf(b), KeysOf(c))
    /\ \A b \in 1..Len(blocks) : Below(KeysOf(b), RangeOf(currBlock)) /\ Below(KeysOf(b), RangeOf(input))
    /\ Below(RangeOf(currBlock), RangeOf(input))
    /\ Table!Has = (UNION {KeysOf(b) : b \in 1..Len(blocks)}) \cup RangeOf(currBlock) \cup RangeOf(input)

\* The index has the first key of each block, unless it was read as zeros.
Indexed ==
    /\ index \in Seq(List!Keys \cup {0}) /\ Len(index) <= Len(blocks)
    /\ damage # "zeros" =>
          Len(index) = Len(blocks) /\ \A b \in 1..Len(blocks) : index[b] = blocks[b][1]

\* The filter and the range admit the keys that were added.
Added == Table!Has \ RangeOf(input)

Admitted ==
    /\ bits \subseteq 0..(Bits - 1)
    /\ damage # "zeros" => \A k \in Added : Table!BitsOf(k) \subseteq bits
    /\ minKey \in List!Keys \cup {0} /\ maxKey \in List!Keys \cup {0}
    /\ minKey = 0 => Added = {}
    /\ \A k \in Added : minKey <= k /\ k <= maxKey

\* While the reader is open, its iterators are where they should be.
Iterating == stage = "open" /\ damage # "zeros" => Table!IteratesAll

TableInv == TableTypes /\ Divided /\ Indexed /\ Admitted /\ Iterating

FlushInv == ListInv /\ TableInv
-----------------------------------------------------------------------------
\* Taking the first key of the input.
LEMMA OrderedTail ==
    ASSUME NEW s, Ordered(s), s # <<>>
    PROVE  /\ Head(s) \in List!Keys /\ Ordered(Tail(s))
           /\ RangeOf(s) = RangeOf(Tail(s)) \cup {Head(s)}
           /\ \A j \in RangeOf(Tail(s)) : Head(s) < j
<1> DEFINE u == Tail(s)
           n == Len(s)
<1>1. s \in Seq(List!Keys) /\ n \in Nat /\ n # 0 /\ Sorted(s)
  BY DEF Ordered
<1>2. /\ u \in Seq(List!Keys) /\ Len(u) = n - 1 /\ \A i \in 1..(n - 1) : u[i] = s[i + 1]
      /\ Head(s) = s[1] /\ s[1] \in List!Keys
  BY <1>1
<1>3. \A i \in 1..(n - 1) : i \in 1..n /\ i + 1 \in 1..n /\ 1 < i + 1
  BY <1>1
<1>4. 1 \in 1..n /\ \A i \in 1..n : i # 1 => i - 1 \in 1..(n - 1) /\ (i - 1) + 1 = i
  BY <1>1
<1> HIDE DEF u
<1>5. Sorted(u)
  <2> SUFFICES ASSUME NEW i \in 1..(n - 1), NEW j \in 1..(n - 1), i < j PROVE u[i] < u[j]
    BY <1>2 DEF Sorted
  <2>1. i + 1 < j + 1
    BY <1>1
  <2>2. s[i + 1] < s[j + 1]
    BY <1>1, <1>3, <2>1 DEF Sorted
  <2> QED BY <1>2, <2>2
<1>6. RangeOf(s) = RangeOf(u) \cup {Head(s)}
  <2>1. \A x \in RangeOf(s) : x \in RangeOf(u) \cup {Head(s)}
    <3> TAKE x \in RangeOf(s)
    <3>1. PICK i \in 1..n : x = s[i]
      BY DEF RangeOf
    <3>2. CASE i = 1
      BY <1>2, <3>1, <3>2
    <3>3. CASE i # 1
      <4>1. i - 1 \in 1..Len(u) /\ u[i - 1] = x
        BY <1>2, <1>4, <3>1, <3>3
      <4> QED BY <4>1 DEF RangeOf
    <3> QED BY <3>2, <3>3
  <2>2. \A x \in RangeOf(u) : x \in RangeOf(s)
    BY <1>2, <1>3 DEF RangeOf
  <2>3. Head(s) \in RangeOf(s)
    BY <1>2, <1>4 DEF RangeOf
  <2> QED BY <2>1, <2>2, <2>3
<1>7. \A j \in RangeOf(u) : Head(s) < j
  <2> TAKE j \in RangeOf(u)
  <2>1. PICK i \in 1..(n - 1) : j = u[i]
    BY <1>2 DEF RangeOf
  <2>2. s[1] < s[i + 1]
    BY <1>1, <1>3, <1>4 DEF Sorted
  <2> QED BY <1>2, <2>1, <2>2
<1> QED BY <1>1, <1>2, <1>5, <1>6, <1>7 DEF Ordered, u

\* A list has no more places than keys.
LEMMA NoLonger ==
    ASSUME NEW s, Ordered(s), NEW A, IsFiniteSet(A), RangeOf(s) \subseteq A
    PROVE  Len(s) <= Cardinality(A)
<1> DEFINE n == Len(s)
           f == [i \in 1..n |-> s[i]]
<1>1. n \in Nat /\ \A i \in 1..n : s[i] \in Int
  <2>1. n \in Nat /\ \A i \in 1..n : s[i] \in List!Keys
    BY DEF Ordered
  <2> HIDE DEF n
  <2> QED BY <2>1 DEF List!Keys
<1>2. \A i, j \in 1..n : s[i] = s[j] => i = j
  <2> SUFFICES ASSUME NEW i \in 1..n, NEW j \in 1..n, s[i] = s[j], i < j PROVE FALSE
    BY <1>1
  <2> QED BY <1>1 DEF Ordered, Sorted
<1>3. f \in [1..n -> A]
  BY DEF RangeOf
<1>4. f \in Injection(1..n, A)
  <2>1. \A i, j \in DOMAIN f : f[i] = f[j] => i = j
    BY <1>2
  <2> HIDE DEF f
  <2> QED BY <1>3, <2>1 DEF Injection, IsInjective
<1>5. Cardinality(1..n) <= Cardinality(A)
  BY <1>4, FS_Injection
<1> QED BY <1>1, <1>5, UpToFinite

\* The binary search for the last block that may have a key.
Cuts(k, low, high, a) ==
    /\ low \in 1..(Len(index) + 1) /\ high \in 0..Len(index) /\ low <= high + 1 /\ a = low - 1
    /\ Sorted(index) =>
         \A i \in 1..Len(index) : (i < low => index[i] <= k) /\ (i > high => ~(index[i] <= k))

LEMMA CandidateFound ==
    ASSUME index \in Seq(Int), NEW k \in Int
    PROVE  /\ Table!FindCandidateBlock(k) \in 0..Len(index)
           /\ Sorted(index) => \A i \in 1..Len(index) : index[i] <= k <=> i <= Table!FindCandidateBlock(k)
<1> DEFINE Mid(s) == (s[1] + s[2]) \div 2
           S == Int \X Int \X Int
           B == {s \in S : s[1] <= s[2]}
           nx == [s \in S |-> IF index[Mid(s)] <= k THEN <<Mid(s) + 1, s[2], Mid(s)>>
                              ELSE <<s[1], Mid(s) - 1, s[3]>>]
           out == [s \in S |-> s[3]]
           Body(f) == [s \in S |-> IF s[1] > s[2] THEN s[3]
                         ELSE IF index[Mid(s)] <= k THEN f[<<Mid(s) + 1, s[2], Mid(s)>>]
                         ELSE f[<<s[1], Mid(s) - 1, s[3]>>]]
           search == CHOOSE f : f = Body(f)
           n == Len(index)
           I == {s \in S : Cuts(k, s[1], s[2], s[3])}
           m == [s \in S |-> s[2] - s[1] + 1]
           start == <<1, n, 0>>
<1>0. Table!FindCandidateBlock(k) = search[start]
  BY DEF Table!FindCandidateBlock
<1>1. n \in Nat
  OBVIOUS
<1> HIDE DEF n
<1>2. ASSUME NEW s \in S
      PROVE  /\ s = <<s[1], s[2], s[3]>> /\ s[1] \in Int /\ s[2] \in Int /\ s[3] \in Int
             /\ Mid(s) \in Int /\ (s[1] <= s[2] => s[1] <= Mid(s) /\ Mid(s) <= s[2])
  <2>1. s = <<s[1], s[2], s[3]>> /\ s[1] \in Int /\ s[2] \in Int /\ s[3] \in Int
    OBVIOUS
  <2> DEFINE a == s[1]
             b == s[2]
  <2>2. a \in Int /\ b \in Int
    BY <2>1
  <2> HIDE DEF a, b
  <2>3. (a + b) \div 2 \in Int /\ (a <= b => a <= (a + b) \div 2 /\ (a + b) \div 2 <= b)
    BY <2>2
  <2> QED BY <2>1, <2>3 DEF a, b
<1>3. ASSUME NEW s \in S
      PROVE  nx[s] \in S /\ nx[s] = (IF index[Mid(s)] <= k THEN <<Mid(s) + 1, s[2], Mid(s)>>
                                     ELSE <<s[1], Mid(s) - 1, s[3]>>)
  <2>1. nx[s] = (IF index[Mid(s)] <= k THEN <<Mid(s) + 1, s[2], Mid(s)>>
                 ELSE <<s[1], Mid(s) - 1, s[3]>>)
    OBVIOUS
  <2> HIDE DEF nx, Mid
  <2>2. nx[s] \in S
    BY <1>2, <2>1
  <2> HIDE DEF S
  <2> QED BY <2>1, <2>2
<1>4. \A f : Body(f) = [s \in S |-> IF s \in B THEN f[nx[s]] ELSE out[s]]
  <2> TAKE f
  <2>1. \A s \in S : (IF s[1] > s[2] THEN s[3]
                      ELSE IF index[Mid(s)] <= k THEN f[<<Mid(s) + 1, s[2], Mid(s)>>]
                      ELSE f[<<s[1], Mid(s) - 1, s[3]>>])
                   = (IF s \in B THEN f[nx[s]] ELSE out[s])
    <3> TAKE s \in S
    <3>1. s[1] > s[2] <=> s \notin B
      BY <1>2
    <3>2. out[s] = s[3]
      OBVIOUS
    <3> HIDE DEF Mid, nx, S, B, out
    <3> QED BY <1>3, <3>1, <3>2
  <2> HIDE DEF Mid, nx, S, B, out
  <2> QED BY <2>1
<1>5. \E f : f = [s \in S |-> IF s \in B THEN f[nx[s]] ELSE out[s]]
  <2>1. \A s \in S \cap B : nx[s] \in S
    BY <1>3
  <2> HIDE DEF S, B, nx, out
  <2>2. HasLoop(S, B, nx, out)
    BY <2>1, LoopExists
  <2> QED BY <2>2 DEF HasLoop
<1>6. search = Body(search)
  <2> HIDE DEF S, B, nx, out, Body
  <2> QED BY <1>4, <1>5
<1>7. IsLoop(search, S, B, nx, out)
  <2>1. search = [s \in S |-> IF s \in B THEN search[nx[s]] ELSE out[s]]
    <3> HIDE DEF S, B, nx, out, Body, search
    <3> QED BY <1>4, <1>6
  <2> HIDE DEF S, B, nx, out, search
  <2> QED BY <2>1 DEF IsLoop
<1>8. Keeps(I, S, B, nx, m)
  <2>1. \A s \in I : m[s] \in Nat
    <3> TAKE s \in I
    <3>1. s[1] \in Int /\ s[2] \in Int /\ s[1] <= s[2] + 1 /\ m[s] = s[2] - s[1] + 1
      BY <1>1, <1>2 DEF Cuts, n
    <3> HIDE DEF m, I
    <3> QED BY <3>1
  <2>2. \A s \in I \cap B : nx[s] \in I /\ m[nx[s]] < m[s]
    <3> TAKE s \in I \cap B
    <3> DEFINE low == s[1]
               high == s[2]
               mid == Mid(s)
               u == nx[s]
    <3>1. /\ s \in S /\ low \in Int /\ high \in Int /\ low <= mid /\ mid <= high /\ mid \in Int
          /\ Cuts(k, low, high, s[3])
      BY <1>2
    <3>2. u \in S /\ u = (IF index[mid] <= k THEN <<mid + 1, high, mid>> ELSE <<low, mid - 1, s[3]>>)
      BY <1>3
    <3>3. m[s] = high - low + 1 /\ m[u] = u[2] - u[1] + 1
      <4> HIDE DEF u
      <4> QED BY <3>2
    <3> HIDE DEF low, high, mid, u, S, B, m, nx, Mid
    <3>4. low \in 1..(n + 1) /\ high \in 0..n /\ mid \in 1..n
      BY <1>1, <3>1 DEF Cuts, n
    <3>5. index[mid] \in Int /\ \A i \in 1..n : index[i] \in Int
      BY <3>4 DEF n
    <3>6. ASSUME ~(index[mid] <= k) PROVE u \in I /\ m[u] < m[s]
      <4>1. u[1] = low /\ u[2] = mid - 1 /\ u[3] = s[3]
        BY <3>2, <3>6
      <4>2. Sorted(index) => \A i \in 1..n : i > mid - 1 => ~(index[i] <= k)
        <5> HAVE Sorted(index)
        <5> TAKE i \in 1..n
        <5> HAVE i > mid - 1
        <5>1. i = mid \/ mid < i
          BY <3>4
        <5>2. index[mid] <= index[i]
          <6>1. mid \in 1..Len(index) /\ i \in 1..Len(index)
            BY <3>4 DEF n
          <6>2. mid < i => index[mid] < index[i]
            BY <6>1 DEF Sorted
          <6>3. index[mid] \in Int /\ index[i] \in Int
            BY <3>5
          <6> QED BY <5>1, <6>2, <6>3
        <5> QED BY <3>5, <3>6, <5>2
      <4>3. Cuts(k, low, mid - 1, s[3])
        BY <1>1, <3>1, <3>4, <4>2 DEF Cuts, n
      <4>4. u \in I
        BY <3>2, <4>1, <4>3 DEF I
      <4> QED BY <3>1, <3>3, <4>1, <4>4
    <3>7. ASSUME index[mid] <= k PROVE u \in I /\ m[u] < m[s]
      <4>1. u[1] = mid + 1 /\ u[2] = high /\ u[3] = mid
        BY <3>2, <3>7
      <4>2. Sorted(index) => \A i \in 1..n : i < mid + 1 => index[i] <= k
        <5> HAVE Sorted(index)
        <5> TAKE i \in 1..n
        <5> HAVE i < mid + 1
        <5>1. i = mid \/ i < mid
          BY <3>4
        <5>2. index[i] <= index[mid]
          BY <3>4, <3>5, <5>1 DEF Sorted, n
        <5> QED BY <3>5, <3>7, <5>2
      <4>3. Cuts(k, mid + 1, high, mid)
        BY <1>1, <3>1, <3>4, <4>2 DEF Cuts, n
      <4>4. u \in I
        BY <3>2, <4>1, <4>3 DEF I
      <4> QED BY <3>1, <3>3, <4>1, <4>4
    <3> QED BY <3>6, <3>7 DEF u
  <2>3. I \subseteq S
    OBVIOUS
  <2> HIDE DEF S, B, nx, m, I
  <2> QED BY <2>1, <2>2, <2>3 DEF Keeps
<1>9. start \in I
  <2>1. Cuts(k, 1, n, 0)
    BY <1>1 DEF Cuts, n
  <2>2. start \in S /\ start[1] = 1 /\ start[2] = n /\ start[3] = 0
    BY <1>1
  <2> HIDE DEF start, S
  <2> QED BY <2>1, <2>2
<1>10. PICK e \in I \ B : search[start] = out[e]
  <2> HIDE DEF S, B, nx, out, search, m, I, start
  <2> QED BY <1>7, <1>8, <1>9, LoopEnds
<1>11. e \in S /\ ~(e[1] <= e[2]) /\ out[e] = e[3] /\ Cuts(k, e[1], e[2], e[3])
  OBVIOUS
<1>12. e[1] \in Int /\ e[2] \in Int
  BY <1>2, <1>11
<1> HIDE DEF S, B, nx, out, search, m, I, start
<1>13. e[1] = e[2] + 1 /\ e[3] = e[2] /\ e[2] \in 0..n
  BY <1>1, <1>11, <1>12 DEF Cuts, n
<1>15. Sorted(index) => \A i \in 1..n : index[i] <= k <=> i <= e[3]
  <2> HAVE Sorted(index)
  <2> TAKE i \in 1..n
  <2>1. i \in Int /\ (i < e[1] => index[i] <= k) /\ (i > e[2] => ~(index[i] <= k))
    BY <1>11 DEF Cuts, n
  <2> QED BY <1>12, <1>13, <2>1
<1> QED BY <1>0, <1>10, <1>11, <1>13, <1>15 DEF n
-----------------------------------------------------------------------------
LEMMA SameKeys ==
    /\ Table!Keys = List!Keys
    /\ \A S : Table!Cardinality(S) = Cardinality(S)
BY DEF Table!Keys, List!Keys, Table!Cardinality, Cardinality

\* A key in the table has a block and a place in it, once the builder has finished.
LEMMA InBlocks ==
    ASSUME TableTypes, Divided, stage \notin {"none", "building"}
    PROVE  /\ Table!Has = UNION {KeysOf(b) : b \in 1..Len(blocks)} /\ Added = Table!Has
           /\ \A k \in Table!Has : \E b \in 1..Len(blocks) : \E i \in 1..Len(blocks[b]) : k = blocks[b][i]
           /\ \A b \in 1..Len(blocks) : \A i \in 1..Len(blocks[b]) :
                blocks[b][i] \in Table!Has /\ blocks[b][i] \in KeysOf(b)
<1>1. currBlock = <<>> /\ input = <<>>
  BY DEF TableTypes
<1>2. RangeOf(currBlock) = {} /\ RangeOf(input) = {}
  BY <1>1 DEF RangeOf
<1>3. Table!Has = UNION {KeysOf(b) : b \in 1..Len(blocks)} /\ Added = Table!Has
  BY <1>2 DEF Divided, Added
<1> QED BY <1>3 DEF KeysOf, RangeOf

\* The blocks are lists of keys, and the first key of a block is its least.
LEMMA BlockTypes ==
    ASSUME TableTypes, NEW b \in 1..Len(blocks)
    PROVE  /\ blocks[b] \in Seq(List!Keys) /\ Ordered(blocks[b]) /\ Len(blocks[b]) \in Nat \ {0}
           /\ \A i \in 1..Len(blocks[b]) : blocks[b][i] \in List!Keys /\ blocks[b][1] <= blocks[b][i]
           /\ blocks[b][1] \in KeysOf(b) /\ blocks[b][1] \in List!Keys
<1>1. blocks[b] # <<>> /\ Ordered(blocks[b])
  BY DEF TableTypes
<1>2. blocks[b] \in Seq(List!Keys) /\ Len(blocks[b]) \in Nat \ {0} /\ Sorted(blocks[b])
  BY <1>1 DEF Ordered
<1>3. 1 \in 1..Len(blocks[b]) /\ \A i \in 1..Len(blocks[b]) : blocks[b][i] \in List!Keys
  BY <1>2
<1>4. \A i \in 1..Len(blocks[b]) : blocks[b][1] <= blocks[b][i]
  <2> TAKE i \in 1..Len(blocks[b])
  <2>1. blocks[b][1] \in Int
    BY <1>3 DEF List!Keys
  <2>2. CASE i = 1
    BY <2>1, <2>2
  <2>3. CASE i # 1
    <3>1. 1 < i
      BY <1>2, <2>3
    <3>2. blocks[b][1] < blocks[b][i]
      BY <1>2, <1>3, <3>1 DEF Sorted
    <3>3. blocks[b][i] \in Int
      BY <1>3 DEF List!Keys
    <3> QED BY <2>1, <3>2, <3>3
  <2> QED BY <2>2, <2>3
<1> QED BY <1>1, <1>2, <1>3, <1>4 DEF KeysOf, RangeOf

\* The index is in order as long as it was not read as zeros.
LEMMA IndexSorted ==
    ASSUME TableTypes, Divided, Indexed, damage # "zeros"
    PROVE  Sorted(index) /\ Len(index) = Len(blocks)
           /\ \A b \in 1..Len(blocks) : index[b] = blocks[b][1] /\ index[b] \in List!Keys
<1>1. Len(index) = Len(blocks) /\ \A b \in 1..Len(blocks) : index[b] = blocks[b][1]
  BY DEF Indexed
<1>2. \A b \in 1..Len(blocks) : blocks[b][1] \in KeysOf(b) /\ blocks[b][1] \in List!Keys
  BY BlockTypes
<1>3. \A b, c \in 1..Len(blocks) : b < c => blocks[b][1] < blocks[c][1]
  BY <1>2 DEF Divided, Below
<1> QED BY <1>1, <1>2, <1>3 DEF Sorted

LEMMA IndexType ==
    ASSUME Indexed
    PROVE  index \in Seq(Int) /\ Len(index) \in Nat
<1>1. List!Keys \cup {0} \subseteq Int
  BY DEF List!Keys
<1>2. index \in Seq(List!Keys \cup {0}) /\ Len(index) \in Nat
  BY DEF Indexed
<1> QED BY <1>1, <1>2

\* The block in which a key would be is the candidate.
LEMMA CandidateIsBlock ==
    ASSUME TableTypes, Divided, Indexed, damage # "zeros",
           NEW b \in 1..Len(blocks), NEW k \in KeysOf(b)
    PROVE  Table!FindCandidateBlock(k) = b
<1> DEFINE c == Table!FindCandidateBlock(k)
<1>1. PICK i \in 1..Len(blocks[b]) : k = blocks[b][i]
  BY DEF KeysOf, RangeOf
<1>2. k \in List!Keys /\ k \in Int /\ blocks[b][1] <= k
  BY <1>1, BlockTypes DEF List!Keys
<1>3. /\ c \in 0..Len(index) /\ \A d \in 1..Len(index) : index[d] <= k <=> d <= c
  BY <1>2, IndexType, IndexSorted, CandidateFound
<1>4. Len(index) = Len(blocks) /\ \A d \in 1..Len(blocks) : index[d] = blocks[d][1]
  BY IndexSorted
<1>5. Len(blocks) \in Nat
  BY IndexType, <1>4
<1> HIDE DEF c
<1>6. b <= c
  BY <1>2, <1>3, <1>4
<1>7. ~(b < c)
  <2> SUFFICES ASSUME b < c PROVE FALSE
    OBVIOUS
  <2>1. c \in 1..Len(blocks) /\ index[c] <= k
    <3>1. c \in 1..Len(blocks)
      BY <1>3, <1>4, <1>5
    <3> QED BY <1>3, <1>4, <3>1
  <2>2. blocks[c][1] \in KeysOf(c) /\ blocks[c][1] \in Int
    BY <2>1, BlockTypes DEF List!Keys
  <2>3. k < blocks[c][1]
    BY <2>1, <2>2 DEF Divided, Below
  <2> QED BY <1>2, <1>4, <2>1, <2>2, <2>3
<1>8. b = c
  BY <1>3, <1>5, <1>6, <1>7
<1> QED BY <1>8 DEF c

\* So a lookup finds exactly the keys of the table.
LEMMA TableLooksUp ==
    ASSUME TableTypes, Divided, Indexed, Admitted
    PROVE  Table!LookupsAreExact
<1> SUFFICES ASSUME stage \in {"open", "closed"}, NEW k \in List!Keys, NEW bypass \in BOOLEAN
             PROVE  /\ Table!Get(k, bypass) => k \in Table!Has
                    /\ k \in Table!Has /\ damage # "zeros" => Table!Get(k, bypass)
  BY SameKeys DEF Table!LookupsAreExact
<1> DEFINE c == Table!FindCandidateBlock(k)
<1>0. k \in Int /\ Len(blocks) \in Nat
  BY DEF List!Keys, TableTypes
<1>1. c \in 0..Len(index) /\ Len(index) <= Len(blocks) /\ Len(index) \in Nat
  BY <1>0, IndexType, CandidateFound DEF Indexed
<1>2. ASSUME Table!Get(k, bypass) PROVE k \in Table!Has
  <2>1. c # 0 /\ \E i \in 1..Len(blocks[c]) : blocks[c][i] = k
    BY <1>2 DEF Table!Get
  <2>2. c \in 1..Len(blocks)
    <3> HIDE DEF c
    <3> QED BY <1>0, <1>1, <2>1
  <2> QED BY <2>1, <2>2, InBlocks
<1>3. ASSUME k \in Table!Has, damage # "zeros" PROVE Table!Get(k, bypass)
  <2>1. PICK b \in 1..Len(blocks) : \E i \in 1..Len(blocks[b]) : blocks[b][i] = k
    BY <1>3, InBlocks
  <2>2. k \in KeysOf(b)
    BY <2>1 DEF KeysOf, RangeOf
  <2>3. c = b
    BY <1>3, <2>2, CandidateIsBlock
  <2>4. index[b] # 0 /\ b # 0
    BY <1>3, IndexSorted DEF List!Keys
  <2>5. k \in Added
    BY <1>3, InBlocks
  <2>6. ~(k < minKey) /\ ~(k > maxKey)
    <3>1. minKey \in Int /\ maxKey \in Int /\ minKey <= k /\ k <= maxKey
      BY <2>5 DEF Admitted, List!Keys
    <3> QED BY <1>0, <3>1
  <2>7. Table!MayContain(k)
    BY <1>3, <2>5 DEF Admitted, Table!MayContain
  <2> QED BY <2>1, <2>3, <2>4, <2>6, <2>7 DEF Table!Get
<1> QED BY <1>2, <1>3
-----------------------------------------------------------------------------
\* Iterators.  An iterator due at its first key from f on stands there, or has ended.
Stands(it, f) ==
    LET Left == {k \in Table!Has : k >= f}
    IN  IF Left = {} THEN ~Table!Valid(it)
        ELSE Table!Valid(it) /\ Table!KeyAt(it) = CHOOSE k \in Left : \A j \in Left : k <= j

\* Places are in the order of their keys.
LEMMA PlacesOrdered ==
    ASSUME TableTypes, Divided,
           NEW b \in 1..Len(blocks), NEW i \in 1..Len(blocks[b]),
           NEW c \in 1..Len(blocks), NEW j \in 1..Len(blocks[c])
    PROVE  blocks[b][i] < blocks[c][j] <=> b < c \/ (b = c /\ i < j)
<1>1. /\ blocks[b][i] \in Int /\ blocks[c][j] \in Int /\ b \in Int /\ c \in Int /\ i \in Int /\ j \in Int
      /\ Sorted(blocks[b]) /\ Len(blocks) \in Nat
  <2>1. blocks[b][i] \in List!Keys /\ blocks[c][j] \in List!Keys /\ Ordered(blocks[b])
    BY BlockTypes
  <2>2. Len(blocks) \in Nat
    BY DEF TableTypes
  <2>3. Len(blocks[b]) \in Nat /\ Len(blocks[c]) \in Nat
    BY BlockTypes
  <2>4. b \in Int /\ c \in Int /\ i \in Int /\ j \in Int
    BY <2>2, <2>3
  <2> QED BY <2>1, <2>2, <2>4 DEF List!Keys, Ordered
<1>2. blocks[b][i] \in KeysOf(b) /\ blocks[c][j] \in KeysOf(c)
  BY DEF KeysOf, RangeOf
<1>3. b < c => blocks[b][i] < blocks[c][j]
  BY <1>2 DEF Divided, Below
<1>4. c < b => blocks[c][j] < blocks[b][i]
  BY <1>2 DEF Divided, Below
<1>5. b = c /\ i < j => blocks[b][i] < blocks[c][j]
  BY <1>1 DEF Sorted
<1>6. b = c /\ j < i => blocks[c][j] < blocks[b][i]
  BY <1>1 DEF Sorted
<1>7. b = c /\ i = j => blocks[b][i] = blocks[c][j]
  OBVIOUS
<1>8. b < c \/ c < b \/ b = c
  BY <1>1
<1>9. i < j \/ j < i \/ i = j
  BY <1>1
<1> QED BY <1>1, <1>3, <1>4, <1>5, <1>6, <1>7, <1>8, <1>9

\* An iterator at the least key from f on stands right ...
LEMMA StandsAtLeast ==
    ASSUME TableTypes, Divided, stage \notin {"none", "building"}, NEW f \in Nat,
           NEW b \in 1..Len(blocks), NEW i \in 1..Len(blocks[b]), blocks[b][i] >= f,
           \A c \in 1..Len(blocks) : \A j \in 1..Len(blocks[c]) :
              blocks[c][j] >= f => blocks[b][i] <= blocks[c][j],
           NEW it, it.block = b, it.entry = i
    PROVE  Stands(it, f)
<1> DEFINE Left == {k \in Table!Has : k >= f}
           least == CHOOSE k \in Left : \A j \in Left : k <= j
           k0 == blocks[b][i]
<1>1. k0 \in Left /\ \A k \in Left : k0 <= k
  BY InBlocks
<1>2. Left \subseteq Int
  <2>1. Table!Has \subseteq Int
    BY DEF TableTypes, List!Keys
  <2> QED BY <2>1
<1>3. Table!Valid(it) /\ Table!KeyAt(it) = k0
  <2>1. b # 0 /\ i <= Len(blocks[b])
    BY BlockTypes DEF TableTypes
  <2> QED BY <2>1 DEF Table!Valid, Table!KeyAt
<1> HIDE DEF Left, k0
<1>4. least \in Left /\ \A j \in Left : least <= j
  BY <1>1
<1>5. least = k0
  <2> HIDE DEF least
  <2>1. least <= k0 /\ k0 <= least /\ least \in Int /\ k0 \in Int
    BY <1>1, <1>2, <1>4
  <2> QED BY <2>1
<1>6. Left # {}
  BY <1>1
<1> QED BY <1>3, <1>5, <1>6 DEF Stands, Left

\* ... and one at no block when there is none.
LEMMA StandsNowhere ==
    ASSUME TableTypes, Divided, stage \notin {"none", "building"}, NEW f \in Nat,
           \A c \in 1..Len(blocks) : \A j \in 1..Len(blocks[c]) : ~(blocks[c][j] >= f)
    PROVE  Stands(Table!NoBlock, f)
<1>1. {k \in Table!Has : k >= f} = {}
  BY InBlocks
<1>2. ~Table!Valid(Table!NoBlock)
  BY DEF Table!Valid, Table!NoBlock
<1> QED BY <1>1, <1>2 DEF Stands

LEMMA LoadsAll ==
    ASSUME TableTypes, Divided, Indexed, stage = "open", damage # "zeros"
    PROVE  /\ \A b : Table!Loads(b) <=> b \in 1..Len(blocks)
           /\ Len(index) = Len(blocks) /\ Len(blocks) \in Nat
           /\ index = <<>> <=> Len(blocks) = 0
<1>1. /\ Len(index) = Len(blocks) /\ Len(blocks) \in Nat
      /\ \A b \in 1..Len(blocks) : index[b] \in List!Keys
  BY IndexSorted DEF TableTypes
<1>2. \A b \in 1..Len(blocks) : index[b] # 0
  BY <1>1 DEF List!Keys
<1>3. index = <<>> <=> Len(index) = 0
  BY DEF Indexed
<1> QED BY <1>1, <1>2, <1>3 DEF Table!Loads

\* Of places there is a first.
LEMMA FirstExists ==
    ASSUME NEW P, P # {}, \A p \in P : p.block \in Nat /\ p.entry \in Nat
    PROVE  \E p \in P : \A q \in P : p.block < q.block \/ (p.block = q.block /\ p.entry <= q.entry)
<1> DEFINE Bs == {p.block : p \in P}
<1>1. PICK b \in Bs : \A c \in Bs : b <= c
  <2>1. Bs \in SUBSET Nat /\ Bs # {}
    OBVIOUS
  <2> HIDE DEF Bs
  <2> QED BY <2>1, MinExists
<1> DEFINE Es == {p.entry : p \in {q \in P : q.block = b}}
<1>2. PICK e \in Es : \A d \in Es : e <= d
  <2>1. Es \in SUBSET Nat /\ Es # {}
    BY <1>1
  <2> HIDE DEF Es
  <2> QED BY <2>1, MinExists
<1>3. PICK p \in P : p.block = b /\ p.entry = e
  BY <1>2
<1>4. ASSUME NEW q \in P PROVE p.block < q.block \/ (p.block = q.block /\ p.entry <= q.entry)
  <2>1. b <= q.block /\ b \in Nat /\ q.block \in Nat
    BY <1>1, <1>3
  <2>2. q.block = b => e <= q.entry
    BY <1>2
  <2> HIDE DEF Bs, Es
  <2> QED BY <1>3, <2>1, <2>2
<1> QED BY <1>4
-----------------------------------------------------------------------------
\* Steps of a finished table that leave its contents alone.
LEMMA IteratorStepKeeps ==
    ASSUME TableInv, UNCHANGED Table!built,
           stage \notin {"none", "building"}, stage' \in Stages \ {"none", "building"},
           from' \in Nat, iter' \in [block : 0..Len(blocks), entry : Nat],
           iter'.block # 0 => iter'.entry # 0,
           stage' = "open" /\ damage # "zeros" /\ from' # 0 => Stands(iter', from')
    PROVE  TableInv'
<1>1. /\ contents' = contents /\ input' = input /\ hash' = hash /\ currBlock' = currBlock
      /\ blocks' = blocks /\ index' = index /\ bits' = bits /\ damage' = damage
      /\ minKey' = minKey /\ maxKey' = maxKey
  BY DEF Table!built
<1>2. Table!Has' = Table!Has /\ \A k : Table!BitsOf(k)' = Table!BitsOf(k)
  BY <1>1 DEF Table!Has, Table!BitsOf
<1>3. TableTypes'
  <2>1. currBlock' = <<>> /\ input' = <<>>
    BY <1>1 DEF TableInv, TableTypes
  <2> QED BY <1>1, <1>2, <2>1 DEF TableInv, TableTypes
<1>4. Divided'
  <2>1. \A b : KeysOf(b)' = KeysOf(b)
    BY <1>1 DEF KeysOf
  <2> QED BY <1>1, <1>2, <2>1 DEF TableInv, Divided
<1>5. Indexed'
  BY <1>1 DEF TableInv, Indexed
<1>6. Admitted'
  BY <1>1, <1>2 DEF TableInv, Admitted, Added
<1>7. Iterating'
  <2> SUFFICES ASSUME stage' = "open", damage # "zeros", from' # 0 PROVE Table!IteratesAll'
    BY <1>1 DEF Iterating, Table!IteratesAll
  <2>1. Stands(iter', from')
    OBVIOUS
  <2> QED BY <1>1, <2>1 DEF Stands, Table!IteratesAll, Table!Valid, Table!KeyAt, Table!Has
<1> QED BY <1>3, <1>4, <1>5, <1>6, <1>7 DEF TableInv

LEMMA CloseKeepsInv == ASSUME TableInv, Table!Close PROVE TableInv'
<1>1. /\ UNCHANGED Table!built /\ stage = "open" /\ stage' = "closed" /\ iter' = iter /\ from' = from
  BY DEF Table!Close
<1>2. /\ from \in Nat /\ iter \in [block : 0..Len(blocks), entry : Nat]
      /\ iter.block # 0 => iter.entry # 0
  BY DEF TableInv, TableTypes
<1> QED BY <1>1, <1>2, IteratorStepKeeps DEF Stages

\* An iterator that is new stands on the first key of the table.
LEMMA NewIteratorKeepsInv == ASSUME TableInv, Table!NewIterator PROVE TableInv'
<1>1. /\ UNCHANGED Table!built /\ stage = "open" /\ stage' = "open" /\ from' = 1
      /\ index = <<>> \/ Table!Loads(1)
      /\ iter' = IF index = <<>> THEN Table!NoBlock ELSE [block |-> 1, entry |-> 1]
  BY DEF Table!NewIterator
<1>2. Len(blocks) \in Nat /\ Len(index) \in Nat /\ Len(index) <= Len(blocks)
  BY IndexType DEF TableInv, TableTypes, Indexed
<1>3. /\ iter' \in [block : 0..Len(blocks), entry : Nat] /\ (iter'.block # 0 => iter'.entry # 0)
  <2>1. CASE index = <<>>
    BY <1>1, <1>2, <2>1 DEF Table!NoBlock
  <2>2. CASE index # <<>>
    <3>1. 1 \in 1..Len(index)
      BY <1>1, <2>2 DEF Table!Loads
    <3> QED BY <1>1, <1>2, <2>2, <3>1
  <2> QED BY <2>1, <2>2
<1>4. ASSUME damage # "zeros" PROVE Stands(iter', 1)
  <2>1. TableTypes /\ Divided /\ Indexed
    BY DEF TableInv
  <2>2. index = <<>> <=> Len(blocks) = 0
    BY <1>1, <1>4, <2>1, LoadsAll
  <2>3. stage \notin {"none", "building"}
    BY <1>1
  <2>4. CASE Len(blocks) = 0
    <3>1. iter' = Table!NoBlock
      BY <1>1, <2>2, <2>4
    <3>2. \A c \in 1..Len(blocks) : \A j \in 1..Len(blocks[c]) : ~(blocks[c][j] >= 1)
      BY <2>4
    <3> QED BY <2>1, <2>3, <3>1, <3>2, StandsNowhere
  <2>5. CASE Len(blocks) # 0
    <3> DEFINE o == 1
    <3>1. iter' = [block |-> o, entry |-> o]
      BY <1>1, <2>2, <2>5
    <3>2. o \in 1..Len(blocks)
      BY <1>2, <2>5
    <3>3. o \in 1..Len(blocks[o])
      BY <2>1, <3>2, BlockTypes
    <3>4. blocks[o][o] \in List!Keys /\ o \in Nat
      BY <2>1, <3>2, <3>3, BlockTypes
    <3>5. blocks[o][o] >= o
      BY <3>4 DEF List!Keys
    <3>6. \A c \in 1..Len(blocks) : \A j \in 1..Len(blocks[c]) : blocks[o][o] <= blocks[c][j]
      <4> TAKE c \in 1..Len(blocks)
      <4> TAKE j \in 1..Len(blocks[c])
      <4>1. ~(c < o \/ (c = o /\ j < o))
        BY <1>2, <2>1, BlockTypes
      <4>2. ~(blocks[c][j] < blocks[o][o])
        <5> HIDE DEF o
        <5> QED BY <2>1, <3>2, <3>3, <4>1, PlacesOrdered
      <4>3. blocks[c][j] \in Int /\ blocks[o][o] \in Int
        <5>1. blocks[c][j] \in List!Keys
          BY <2>1, BlockTypes
        <5> QED BY <3>4, <5>1 DEF List!Keys
      <4> HIDE DEF o
      <4> QED BY <4>2, <4>3
    <3>7. iter'.block = o /\ iter'.entry = o
      BY <3>1
    <3> HIDE DEF o
    <3>8. Stands(iter', o)
      BY <2>1, <2>3, <3>2, <3>3, <3>4, <3>5, <3>6, <3>7, StandsAtLeast
    <3> QED BY <3>8 DEF o
  <2> QED BY <2>4, <2>5
<1> QED BY <1>1, <1>3, <1>4, IteratorStepKeeps DEF Stages

\* Next goes to the next place, in the block or at the beginning of the one that follows.
LEMMA IterNextKeepsInv == ASSUME TableInv, Table!IterNext PROVE TableInv'
<1> DEFINE b == iter.block
           i == iter.entry
<1>1. /\ UNCHANGED Table!built /\ stage' = stage /\ from # 0 /\ Table!Valid(iter)
      /\ from' = Table!KeyAt(iter) + 1
      /\ iter' = IF i < Len(blocks[b]) THEN [iter EXCEPT !.entry = @ + 1]
                 ELSE IF Table!Loads(b + 1) THEN [block |-> b + 1, entry |-> 1]
                 ELSE IF b = Len(index) THEN Table!NoBlock
                 ELSE [iter EXCEPT !.entry = @ + 1]
  BY DEF Table!IterNext
<1>2. TableTypes /\ Divided /\ Indexed
  BY DEF TableInv
<1>3. stage \in Stages \ {"none", "building"}
  BY <1>1, <1>2 DEF TableTypes
<1>4. iter \in [block : 0..Len(blocks), entry : Nat] /\ (b # 0 => i # 0)
      /\ Len(blocks) \in Nat /\ Len(index) \in Nat /\ Len(index) <= Len(blocks)
  BY <1>2, IndexType DEF TableTypes, Indexed
<1>5. b \in 1..Len(blocks) /\ i <= Len(blocks[b]) /\ i \in Nat /\ i # 0
  <2>1. b # 0 /\ i <= Len(blocks[b])
    BY <1>1 DEF Table!Valid
  <2>2. b \in 0..Len(blocks) /\ i \in Nat
    BY <1>4
  <2> QED BY <1>4, <2>1, <2>2
<1>6. i \in 1..Len(blocks[b]) /\ Len(blocks[b]) \in Nat
  BY <1>2, <1>5, BlockTypes
<1>7. Table!KeyAt(iter) = blocks[b][i] /\ blocks[b][i] \in List!Keys
  BY <1>2, <1>5, <1>6, BlockTypes DEF Table!KeyAt
<1>8. from' = blocks[b][i] + 1 /\ from' \in Nat /\ blocks[b][i] \in Int
  BY <1>1, <1>7 DEF List!Keys
<1>9. iter' \in [block : 0..Len(blocks), entry : Nat] /\ (iter'.block # 0 => iter'.entry # 0)
  <2>1. [iter EXCEPT !.entry = @ + 1] \in [block : 0..Len(blocks), entry : Nat]
        /\ [iter EXCEPT !.entry = @ + 1].entry # 0
    BY <1>4, <1>5
  <2>2. Table!Loads(b + 1) => b + 1 \in 0..Len(blocks)
    BY <1>4 DEF Table!Loads
  <2>3. Table!NoBlock \in [block : 0..Len(blocks), entry : Nat] /\ Table!NoBlock.block = 0
    BY <1>4 DEF Table!NoBlock
  <2> HIDE DEF b, i
  <2> QED BY <1>1, <2>1, <2>2, <2>3
<1>10. ASSUME stage' = "open", damage # "zeros" PROVE Stands(iter', from')
  <2>1. /\ \A c : Table!Loads(c) <=> c \in 1..Len(blocks)
        /\ Len(index) = Len(blocks)
    BY <1>1, <1>2, <1>10, LoadsAll
  <2>2. stage \notin {"none", "building"}
    BY <1>3
  <2>3. \A c \in 1..Len(blocks) : \A j \in 1..Len(blocks[c]) :
          blocks[c][j] >= from' <=> b < c \/ (b = c /\ i < j)
    <3> TAKE c \in 1..Len(blocks)
    <3> TAKE j \in 1..Len(blocks[c])
    <3>1. blocks[b][i] < blocks[c][j] <=> b < c \/ (b = c /\ i < j)
      BY <1>2, <1>5, <1>6, PlacesOrdered
    <3>2. blocks[c][j] \in Int
      <4>1. blocks[c][j] \in List!Keys
        BY <1>2, BlockTypes
      <4> QED BY <4>1 DEF List!Keys
    <3>3. blocks[b][i] < blocks[c][j] <=> blocks[c][j] >= from'
      BY <1>8, <3>2, SMTT(30)
    <3> QED BY <3>1, <3>3
  <2> DEFINE Due(c, j) == b < c \/ (b = c /\ i < j)
  <2>4. ASSUME NEW c \in 1..Len(blocks), NEW j \in 1..Len(blocks[c]), Due(c, j),
               \A d \in 1..Len(blocks) : \A l \in 1..Len(blocks[d]) :
                  Due(d, l) => ~(d < c \/ (d = c /\ l < j)),
               iter'.block = c, iter'.entry = j
        PROVE  Stands(iter', from')
    <3>1. blocks[c][j] >= from'
      BY <2>3, <2>4
    <3>2. \A d \in 1..Len(blocks) : \A l \in 1..Len(blocks[d]) :
            blocks[d][l] >= from' => blocks[c][j] <= blocks[d][l]
      <4> TAKE d \in 1..Len(blocks)
      <4> TAKE l \in 1..Len(blocks[d])
      <4> HAVE blocks[d][l] >= from'
      <4>1. Due(d, l)
        BY <2>3
      <4>2. ~(d < c \/ (d = c /\ l < j))
        <5> HIDE DEF Due
        <5> QED BY <2>4, <4>1
      <4>3. ~(blocks[d][l] < blocks[c][j])
        BY <1>2, <4>2, PlacesOrdered
      <4>4. blocks[d][l] \in List!Keys /\ blocks[c][j] \in List!Keys
        BY <1>2, BlockTypes
      <4> QED BY <4>3, <4>4 DEF List!Keys
    <3> HIDE DEF Due
    <3> QED BY <1>2, <1>8, <2>2, <2>4, <3>1, <3>2, StandsAtLeast
  <2>5. CASE i < Len(blocks[b])
    <3>1. iter'.block = b /\ iter'.entry = i + 1
      BY <1>1, <1>4, <2>5
    <3>2. i + 1 \in 1..Len(blocks[b]) /\ Due(b, i + 1)
      BY <1>5, <1>6, <2>5
    <3>3. \A d \in 1..Len(blocks) : \A l \in 1..Len(blocks[d]) :
             Due(d, l) => ~(d < b \/ (d = b /\ l < i + 1))
      <4> TAKE d \in 1..Len(blocks)
      <4> TAKE l \in 1..Len(blocks[d])
      <4>1. d \in Int /\ l \in Int /\ b \in Int /\ i \in Int
        BY <1>2, <1>4, <1>5, BlockTypes
      <4> HIDE DEF b, i
      <4> QED BY <4>1
    <3> HIDE DEF b, i, Due
    <3> QED BY <1>5, <2>4, <3>1, <3>2, <3>3
  <2>6. CASE ~(i < Len(blocks[b])) /\ b < Len(blocks)
    <3>0. b + 1 \in 1..Len(blocks) /\ i = Len(blocks[b])
      BY <1>4, <1>5, <1>6, <2>6
    <3>1. iter'.block = b + 1 /\ iter'.entry = 1
      BY <1>1, <2>1, <2>6, <3>0
    <3>2. 1 \in 1..Len(blocks[b + 1]) /\ Due(b + 1, 1)
      BY <1>2, <1>5, <3>0, BlockTypes
    <3>3. \A d \in 1..Len(blocks) : \A l \in 1..Len(blocks[d]) :
             Due(d, l) => ~(d < b + 1 \/ (d = b + 1 /\ l < 1))
      <4> TAKE d \in 1..Len(blocks)
      <4> TAKE l \in 1..Len(blocks[d])
      <4>1. d \in Int /\ l \in Int /\ b \in Int /\ i \in Int /\ 1 <= l /\ (d = b => l <= i)
        BY <1>2, <1>4, <1>5, <3>0, BlockTypes
      <4> HIDE DEF b, i
      <4> QED BY <4>1
    <3> DEFINE c == b + 1
               j == 1
    <3>4. /\ c \in 1..Len(blocks) /\ j \in 1..Len(blocks[c]) /\ Due(c, j)
          /\ iter'.block = c /\ iter'.entry = j
          /\ \A d \in 1..Len(blocks) : \A l \in 1..Len(blocks[d]) :
               Due(d, l) => ~(d < c \/ (d = c /\ l < j))
      BY <3>0, <3>1, <3>2, <3>3
    <3> HIDE DEF b, i, Due, c, j
    <3> QED BY <2>4, <3>4
  <2>7. CASE ~(i < Len(blocks[b])) /\ ~(b < Len(blocks))
    <3>1. b = Len(blocks) /\ b + 1 \notin 1..Len(blocks) /\ i = Len(blocks[b])
      BY <1>4, <1>5, <1>6, <2>7
    <3>2. iter' = Table!NoBlock
      BY <1>1, <2>1, <2>7, <3>1
    <3>3. \A c \in 1..Len(blocks) : \A j \in 1..Len(blocks[c]) : ~(blocks[c][j] >= from')
      <4> TAKE c \in 1..Len(blocks)
      <4> TAKE j \in 1..Len(blocks[c])
      <4>1. c \in Int /\ j \in Int /\ c <= b /\ (c = b => j <= i)
        BY <1>2, <1>4, <3>1, BlockTypes
      <4>2. b \in Int /\ i \in Int
        BY <1>5, <1>4
      <4> HIDE DEF b, i
      <4> QED BY <2>3, <4>1, <4>2
    <3> QED BY <1>2, <1>8, <2>2, <3>2, <3>3, StandsNowhere
  <2> QED BY <2>5, <2>6, <2>7
<1> HIDE DEF b, i
<1> QED BY <1>1, <1>3, <1>8, <1>9, <1>10, IteratorStepKeeps
\* Where Seek begins, all keys of earlier blocks are below its target.
LEMMA SeekStartIs ==
    ASSUME TableTypes, Divided, Indexed, NEW t \in List!Keys
    PROVE  /\ Table!SeekStart(t) \in Nat \ {0}
           /\ stage = "open" /\ damage # "zeros" =>
                \A b \in 1..Len(blocks) : \A i \in 1..Len(blocks[b]) :
                   b < Table!SeekStart(t) => blocks[b][i] < t
<1> DEFINE c == Table!FindCandidateBlock(t)
           s == Table!SeekStart(t)
<1>1. c \in 0..Len(index) /\ Len(index) \in Nat
  <2>1. t \in Int
    BY DEF List!Keys
  <2> QED BY <2>1, IndexType, CandidateFound
<1>2. s = IF c = 0 THEN 1 ELSE IF index[c] = 0 THEN 1 ELSE c
  BY DEF Table!SeekStart
<1> HIDE DEF c, s
<1>3. s \in Nat \ {0}
  BY <1>1, <1>2
<1>4. ASSUME stage = "open", damage # "zeros",
             NEW b \in 1..Len(blocks), NEW i \in 1..Len(blocks[b]), b < s
      PROVE  blocks[b][i] < t
  <2>0. t \in Int /\ Len(blocks) \in Nat /\ b \in Int
    BY DEF List!Keys, TableTypes
  <2>1. /\ Sorted(index) /\ Len(index) = Len(blocks)
        /\ \A d \in 1..Len(blocks) : index[d] = blocks[d][1]
    BY <1>4, IndexSorted
  <2>2. \A d \in 1..Len(index) : index[d] <= t <=> d <= c
    BY <2>0, <2>1, IndexType, CandidateFound DEF c
  <2>3. s = c /\ c \in 1..Len(index) /\ index[c] <= t
    <3>1. s # 1
      BY <1>4, <2>0
    <3>2. s = c /\ c # 0
      BY <1>2, <3>1
    <3>3. c \in 1..Len(index) /\ c <= c
      BY <1>1, <3>2
    <3> QED BY <2>2, <3>2, <3>3
  <2>4. blocks[c][1] <= t /\ c \in 1..Len(blocks) /\ 1 \in 1..Len(blocks[c])
    <3>1. c \in 1..Len(blocks) /\ blocks[c][1] <= t
      BY <2>1, <2>3
    <3> QED BY <3>1, BlockTypes
  <2>5. blocks[b][i] < blocks[c][1]
    <3> DEFINE o == 1
    <3>1. o \in 1..Len(blocks[c]) /\ b < c
      BY <1>4, <2>3, <2>4
    <3> HIDE DEF o
    <3>2. blocks[b][i] < blocks[c][o]
      BY <2>4, <3>1, PlacesOrdered
    <3> QED BY <3>2 DEF o
  <2>6. blocks[b][i] \in Int /\ blocks[c][1] \in Int
    <3>1. blocks[b][i] \in List!Keys /\ blocks[c][1] \in List!Keys
      BY <2>4, BlockTypes
    <3> QED BY <3>1 DEF List!Keys
  <2> QED BY <2>0, <2>4, <2>5, <2>6
<1> QED BY <1>3, <1>4 DEF s

\* The places that Seek looks at with a key not below its target.
Places(t) ==
    {p \in [block : Table!SeekReach(Table!SeekStart(t)), entry : 1..Table!Cardinality(Table!Has)] :
        p.entry <= Len(blocks[p.block]) /\ Table!KeyAt(p) >= t}

LEMMA HasFinite ==
    ASSUME ListAssumption, TableTypes
    PROVE  IsFiniteSet(Table!Has) /\ Cardinality(Table!Has) \in Nat
<1>1. IsFiniteSet(List!Keys)
  BY UpToFinite DEF ListAssumption, List!Keys
<1>2. IsFiniteSet(Table!Has)
  BY <1>1, FS_Subset DEF TableTypes
<1> QED BY <1>2, FS_CardinalityType

LEMMA PlacesAre ==
    ASSUME ListAssumption, TableTypes, Divided, Indexed, stage = "open", NEW t \in List!Keys
    PROVE  /\ \A p \in Places(t) : /\ p \in [block : 1..Len(blocks), entry : Nat \ {0}]
                                   /\ p.entry \in 1..Len(blocks[p.block]) /\ blocks[p.block][p.entry] >= t
           /\ damage # "zeros" =>
                \A b \in 1..Len(blocks) : \A i \in 1..Len(blocks[b]) :
                   blocks[b][i] >= t => [block |-> b, entry |-> i] \in Places(t)
<1> DEFINE s == Table!SeekStart(t)
           m == Table!Cardinality(Table!Has)
<1>0. m = Cardinality(Table!Has)
  BY SameKeys
<1> HIDE DEF m
<1>1. s \in Nat \ {0} /\ m \in Nat /\ Len(blocks) \in Nat /\ t \in Int
  <2>1. s \in Nat \ {0}
    BY SeekStartIs
  <2>2. m \in Nat
    BY <1>0, HasFinite
  <2>3. Len(blocks) \in Nat /\ t \in Int
    BY DEF TableTypes, List!Keys
  <2> QED BY <2>1, <2>2, <2>3
<1>2. \A b \in Table!SeekReach(s) : b \in 1..Len(blocks)
  <2> TAKE b \in Table!SeekReach(s)
  <2>1. b \in s..Len(index) /\ Len(index) \in Nat /\ Len(index) <= Len(blocks)
    BY IndexType DEF Table!SeekReach, Indexed
  <2> QED BY <1>1, <2>1
<1>3. ASSUME NEW p \in Places(t)
      PROVE  /\ p \in [block : 1..Len(blocks), entry : Nat \ {0}]
             /\ p.entry \in 1..Len(blocks[p.block]) /\ blocks[p.block][p.entry] >= t
  <2>1. /\ p \in [block : Table!SeekReach(s), entry : 1..m]
        /\ p.entry <= Len(blocks[p.block]) /\ Table!KeyAt(p) >= t
    BY DEF Places, m
  <2>2. p.block \in 1..Len(blocks) /\ p.entry \in 1..m
    BY <1>2, <2>1
  <2>3. Len(blocks[p.block]) \in Nat
    BY <2>2, BlockTypes
  <2>4. p.entry \in 1..Len(blocks[p.block]) /\ p.entry \in Nat \ {0}
    BY <1>1, <2>1, <2>2, <2>3
  <2>5. p = [block |-> p.block, entry |-> p.entry]
    BY <2>1
  <2>6. p \in [block : 1..Len(blocks), entry : Nat \ {0}]
    BY <2>2, <2>4, <2>5
  <2> QED BY <2>1, <2>4, <2>6 DEF Table!KeyAt
<1>4. ASSUME damage # "zeros", NEW b \in 1..Len(blocks), NEW i \in 1..Len(blocks[b]), blocks[b][i] >= t
      PROVE  [block |-> b, entry |-> i] \in Places(t)
  <2> DEFINE p == [block |-> b, entry |-> i]
  <2>1. ~(b < s)
    <3> SUFFICES ASSUME b < s PROVE FALSE
      OBVIOUS
    <3>1. blocks[b][i] < t
      BY <1>4, SeekStartIs
    <3>2. blocks[b][i] \in List!Keys
      BY BlockTypes
    <3> QED BY <1>1, <1>4, <3>1, <3>2 DEF List!Keys
  <2>2. b \in Table!SeekReach(s)
    <3>1. /\ \A c : Table!Loads(c) <=> c \in 1..Len(blocks)
          /\ Len(index) = Len(blocks)
      BY <1>4, LoadsAll
    <3>2. b \in s..Len(index) /\ \A c \in s..b : c \in 1..Len(blocks)
      BY <1>1, <2>1, <3>1
    <3> QED BY <3>1, <3>2 DEF Table!SeekReach
  <2>3. i \in 1..m /\ i <= Len(blocks[b])
    <3>1. Ordered(blocks[b]) /\ Len(blocks[b]) \in Nat
      BY BlockTypes
    <3>2. RangeOf(blocks[b]) \subseteq Table!Has /\ IsFiniteSet(Table!Has)
      BY HasFinite, InBlocks DEF RangeOf
    <3>3. Len(blocks[b]) <= m
      BY <1>0, <3>1, <3>2, NoLonger
    <3> QED BY <1>1, <3>1, <3>3
  <2>4. p.block = b /\ p.entry = i /\ p \in [block : Table!SeekReach(s), entry : 1..m]
    BY <2>2, <2>3
  <2>5. Table!KeyAt(p) = blocks[b][i]
    BY <2>4 DEF Table!KeyAt
  <2> HIDE DEF p
  <2>6. p \in Places(t)
    BY <1>4, <2>3, <2>4, <2>5 DEF Places, m
  <2> QED BY <2>6 DEF p
<1> QED BY <1>3, <1>4

\* Seek goes to the first of them, which has the least key.
LEMMA SeekKeepsInv == ASSUME ListAssumption, TableInv, NEW t \in List!Keys, Table!Seek(t) PROVE TableInv'
<1> DEFINE P == Places(t)
           First == CHOOSE p \in P : \A q \in P :
                       p.block < q.block \/ (p.block = q.block /\ p.entry <= q.entry)
<1>1. /\ UNCHANGED Table!built /\ stage = "open" /\ stage' = "open" /\ from' = t
      /\ iter' = IF P # {} THEN First ELSE Table!NoBlock
  BY DEF Table!Seek, Places
<1>2. TableTypes /\ Divided /\ Indexed /\ Len(blocks) \in Nat /\ stage \notin {"none", "building"}
  BY <1>1 DEF TableInv, TableTypes
<1>3. /\ \A p \in P : /\ p \in [block : 1..Len(blocks), entry : Nat \ {0}]
                      /\ p.entry \in 1..Len(blocks[p.block]) /\ blocks[p.block][p.entry] >= t
      /\ damage # "zeros" =>
           \A b \in 1..Len(blocks) : \A i \in 1..Len(blocks[b]) :
              blocks[b][i] >= t => [block |-> b, entry |-> i] \in P
  BY <1>1, <1>2, PlacesAre
<1> HIDE DEF P
<1>4. ASSUME P # {}
      PROVE  First \in P /\ \A q \in P : First.block < q.block \/ (First.block = q.block /\ First.entry <= q.entry)
  <2>1. \A p \in P : p.block \in Nat /\ p.entry \in Nat
    BY <1>2, <1>3
  <2>2. \E p \in P : \A q \in P : p.block < q.block \/ (p.block = q.block /\ p.entry <= q.entry)
    BY <1>4, <2>1, FirstExists
  <2> QED BY <2>2
<1> HIDE DEF First
<1>5. iter' \in [block : 0..Len(blocks), entry : Nat] /\ (iter'.block # 0 => iter'.entry # 0)
  <2>1. CASE P # {}
    <3>1. First \in [block : 1..Len(blocks), entry : Nat \ {0}]
      BY <1>3, <1>4, <2>1
    <3>2. 1..Len(blocks) \subseteq 0..Len(blocks)
      BY <1>2
    <3>3. First \in [block : 0..Len(blocks), entry : Nat] /\ First.entry # 0
      BY <3>1, <3>2
    <3> QED BY <1>1, <2>1, <3>3
  <2>2. CASE P = {}
    BY <1>1, <1>2, <2>2 DEF Table!NoBlock
  <2> QED BY <2>1, <2>2
<1>6. from' \in Nat /\ t \in Nat
  BY <1>1 DEF List!Keys
<1>7. ASSUME damage # "zeros" PROVE Stands(iter', t)
  <2>1. CASE P # {}
    <3> DEFINE b == First.block
               i == First.entry
    <3>1. First \in P /\ \A q \in P : b < q.block \/ (b = q.block /\ i <= q.entry)
      BY <1>4, <2>1
    <3>2. b \in 1..Len(blocks) /\ i \in 1..Len(blocks[b]) /\ blocks[b][i] >= t
      <4>1. First \in [block : 1..Len(blocks), entry : Nat \ {0}]
        BY <1>3, <3>1
      <4> QED BY <1>3, <3>1, <4>1
    <3>3. \A c \in 1..Len(blocks) : \A j \in 1..Len(blocks[c]) :
             blocks[c][j] >= t => blocks[b][i] <= blocks[c][j]
      <4> TAKE c \in 1..Len(blocks)
      <4> TAKE j \in 1..Len(blocks[c])
      <4> HAVE blocks[c][j] >= t
      <4> DEFINE q == [block |-> c, entry |-> j]
      <4>1. q \in P /\ q.block = c /\ q.entry = j
        BY <1>3, <1>7
      <4> HIDE DEF q
      <4>2. b < c \/ (b = c /\ i <= j)
        BY <3>1, <4>1
      <4>3. ~(c < b \/ (c = b /\ j < i))
        <5>1. b \in Int /\ c \in Int
          BY <1>2, <3>2
        <5>2. i \in Int /\ j \in Int
          BY <1>2, <3>2, BlockTypes
        <5> HIDE DEF b, i
        <5> QED BY <4>2, <5>1, <5>2
      <4>4. ~(blocks[c][j] < blocks[b][i])
        <5> HIDE DEF b, i
        <5> QED BY <1>2, <3>2, <4>3, PlacesOrdered
      <4>5. blocks[c][j] \in List!Keys /\ blocks[b][i] \in List!Keys
        <5> HIDE DEF b, i
        <5> QED BY <1>2, <3>2, BlockTypes
      <4> HIDE DEF b, i
      <4> QED BY <4>4, <4>5 DEF List!Keys
    <3>4. iter'.block = b /\ iter'.entry = i
      BY <1>1, <2>1
    <3> HIDE DEF b, i
    <3> QED BY <1>2, <1>6, <3>2, <3>3, <3>4, StandsAtLeast
  <2>2. CASE P = {}
    <3>1. \A c \in 1..Len(blocks) : \A j \in 1..Len(blocks[c]) : ~(blocks[c][j] >= t)
      BY <1>3, <1>7, <2>2
    <3>2. iter' = Table!NoBlock
      BY <1>1, <2>2
    <3> QED BY <1>2, <1>6, <3>1, <3>2, StandsNowhere
  <2> QED BY <2>1, <2>2
<1> QED BY <1>1, <1>5, <1>6, <1>7, IteratorStepKeeps DEF Stages
-----------------------------------------------------------------------------
\* The builder.
LEMMA EmptyRange == RangeOf(<<>>) = {} /\ Ordered(<<>>)
BY DEF RangeOf, Ordered, Sorted

LEMMA BitsInFilter ==
    ASSUME TableAssumption, TableTypes, stage # "none", NEW k \in List!Keys
    PROVE  Table!BitsOf(k) \subseteq 0..(Bits - 1)
<1>1. hash[k] \in Nat \X Nat /\ Bits \in Nat \ {0} /\ NumHashes \in Nat
  BY DEF TableTypes, TableAssumption
<1>2. ASSUME NEW i \in 0..(NumHashes - 1) PROVE (hash[k][1] + i * hash[k][2]) % Bits \in 0..(Bits - 1)
  <2> DEFINE a == hash[k][1]
             b == hash[k][2]
             x == a + i * b
  <2>1. a \in Nat /\ b \in Nat /\ i \in Nat
    BY <1>1
  <2> HIDE DEF a, b
  <2>2. i * b \in Nat
    BY <2>1
  <2>3. x \in Nat
    BY <2>1, <2>2
  <2> HIDE DEF x
  <2>4. x % Bits \in 0..(Bits - 1)
    BY <1>1, <2>3
  <2> QED BY <2>4 DEF x, a, b
<1> QED BY <1>2 DEF Table!BitsOf

\* A block that is written goes behind the others, and its first key into the index.
LEMMA BlockWritten ==
    ASSUME TableTypes, Divided, Indexed, damage # "zeros", NEW blk, Ordered(blk), blk # <<>>,
           \A b \in 1..Len(blocks) : Below(KeysOf(b), RangeOf(blk)),
           blocks' = Append(blocks, blk), index' = Append(index, blk[1])
    PROVE  /\ blocks' \in Seq(Seq(List!Keys)) /\ Len(blocks') = Len(blocks) + 1
           /\ \A b \in 1..Len(blocks') : blocks'[b] # <<>> /\ Ordered(blocks'[b])
           /\ \A b, c \in 1..Len(blocks') : b < c => Below(RangeOf(blocks'[b]), RangeOf(blocks'[c]))
           /\ \A A : (\A b \in 1..Len(blocks) : Below(KeysOf(b), A)) /\ Below(RangeOf(blk), A) =>
                \A b \in 1..Len(blocks') : Below(RangeOf(blocks'[b]), A)
           /\ UNION {RangeOf(blocks'[b]) : b \in 1..Len(blocks')} =
                (UNION {KeysOf(b) : b \in 1..Len(blocks)}) \cup RangeOf(blk)
           /\ index' \in Seq(List!Keys \cup {0}) /\ Len(index') = Len(blocks')
           /\ \A b \in 1..Len(blocks') : index'[b] = blocks'[b][1]
<1> DEFINE n == Len(blocks)
<1>1. /\ n \in Nat /\ blocks \in Seq(Seq(List!Keys)) /\ blk \in Seq(List!Keys) /\ blk[1] \in List!Keys
      /\ \A b \in 1..n : blocks[b] # <<>> /\ Ordered(blocks[b])
  <2>1. blk \in Seq(List!Keys)
    BY DEF Ordered
  <2>2. blk[1] \in List!Keys
    BY <2>1
  <2> QED BY <2>1, <2>2 DEF TableTypes
<1>2. /\ blocks' \in Seq(Seq(List!Keys)) /\ Len(blocks') = n + 1 /\ blocks'[n + 1] = blk
      /\ \A b \in 1..n : blocks'[b] = blocks[b]
  BY <1>1
<1>3. \A b \in 1..(n + 1) : b \in 1..n \/ b = n + 1
  BY <1>1
<1>4. /\ index \in Seq(List!Keys \cup {0}) /\ Len(index) = n
      /\ \A b \in 1..n : index[b] = blocks[b][1]
  BY DEF Indexed
<1>5. /\ index' \in Seq(List!Keys \cup {0}) /\ Len(index') = n + 1 /\ index'[n + 1] = blk[1]
      /\ \A b \in 1..n : index'[b] = index[b]
  BY <1>1, <1>4
<1> HIDE DEF n
<1>6. \A b \in 1..(n + 1) : blocks'[b] # <<>> /\ Ordered(blocks'[b]) /\ index'[b] = blocks'[b][1]
  BY <1>1, <1>2, <1>3, <1>4, <1>5
<1>7. RangeOf(blocks'[n + 1]) = RangeOf(blk) /\ \A b \in 1..n : RangeOf(blocks'[b]) = KeysOf(b)
  BY <1>2 DEF KeysOf
<1>8. ASSUME NEW b \in 1..(n + 1), NEW c \in 1..(n + 1), b < c PROVE Below(RangeOf(blocks'[b]), RangeOf(blocks'[c]))
  <2>1. b \in 1..n
    BY <1>1, <1>8
  <2>2. CASE c = n + 1
    BY <1>7, <2>1, <2>2 DEF n
  <2>3. CASE c \in 1..n
    BY <1>7, <1>8, <2>1, <2>3 DEF Divided, n
  <2> QED BY <1>3, <2>2, <2>3
<1>9. ASSUME NEW A, \A b \in 1..n : Below(KeysOf(b), A), Below(RangeOf(blk), A), NEW b \in 1..(n + 1)
      PROVE  Below(RangeOf(blocks'[b]), A)
  BY <1>3, <1>7, <1>9
<1>10. UNION {RangeOf(blocks'[b]) : b \in 1..(n + 1)} = (UNION {KeysOf(b) : b \in 1..n}) \cup RangeOf(blk)
  <2>1. \A b \in 1..n : b \in 1..(n + 1)
    BY <1>1
  <2>2. n + 1 \in 1..(n + 1)
    BY <1>1
  <2>3. ASSUME NEW x \in UNION {RangeOf(blocks'[b]) : b \in 1..(n + 1)}
        PROVE  x \in (UNION {KeysOf(b) : b \in 1..n}) \cup RangeOf(blk)
    BY <1>3, <1>7
  <2>4. ASSUME NEW x \in UNION {KeysOf(b) : b \in 1..n} PROVE x \in UNION {RangeOf(blocks'[b]) : b \in 1..(n + 1)}
    BY <1>7, <2>1
  <2>5. ASSUME NEW x \in RangeOf(blk) PROVE x \in UNION {RangeOf(blocks'[b]) : b \in 1..(n + 1)}
    BY <1>7, <2>2
  <2> QED BY <2>3, <2>4, <2>5
<1>11. Len(blocks') = Len(blocks) + 1 /\ Len(index') = Len(blocks')
  BY <1>2, <1>5 DEF n
<1>12. \A A : (\A b \in 1..n : Below(KeysOf(b), A)) /\ Below(RangeOf(blk), A) =>
          \A b \in 1..(n + 1) : Below(RangeOf(blocks'[b]), A)
  BY <1>9
<1> QED BY <1>2, <1>5, <1>6, <1>8, <1>10, <1>11, <1>12 DEF n

\* Each key that is added goes to the end of the block, and is admitted.
LEMMA AddKeepsInv == ASSUME TableAssumption, TableInv, Table!Add PROVE TableInv'
<1> DEFINE k == Head(input)
           u == Tail(input)
           blk == Append(currBlock, k)
           C == RangeOf(currBlock)
           R == RangeOf(input)
           U == RangeOf(u)
<1>1. /\ stage = "building" /\ input # <<>> /\ input' = u
      /\ UNCHANGED <<contents, hash, stage, damage, iter, from>>
      /\ minKey' = (IF minKey = 0 \/ k < minKey THEN k ELSE minKey)
      /\ maxKey' = (IF maxKey = 0 \/ k > maxKey THEN k ELSE maxKey)
      /\ bits' = bits \cup Table!BitsOf(k)
      /\ \/ blocks' = Append(blocks, blk) /\ index' = Append(index, blk[1]) /\ currBlock' = <<>>
         \/ currBlock' = blk /\ UNCHANGED <<blocks, index>>
  BY DEF Table!Add
<1>2. TableTypes /\ Divided /\ Indexed /\ Admitted /\ damage = "none"
  BY <1>1 DEF TableInv, TableTypes
<1>3. Ordered(currBlock) /\ Ordered(input)
  BY <1>2 DEF TableTypes
<1>4. k \in List!Keys /\ Ordered(u) /\ R = U \cup {k} /\ \A j \in U : k < j
  BY <1>1, <1>3, OrderedTail
<1>5. /\ \A b \in 1..Len(blocks) : Below(KeysOf(b), C) /\ Below(KeysOf(b), R)
      /\ Below(C, R) /\ Table!Has = (UNION {KeysOf(b) : b \in 1..Len(blocks)}) \cup C \cup R
  BY <1>2 DEF Divided
<1>6. Ordered(blk) /\ RangeOf(blk) = C \cup {k} /\ blk # <<>>
  <2>1. Lists(currBlock, C)
    BY <1>3 DEF Lists, Ordered
  <2>2. \A j \in C : j < k
    BY <1>4, <1>5 DEF Below
  <2>3. Lists(blk, C \cup {k})
    <3> HIDE DEF C, k
    <3> QED BY <1>4, <2>1, <2>2, ListsOneMore
  <2>4. blk # <<>>
    BY <1>3, <1>4 DEF Ordered
  <2> QED BY <2>3, <2>4 DEF Lists, Ordered
<1>7. Table!Has' = Table!Has /\ \A j : Table!BitsOf(j)' = Table!BitsOf(j)
  BY <1>1 DEF Table!Has, Table!BitsOf
<1>8. k \in Int /\ (\A j \in U : j \in Int) /\ k \notin U
  <2>1. \A j \in U : j \in List!Keys
    BY <1>4 DEF Ordered, RangeOf
  <2>2. k \in Int /\ \A j \in U : j \in Int
    BY <1>4, <2>1 DEF List!Keys
  <2> HIDE DEF k, U
  <2> QED BY <1>4, <2>2
<1>9. RangeOf(<<>>) = {} /\ Ordered(<<>>) /\ RangeOf(input') = U
  BY <1>1, EmptyRange
<1> HIDE DEF k, u, blk, C, R, U
<1>10. Below(C \cup {k}, U) /\ Below(C, U) /\ \A b \in 1..Len(blocks) : Below(KeysOf(b), C \cup {k}) /\ Below(KeysOf(b), U)
  BY <1>4, <1>5 DEF Below
<1>11. Admitted'
  <2>1. Added' = Added \cup {k} /\ k \notin Added /\ \A j \in Added : j \in List!Keys
    <3>1. Added' = Table!Has \ U /\ Added = Table!Has \ R
      BY <1>7, <1>9 DEF Added, R
    <3>2. k \in Table!Has /\ Table!Has \subseteq List!Keys
      <4>1. k \in Table!Has
        BY <1>4, <1>5
      <4> QED BY <1>2, <4>1 DEF TableTypes
    <3> QED BY <1>4, <1>8, <3>1, <3>2
  <2>2. Table!BitsOf(k) \subseteq 0..(Bits - 1)
    BY <1>1, <1>2, <1>4, BitsInFilter
  <2>3. bits' \subseteq 0..(Bits - 1) /\ \A j \in Added' : Table!BitsOf(j)' \subseteq bits'
    BY <1>1, <1>2, <1>7, <2>1, <2>2 DEF Admitted
  <2>4. /\ minKey \in Int /\ maxKey \in Int /\ \A j \in Added : j \in Int /\ j > 0 /\ minKey <= j /\ j <= maxKey
        /\ minKey = 0 => Added = {}
        /\ k > 0
    BY <1>2, <1>4, <2>1 DEF Admitted, List!Keys
  <2>5. minKey' \in List!Keys \cup {0} /\ maxKey' \in List!Keys \cup {0} /\ minKey' # 0
    BY <1>1, <1>2, <1>4, <2>4 DEF Admitted
  <2>6. \A j \in Added' : minKey' <= j /\ j <= maxKey'
    <3> TAKE j \in Added'
    <3>1. CASE j = k
      BY <1>1, <1>8, <2>4, <3>1
    <3>2. CASE j # k
      <4>1. j \in Added /\ j \in Int /\ minKey <= j /\ j <= maxKey /\ j > 0 /\ minKey # 0 /\ maxKey # 0
        BY <2>1, <2>4, <3>2
      <4> QED BY <1>1, <1>8, <2>4, <4>1
    <3> QED BY <3>1, <3>2
  <2> QED BY <2>3, <2>5, <2>6 DEF Admitted
<1>12. Iterating'
  BY <1>1 DEF Iterating
<1>13. CASE blocks' = Append(blocks, blk) /\ index' = Append(index, blk[1]) /\ currBlock' = <<>>
  <2>1. \A b \in 1..Len(blocks) : Below(KeysOf(b), RangeOf(blk))
    BY <1>6, <1>10
  <2>2. damage # "zeros"
    BY <1>2
  <2>3. /\ blocks' \in Seq(Seq(List!Keys)) /\ Len(blocks') = Len(blocks) + 1
        /\ \A b \in 1..Len(blocks') : blocks'[b] # <<>> /\ Ordered(blocks'[b])
        /\ \A b, c \in 1..Len(blocks') : b < c => Below(RangeOf(blocks'[b]), RangeOf(blocks'[c]))
        /\ \A A : (\A b \in 1..Len(blocks) : Below(KeysOf(b), A)) /\ Below(RangeOf(blk), A) =>
             \A b \in 1..Len(blocks') : Below(RangeOf(blocks'[b]), A)
        /\ UNION {RangeOf(blocks'[b]) : b \in 1..Len(blocks')} =
             (UNION {KeysOf(b) : b \in 1..Len(blocks)}) \cup RangeOf(blk)
        /\ index' \in Seq(List!Keys \cup {0}) /\ Len(index') = Len(blocks')
        /\ \A b \in 1..Len(blocks') : index'[b] = blocks'[b][1]
    BY <1>2, <1>6, <1>13, <2>1, <2>2, BlockWritten
  <2>4. \A b \in 1..Len(blocks') : Below(RangeOf(blocks'[b]), U)
    BY <1>6, <1>10, <2>3
  <2>8. \A b : KeysOf(b)' = RangeOf(blocks'[b])
    BY DEF KeysOf
  <2>5. Divided'
    <3>1. \A S : Below(S, {}) /\ Below({}, S)
      BY DEF Below
    <3>2. RangeOf(currBlock') = {} /\ RangeOf(input') = U
      BY <1>9, <1>13
    <3>3. Table!Has' = (UNION {KeysOf(b)' : b \in 1..Len(blocks')}) \cup {} \cup U
      <4> DEFINE old == UNION {KeysOf(b) : b \in 1..Len(blocks)}
                 new == UNION {RangeOf(blocks'[b]) : b \in 1..Len(blocks')}
      <4>1. new = old \cup (C \cup {k}) /\ Table!Has' = old \cup C \cup R /\ R = U \cup {k}
        BY <1>4, <1>5, <1>6, <1>7, <2>3
      <4>2. UNION {KeysOf(b)' : b \in 1..Len(blocks')} = new
        BY <2>8
      <4> HIDE DEF old, new
      <4>3. Table!Has' = new \cup {} \cup U
        BY <4>1
      <4> QED BY <4>2, <4>3
    <3> QED BY <2>3, <2>4, <2>8, <3>1, <3>2, <3>3 DEF Divided
  <2>6. TableTypes'
    <3>1. iter = Table!NoBlock /\ from = 0 /\ Len(blocks') \in Nat
      BY <1>1, <1>2, <2>3 DEF TableTypes
    <3>2. iter' \in [block : 0..Len(blocks'), entry : Nat] /\ iter'.block = 0 /\ from' \in Nat
      BY <1>1, <3>1 DEF Table!NoBlock
    <3>3. Ordered(currBlock') /\ Ordered(input')
      BY <1>1, <1>4, <1>9, <1>13 DEF u
    <3> QED BY <1>1, <1>2, <1>7, <2>3, <3>1, <3>2, <3>3 DEF TableTypes
  <2>7. Indexed'
    <3>1. Len(blocks') \in Nat
      BY <2>3
    <3> QED BY <2>3, <3>1 DEF Indexed
  <2> QED BY <1>11, <1>12, <2>5, <2>6, <2>7 DEF TableInv
<1>14. CASE currBlock' = blk /\ UNCHANGED <<blocks, index>>
  <2>1. blocks' = blocks /\ index' = index /\ \A b : KeysOf(b)' = KeysOf(b)
    BY <1>14 DEF KeysOf
  <2>2. RangeOf(currBlock') = C \cup {k} /\ RangeOf(input') = U
    BY <1>6, <1>9, <1>14
  <2>3. Divided'
    <3>1. Table!Has' = (UNION {KeysOf(b)' : b \in 1..Len(blocks')}) \cup (C \cup {k}) \cup U
      BY <1>4, <1>5, <1>7, <2>1
    <3> QED BY <1>2, <1>10, <2>1, <2>2, <3>1 DEF Divided
  <2>4. TableTypes'
    <3>1. Ordered(currBlock') /\ Ordered(input')
      BY <1>1, <1>4, <1>6, <1>14 DEF u
    <3> QED BY <1>1, <1>2, <1>7, <2>1, <3>1 DEF TableTypes
  <2>5. Indexed'
    BY <1>1, <1>2, <2>1 DEF Indexed
  <2> QED BY <1>11, <1>12, <2>3, <2>4, <2>5 DEF TableInv
<1> QED BY <1>1, <1>13, <1>14
\* The last block is written, and the table is read back.
LEMMA FinishKeepsInv == ASSUME TableInv, Table!Finish PROVE TableInv'
<1> DEFINE C == RangeOf(currBlock)
<1>1. /\ stage = "building" /\ input = <<>> /\ stage' = "open" /\ currBlock' = <<>>
      /\ UNCHANGED <<contents, input, hash, bits, damage, minKey, maxKey, iter, from>>
      /\ \/ /\ currBlock # <<>>
            /\ blocks' = Append(blocks, currBlock) /\ index' = Append(index, currBlock[1])
         \/ currBlock = <<>> /\ UNCHANGED <<blocks, index>>
  BY DEF Table!Finish
<1>2. TableTypes /\ Divided /\ Indexed /\ Admitted /\ damage = "none" /\ from = 0 /\ iter = Table!NoBlock
  BY <1>1 DEF TableInv, TableTypes
<1>3. Ordered(currBlock) /\ Table!Has' = Table!Has /\ \A j : Table!BitsOf(j)' = Table!BitsOf(j)
  BY <1>1, <1>2 DEF TableTypes, Table!Has, Table!BitsOf
<1>4. /\ RangeOf(<<>>) = {} /\ Ordered(<<>>) /\ RangeOf(input) = {} /\ RangeOf(input') = {}
      /\ RangeOf(currBlock') = {} /\ \A S : Below(S, {}) /\ Below({}, S)
  BY <1>1, EmptyRange DEF Below
<1>5. /\ \A b \in 1..Len(blocks) : Below(KeysOf(b), C)
      /\ Table!Has = (UNION {KeysOf(b) : b \in 1..Len(blocks)}) \cup C
  BY <1>2, <1>4 DEF Divided
<1>6. Admitted'
  <2>1. Added' = Added
    BY <1>1, <1>3 DEF Added
  <2> QED BY <1>1, <1>2, <1>3, <2>1 DEF Admitted
<1>7. Iterating'
  BY <1>1, <1>2 DEF Iterating, Table!IteratesAll
<1>8. \A b : KeysOf(b)' = RangeOf(blocks'[b])
  BY DEF KeysOf
<1>9. ASSUME /\ blocks' \in Seq(Seq(List!Keys)) /\ Len(blocks') \in Nat
             /\ \A b \in 1..Len(blocks') : blocks'[b] # <<>> /\ Ordered(blocks'[b])
             /\ \A b, c \in 1..Len(blocks') : b < c => Below(RangeOf(blocks'[b]), RangeOf(blocks'[c]))
             /\ Table!Has = UNION {RangeOf(blocks'[b]) : b \in 1..Len(blocks')}
             /\ index' \in Seq(List!Keys \cup {0}) /\ Len(index') = Len(blocks')
             /\ \A b \in 1..Len(blocks') : index'[b] = blocks'[b][1]
      PROVE  TableInv'
  <2>1. TableTypes'
    <3>1. iter' \in [block : 0..Len(blocks'), entry : Nat] /\ iter'.block = 0 /\ from' \in Nat
      BY <1>1, <1>2, <1>9 DEF Table!NoBlock
    <3>2. Ordered(currBlock') /\ Ordered(input')
      BY <1>1, <1>4
    <3> QED BY <1>1, <1>2, <1>3, <1>9, <3>1, <3>2 DEF TableTypes, Stages
  <2>2. Divided'
    <3>1. UNION {KeysOf(b)' : b \in 1..Len(blocks')} = UNION {RangeOf(blocks'[b]) : b \in 1..Len(blocks')}
      BY <1>8
    <3>2. Table!Has' = (UNION {KeysOf(b)' : b \in 1..Len(blocks')}) \cup {} \cup {}
      BY <1>3, <1>9, <3>1
    <3> QED BY <1>4, <1>8, <1>9, <3>2 DEF Divided
  <2>3. Indexed'
    BY <1>9 DEF Indexed
  <2> QED BY <1>6, <1>7, <2>1, <2>2, <2>3 DEF TableInv
<1>10. CASE currBlock # <<>> /\ blocks' = Append(blocks, currBlock) /\ index' = Append(index, currBlock[1])
  <2>1. damage # "zeros" /\ Len(blocks) \in Nat
    BY <1>2 DEF TableTypes
  <2> DEFINE blk == currBlock
  <2>2. Ordered(blk) /\ blk # <<>> /\ C = RangeOf(blk)
        /\ blocks' = Append(blocks, blk) /\ index' = Append(index, blk[1])
    BY <1>3, <1>10
  <2> HIDE DEF blk, C
  <2>3. /\ blocks' \in Seq(Seq(List!Keys)) /\ Len(blocks') = Len(blocks) + 1
        /\ \A b \in 1..Len(blocks') : blocks'[b] # <<>> /\ Ordered(blocks'[b])
        /\ \A b, c \in 1..Len(blocks') : b < c => Below(RangeOf(blocks'[b]), RangeOf(blocks'[c]))
        /\ UNION {RangeOf(blocks'[b]) : b \in 1..Len(blocks')} =
             (UNION {KeysOf(b) : b \in 1..Len(blocks)}) \cup RangeOf(blk)
        /\ index' \in Seq(List!Keys \cup {0}) /\ Len(index') = Len(blocks')
        /\ \A b \in 1..Len(blocks') : index'[b] = blocks'[b][1]
    BY <1>2, <1>5, <2>1, <2>2, BlockWritten
  <2>4. Len(blocks') \in Nat
    BY <2>1, <2>3
  <2>5. Table!Has = UNION {RangeOf(blocks'[b]) : b \in 1..Len(blocks')}
    BY <1>5, <2>2, <2>3
  <2> QED BY <1>9, <2>3, <2>4, <2>5
<1>11. CASE currBlock = <<>> /\ UNCHANGED <<blocks, index>>
  <2>1. blocks' = blocks /\ index' = index /\ C = {}
    BY <1>4, <1>11
  <2>2. /\ blocks \in Seq(Seq(List!Keys)) /\ Len(blocks) \in Nat
        /\ \A b \in 1..Len(blocks) : blocks[b] # <<>> /\ Ordered(blocks[b])
    BY <1>2 DEF TableTypes
  <2>3. \A b, c \in 1..Len(blocks) : b < c => Below(RangeOf(blocks[b]), RangeOf(blocks[c]))
    BY <1>2 DEF Divided, KeysOf
  <2>4. Table!Has = UNION {RangeOf(blocks[b]) : b \in 1..Len(blocks)}
    <3>1. UNION {KeysOf(b) : b \in 1..Len(blocks)} = UNION {RangeOf(blocks[b]) : b \in 1..Len(blocks)}
      BY DEF KeysOf
    <3> QED BY <1>5, <2>1, <3>1
  <2>5. /\ index \in Seq(List!Keys \cup {0}) /\ Len(index) = Len(blocks)
        /\ \A b \in 1..Len(blocks) : index[b] = blocks[b][1]
    BY <1>2 DEF Indexed
  <2> HIDE DEF C
  <2> QED BY <1>9, <2>1, <2>2, <2>3, <2>4, <2>5
<1> QED BY <1>1, <1>10, <1>11

\* A builder is given the keys of a memtable in order.
LEMMA NewBuilderKeepsInv ==
    ASSUME TableInv, NEW keys, NEW sizes, Lists(keys, DOMAIN sizes), DOMAIN sizes \subseteq List!Keys,
           NEW hashes \in [List!Keys -> Nat \X Nat], Table!NewBuilder(keys, sizes, hashes)
    PROVE  TableInv'
<1>1. /\ stage = "none" /\ stage' = "building" /\ contents' = sizes /\ input' = keys /\ hash' = hashes
      /\ UNCHANGED <<currBlock, blocks, index, bits, damage, minKey, maxKey, iter, from>>
  BY DEF Table!NewBuilder
<1>2. /\ currBlock = <<>> /\ blocks = <<>> /\ iter = Table!NoBlock /\ from = 0 /\ damage = "none"
      /\ Ordered(keys) /\ RangeOf(keys) = DOMAIN sizes /\ Table!Has' = DOMAIN sizes
  BY <1>1 DEF TableInv, TableTypes, Lists, Ordered, Table!Has
<1>3. RangeOf(currBlock') = {} /\ Len(blocks') = 0 /\ \A S : Below(S, {}) /\ Below({}, S)
  BY <1>1, <1>2, EmptyRange DEF Below
<1>4. TableTypes'
  BY <1>1, <1>2 DEF TableInv, TableTypes, Stages
<1>5. Divided'
  <2>1. UNION {KeysOf(b)' : b \in 1..Len(blocks')} = {}
    BY <1>3
  <2>2. Table!Has' = (UNION {KeysOf(b)' : b \in 1..Len(blocks')}) \cup RangeOf(currBlock') \cup RangeOf(input')
    BY <1>1, <1>2, <1>3, <2>1
  <2>3. \A b \in 1..Len(blocks') : FALSE
    BY <1>3
  <2> QED BY <1>3, <2>2, <2>3 DEF Divided
<1>6. Indexed'
  BY <1>1, <1>2 DEF TableInv, Indexed
<1>7. Admitted'
  <2>1. Added' = {}
    BY <1>1, <1>2 DEF Added
  <2> QED BY <1>1, <2>1 DEF TableInv, Admitted
<1>8. Iterating'
  BY <1>1 DEF Iterating
<1> QED BY <1>4, <1>5, <1>6, <1>7, <1>8 DEF TableInv

LEMMA TableInit == ASSUME Table!Init PROVE TableInv
<1>1. /\ Table!Has = {} /\ stage = "none" /\ currBlock = <<>> /\ input = <<>> /\ blocks = <<>>
      /\ index = <<>> /\ bits = {} /\ damage = "none" /\ minKey = 0 /\ maxKey = 0
      /\ iter = Table!NoBlock /\ from = 0
  BY DEF Table!Init, Table!Has
<1>2. RangeOf(<<>>) = {} /\ Ordered(<<>>) /\ Len(blocks) = 0 /\ (\A S : Below(S, {}) /\ Below({}, S))
  BY <1>1, EmptyRange DEF Below
<1>3. TableTypes
  BY <1>1, <1>2 DEF TableTypes, Stages, Damages, Table!NoBlock
<1>4. Divided
  <2>1. UNION {KeysOf(b) : b \in 1..Len(blocks)} = {}
    BY <1>2
  <2>2. \A b \in 1..Len(blocks) : FALSE
    BY <1>2
  <2> QED BY <1>1, <1>2, <2>1, <2>2 DEF Divided
<1>5. Indexed
  BY <1>1, <1>2 DEF Indexed
<1>6. Admitted
  BY <1>1 DEF Admitted, Added
<1>7. Iterating
  BY <1>1 DEF Iterating
<1> QED BY <1>3, <1>4, <1>5, <1>6, <1>7 DEF TableInv
-----------------------------------------------------------------------------
\* Files after a power failure.  Whole files are read as they were written, ...
LEMMA WholeFiles ==
    ASSUME TableAssumption, Indexed, Admitted
    PROVE  /\ Table!DecodeSparseIndex(Table!IndexFile) = {index}
           /\ Table!DecodeBloomFilter(Table!FilterFile) = {bits}
<1>1. index \in Seq(Int) /\ Len(index) \in Nat
  BY IndexType
<1>2. Bits \in Nat \ {0} /\ bits \subseteq 0..(Bits - 1)
  BY DEF TableAssumption, Admitted
<1>3. Table!DecodeSparseIndex(Table!IndexFile) = {index}
  <2> DEFINE file == <<Len(index)>> \o index
             x == SubSeq(file, 2, 1 + file[1])
  <2>1. file \in Seq(Int) /\ Len(file) = 1 + Len(index) /\ file[1] = Len(index) /\ file # <<>>
        /\ \A i \in 1..Len(index) : file[i + 1] = index[i]
    BY <1>1
  <2>2. Table!IndexFile = file
    BY DEF Table!IndexFile
  <2> HIDE DEF file
  <2>3. x \in Seq(Int) /\ Len(x) = Len(index) /\ \A i \in 1..Len(index) : x[i] = file[i + 1]
    BY <1>1, <2>1
  <2> HIDE DEF x
  <2>4. x = index
    <3>1. \A i \in 1..Len(index) : x[i] = index[i]
      BY <2>1, <2>3
    <3> QED BY <1>1, <2>3, <3>1, SeqEqual
  <2>5. Table!DecodeSparseIndex(file) = {x}
    BY <1>1, <2>1 DEF Table!DecodeSparseIndex, x
  <2> QED BY <2>2, <2>4, <2>5
<1>4. Table!DecodeBloomFilter(Table!FilterFile) = {bits}
  <2> DEFINE word == [i \in 1..Bits |-> IF i - 1 \in bits THEN 1 ELSE 0]
             file == <<Bits>> \o word
  <2>1. word \in Seq(Int) /\ Len(word) = Bits
    BY <1>2
  <2>2. \A i \in 1..Bits : word[i] = IF i - 1 \in bits THEN 1 ELSE 0
    OBVIOUS
  <2> HIDE DEF word
  <2>3. file \in Seq(Int) /\ Len(file) = 1 + Bits /\ file[1] = Bits /\ file # <<>>
        /\ \A i \in 1..Bits : file[i + 1] = word[i]
    BY <1>2, <2>1
  <2>4. Table!FilterFile = file
    BY DEF Table!FilterFile, word
  <2> HIDE DEF file
  <2>5. {i \in 0..(Bits - 1) : file[i + 2] = 1} = bits
    <3>1. ASSUME NEW i \in 0..(Bits - 1) PROVE file[i + 2] = 1 <=> i \in bits
      <4> DEFINE j == i + 1
      <4>1. j \in 1..Bits /\ j - 1 = i /\ i + 2 = j + 1
        BY <1>2
      <4> HIDE DEF j
      <4>2. file[j + 1] = IF j - 1 \in bits THEN 1 ELSE 0
        BY <2>2, <2>3, <4>1
      <4> QED BY <4>1, <4>2
    <3> QED BY <1>2, <3>1
  <2>6. Table!DecodeBloomFilter(file) = {{i \in 0..(Bits - 1) : file[i + 2] = 1}}
    BY <1>2, <2>3 DEF Table!DecodeBloomFilter
  <2> QED BY <2>4, <2>5, <2>6
<1> QED BY <1>3, <1>4

\* ... shorter ones not at all, ...
LEMMA ShorterFiles ==
    ASSUME NEW file \in Seq(Int), file # <<>>, Len(file) = 1 + file[1], NEW f \in Table!Shorter(file)
    PROVE  Table!DecodeSparseIndex(f) = {} /\ Table!DecodeBloomFilter(f) = {}
<1>1. PICK n \in 0..(Len(file) - 1) : f = SubSeq(file, 1, n)
  BY DEF Table!Shorter
<1>2. Len(file) \in Nat /\ n \in Nat /\ n < Len(file)
  BY <1>1
<1>3. Len(f) = n /\ (n # 0 => f[1] = file[1]) /\ (n = 0 => f = <<>>)
  <2>1. f \in Seq(Int) /\ Len(f) = n
    <3> DEFINE o == 1
    <3>1. o \in Int /\ (IF o <= n THEN n - o + 1 ELSE 0) = n /\ o = 1
      BY <1>2
    <3> HIDE DEF o
    <3>2. \A i \in o..n : file[i] \in Int
      <4>1. \A i \in o..n : i \in 1..Len(file)
        BY <1>2, <3>1
      <4>2. \A i \in 1..Len(file) : file[i] \in Int
        BY ElementOfSeq
      <4> QED BY <4>1, <4>2
    <3>3. /\ SubSeq(file, o, n) \in Seq(Int)
          /\ Len(SubSeq(file, o, n)) = IF o <= n THEN n - o + 1 ELSE 0
      BY <1>2, <3>1, <3>2, SubSeqProperties
    <3> QED BY <1>1, <3>1, <3>3
  <2>2. n = 0 => f = <<>>
    BY <2>1
  <2>3. n # 0 => f[1] = file[1]
    <3> HAVE n # 0
    <3>1. 1 \in 1..n
      BY <1>2
    <3> QED BY <1>1, <1>2, <3>1
  <2> QED BY <2>1, <2>2, <2>3
<1>4. f = <<>> \/ Len(f) < 1 + f[1]
  BY <1>2, <1>3
<1> QED BY <1>4 DEF Table!DecodeSparseIndex, Table!DecodeBloomFilter

\* ... and those with zeros at the end as something of the right form.
LEMMA ZeroedIndexFile ==
    ASSUME Indexed, NEW f \in Table!Zeroed(Table!IndexFile), NEW x \in Table!DecodeSparseIndex(f)
    PROVE  x \in Seq(List!Keys \cup {0}) /\ Len(x) <= Len(index)
<1> DEFINE file == <<Len(index)>> \o index
           m == Len(index)
           V == List!Keys \cup {0}
<1>1. index \in Seq(V) /\ m \in Nat
  BY DEF Indexed
<1>2. V \subseteq Nat
  BY DEF List!Keys
<1> HIDE DEF V
<1>3. file \in Seq(Nat) /\ Len(file) = m + 1 /\ file[1] = m /\ \A i \in 2..(m + 1) : file[i] \in V
  <2>1. index \in Seq(Nat)
    BY <1>1, <1>2, SeqMonotonic
  <2>2. file \in Seq(Nat) /\ Len(file) = m + 1 /\ file[1] = m
    BY <1>1, <2>1
  <2>3. \A i \in 2..(m + 1) : i - 1 \in 1..m /\ file[i] = index[i - 1]
    BY <1>1, <2>1
  <2>4. \A i \in 1..m : index[i] \in V
    BY <1>1
  <2> HIDE DEF file, m
  <2> QED BY <2>2, <2>3, <2>4
<1>4. Table!IndexFile = file
  BY DEF Table!IndexFile
<1> HIDE DEF file
<1>5. PICK n \in 1..Len(file) : f = [i \in 1..Len(file) |-> IF i < n THEN file[i] ELSE 0]
  BY <1>4 DEF Table!Zeroed
<1>6. /\ f \in Seq(Nat) /\ Len(f) = m + 1 /\ (f[1] = m \/ f[1] = 0)
      /\ \A i \in 2..(m + 1) : f[i] \in V
  <2>1. \A i \in 1..(m + 1) : f[i] \in Nat /\ f[i] = (IF i < n THEN file[i] ELSE 0)
    <3>1. \A i \in 1..(m + 1) : file[i] \in Nat
      BY <1>3
    <3> QED BY <1>3, <1>5, <3>1
  <2>2. f \in [1..(m + 1) -> Nat]
    BY <1>3, <1>5, <2>1
  <2>3. f \in Seq(Nat) /\ Len(f) = m + 1
    BY <1>1, <2>2
  <2>4. 1 \in 1..(m + 1) /\ \A i \in 2..(m + 1) : i \in 1..(m + 1)
    BY <1>1
  <2>5. 0 \in V
    BY DEF V
  <2> HIDE DEF m
  <2> QED BY <1>3, <2>1, <2>3, <2>4, <2>5
<1> HIDE DEF m
<1>7. x = SubSeq(f, 2, 1 + f[1])
  BY DEF Table!DecodeSparseIndex
<1>8. Len(x) = f[1] /\ \A i \in 1..f[1] : x[i] = f[i + 1]
  BY <1>1, <1>6, <1>7
<1>9. x \in Seq(Nat) /\ f[1] \in Nat /\ f[1] <= m
  BY <1>1, <1>6, <1>7, SMTT(30)
<1>10. \A i \in 1..Len(x) : x[i] \in V
  <2> TAKE i \in 1..Len(x)
  <2>1. x[i] = f[i + 1] /\ i + 1 \in 2..(m + 1)
    BY <1>1, <1>8, <1>9
  <2> QED BY <1>6, <2>1
<1>11. x \in Seq(V)
  BY <1>9, <1>10, SeqDef
<1> QED BY <1>8, <1>9, <1>11 DEF V, m

LEMMA FilterInBits ==
    ASSUME NEW f, NEW x \in Table!DecodeBloomFilter(f)
    PROVE  x \subseteq 0..(Bits - 1)
BY DEF Table!DecodeBloomFilter

\* What OpenReader makes of the table after a power failure: nothing, or what it was, or,
\* of zeros, something in its place.
Reopens ==
    \/ stage' = "refused" /\ UNCHANGED <<index, bits>>
    \/ stage' = "open" /\ UNCHANGED <<index, bits>>
    \/ /\ stage' = "open" /\ damage' = "zeros"
       /\ index' \in Seq(List!Keys \cup {0}) /\ Len(index') <= Len(index)
       /\ bits' \subseteq 0..(Bits - 1)

LEMMA PowerFailsReopens ==
    ASSUME TableAssumption, TableInv, Table!PowerFails
    PROVE  damage' \in {"cut", "zeros"} /\ Reopens
<1> DEFINE iF == Table!IndexFile
           fF == Table!FilterFile
<1>1. Indexed /\ Admitted
  BY DEF TableInv
<1>2. Table!DecodeSparseIndex(iF) = {index} /\ Table!DecodeBloomFilter(fF) = {bits}
  BY <1>1, WholeFiles
<1>3. \A f \in Table!Shorter(iF) : Table!DecodeSparseIndex(f) = {}
  <2>1. index \in Seq(Int) /\ Len(index) \in Nat
    BY <1>1, IndexType
  <2>2. iF \in Seq(Int) /\ iF # <<>> /\ Len(iF) = 1 + iF[1]
    BY <2>1 DEF Table!IndexFile
  <2> HIDE DEF iF
  <2> QED BY <2>2, ShorterFiles
<1>4. \A f \in Table!Shorter(fF) : Table!DecodeBloomFilter(f) = {}
  <2> DEFINE word == [i \in 1..Bits |-> IF i - 1 \in bits THEN 1 ELSE 0]
  <2>1. Bits \in Nat
    BY DEF TableAssumption
  <2>2. word \in Seq(Int) /\ Len(word) = Bits
    BY <2>1
  <2>3. fF = <<Bits>> \o word
    BY DEF Table!FilterFile
  <2> HIDE DEF word, fF
  <2>4. fF \in Seq(Int) /\ fF # <<>> /\ Len(fF) = 1 + fF[1]
    BY <2>1, <2>2, <2>3
  <2> QED BY <2>4, ShorterFiles
<1>5. bits \subseteq 0..(Bits - 1) /\ index \in Seq(List!Keys \cup {0}) /\ Len(index) <= Len(index)
  BY <1>1, IndexType DEF Admitted, Indexed
<1>6. \/ /\ damage' = "cut"
         /\ \/ \E metaIsWhole \in BOOLEAN : Table!OpenReader(metaIsWhole, iF, fF)
            \/ \E f \in Table!Shorter(iF) : Table!OpenReader(TRUE, f, fF)
            \/ \E f \in Table!Shorter(fF) : Table!OpenReader(TRUE, iF, f)
      \/ /\ damage' = "zeros"
         /\ \/ \E f \in Table!Zeroed(iF) : Table!OpenReader(TRUE, f, fF)
            \/ \E f \in Table!Zeroed(fF) : Table!OpenReader(TRUE, iF, f)
  BY DEF Table!PowerFails
<1> HIDE DEF iF, fF
<1>7. ASSUME NEW m, NEW f, NEW g, Table!OpenReader(m, f, g)
      PROVE  \/ stage' = "refused" /\ UNCHANGED <<index, bits>>
             \/ /\ stage' = "open" /\ index' \in Table!DecodeSparseIndex(f)
                /\ bits' \in Table!DecodeBloomFilter(g)
  BY <1>7 DEF Table!OpenReader
<1>8. CASE \E metaIsWhole \in BOOLEAN : Table!OpenReader(metaIsWhole, iF, fF)
  BY <1>2, <1>6, <1>7, <1>8 DEF Reopens
<1>9. CASE \E f \in Table!Shorter(iF) : Table!OpenReader(TRUE, f, fF)
  BY <1>3, <1>6, <1>7, <1>9 DEF Reopens
<1>10. CASE \E f \in Table!Shorter(fF) : Table!OpenReader(TRUE, iF, f)
  BY <1>4, <1>6, <1>7, <1>10 DEF Reopens
<1>11. CASE damage' = "zeros" /\ \E f \in Table!Zeroed(iF) : Table!OpenReader(TRUE, f, fF)
  <2>1. PICK f \in Table!Zeroed(iF) : Table!OpenReader(TRUE, f, fF)
    BY <1>11
  <2>2. \/ stage' = "refused" /\ UNCHANGED <<index, bits>>
        \/ /\ stage' = "open" /\ index' \in Table!DecodeSparseIndex(f)
           /\ bits' = bits
    BY <1>2, <1>7, <2>1
  <2>3. ASSUME index' \in Table!DecodeSparseIndex(f)
        PROVE  index' \in Seq(List!Keys \cup {0}) /\ Len(index') <= Len(index)
    <3> DEFINE x == index'
    <3>1. x \in Table!DecodeSparseIndex(f)
      BY <2>3
    <3> HIDE DEF x
    <3>2. x \in Seq(List!Keys \cup {0}) /\ Len(x) <= Len(index)
      BY <1>1, <2>1, <3>1, ZeroedIndexFile DEF iF
    <3> QED BY <3>2 DEF x
  <2> QED BY <1>5, <1>11, <2>2, <2>3 DEF Reopens
<1>12. CASE damage' = "zeros" /\ \E f \in Table!Zeroed(fF) : Table!OpenReader(TRUE, iF, f)
  <2>1. PICK f \in Table!Zeroed(fF) : Table!OpenReader(TRUE, iF, f)
    BY <1>12
  <2>2. \/ stage' = "refused" /\ UNCHANGED <<index, bits>>
        \/ stage' = "open" /\ index' = index /\ bits' \in Table!DecodeBloomFilter(f)
    BY <1>2, <1>7, <2>1
  <2>3. bits' \in Table!DecodeBloomFilter(f) => bits' \subseteq 0..(Bits - 1)
    BY FilterInBits
  <2> QED BY <1>5, <1>12, <2>2, <2>3 DEF Reopens
<1> QED BY <1>6, <1>8, <1>9, <1>10, <1>11, <1>12

LEMMA PowerFailsKeepsInv == ASSUME TableAssumption, TableInv, Table!PowerFails PROVE TableInv'
<1>1. /\ stage = "open" /\ damage = "none" /\ iter' = Table!NoBlock /\ from' = 0
      /\ UNCHANGED <<contents, input, hash, currBlock, blocks, minKey, maxKey>>
  BY DEF Table!PowerFails
<1>2. damage' \in {"cut", "zeros"} /\ Reopens
  BY PowerFailsReopens
<1>3. TableTypes /\ Divided /\ Indexed /\ Admitted /\ Len(blocks) \in Nat
  BY DEF TableInv, TableTypes
<1>4. Table!Has' = Table!Has /\ Added' = Added /\ \A j : Table!BitsOf(j)' = Table!BitsOf(j)
  BY <1>1 DEF Table!Has, Table!BitsOf, Added
<1>5. TableTypes'
  <2>1. stage' \in {"open", "refused"}
    BY <1>2 DEF Reopens
  <2>2. iter' \in [block : 0..Len(blocks), entry : Nat] /\ iter'.block = 0
    BY <1>1, <1>3 DEF Table!NoBlock
  <2>3. currBlock' = <<>> /\ input' = <<>>
    BY <1>1, <1>3 DEF TableTypes
  <2> QED BY <1>1, <1>2, <1>3, <1>4, <2>1, <2>2, <2>3 DEF TableTypes, Stages, Damages
<1>6. Divided'
  <2>1. \A b : KeysOf(b)' = KeysOf(b)
    BY <1>1 DEF KeysOf
  <2> QED BY <1>1, <1>3, <1>4, <2>1 DEF Divided
<1>7. Indexed'
  <2>1. CASE UNCHANGED <<index, bits>>
    BY <1>1, <1>3, <2>1 DEF Indexed
  <2>2. CASE damage' = "zeros" /\ index' \in Seq(List!Keys \cup {0}) /\ Len(index') <= Len(index)
    <3>1. Len(index) <= Len(blocks) /\ Len(index) \in Nat /\ Len(index') \in Nat
      BY <1>3, <2>2, IndexType DEF Indexed
    <3>2. Len(index') <= Len(blocks')
      BY <1>1, <1>3, <2>2, <3>1
    <3> QED BY <2>2, <3>2 DEF Indexed
  <2> QED BY <1>2, <2>1, <2>2 DEF Reopens
<1>8. Admitted'
  <2>1. CASE UNCHANGED <<index, bits>>
    BY <1>1, <1>3, <1>4, <2>1 DEF Admitted
  <2>2. CASE damage' = "zeros" /\ bits' \subseteq 0..(Bits - 1)
    BY <1>1, <1>3, <1>4, <2>2 DEF Admitted
  <2> QED BY <1>2, <2>1, <2>2 DEF Reopens
<1>9. Iterating'
  BY <1>1 DEF Iterating, Table!IteratesAll
<1> QED BY <1>5, <1>6, <1>7, <1>8, <1>9 DEF TableInv
-----------------------------------------------------------------------------
\* Every step keeps the list and the table right.
LEMMA TableNextKeepsInv ==
    ASSUME ListAssumption, TableAssumption, TableInv, Table!Next
    PROVE  TableInv'
<1>1. CASE Table!Add
  BY <1>1, AddKeepsInv
<1>2. CASE Table!Finish
  BY <1>2, FinishKeepsInv
<1>3. CASE Table!Close
  BY <1>3, CloseKeepsInv
<1>4. CASE Table!NewIterator
  BY <1>4, NewIteratorKeepsInv
<1>5. CASE Table!IterNext
  BY <1>5, IterNextKeepsInv
<1>6. CASE \E t \in List!Keys : Table!Seek(t)
  BY <1>6, SeekKeepsInv
<1>7. CASE Table!PowerFails
  BY <1>7, PowerFailsKeepsInv
<1> QED BY <1>1, <1>2, <1>3, <1>4, <1>5, <1>6, <1>7, SameKeys DEF Table!Next

LEMMA FlushInit == ASSUME ListAssumption, Init PROVE FlushInv
BY ListInit, TableInit DEF Init, FlushInv

LEMMA FlushKeepsInv ==
    ASSUME ListAssumption, TableAssumption, FlushInv, NEW hashes \in HashFunctions, FlushMemTable(hashes)
    PROVE  FlushInv'
<1> DEFINE sizes == [k \in DOMAIN entries |-> entries[k].size]
<1>1. /\ Table!NewBuilder(List!Snapshot, sizes, hashes)
      /\ next' = [l \in List!Links |-> [n \in {List!HeadNode} |-> List!Nil]]
      /\ height' = 1 /\ entries' = [k \in {} |-> 0] /\ heights' = [k \in {} |-> 0]
      /\ length' = 0 /\ bytes' = 0 /\ model' = [k \in {} |-> 0] /\ puts' = 0
  BY DEF FlushMemTable
<1>2. ListTypes /\ Linked /\ TableInv
  BY DEF FlushInv, ListInv
<1>3. Lists(List!Snapshot, DOMAIN sizes) /\ DOMAIN sizes \subseteq List!Keys
  <2>1. DOMAIN sizes = DOMAIN model /\ DOMAIN model \subseteq List!Keys
    BY <1>2 DEF ListTypes
  <2> QED BY <1>2, <2>1, SnapshotIs
<1>4. hashes \in [List!Keys -> Nat \X Nat]
  BY DEF TableAssumption, List!Keys
<1>5. TableInv'
  <2> HIDE DEF sizes
  <2> QED BY <1>1, <1>2, <1>3, <1>4, NewBuilderKeepsInv
<1>6. ListInv'
  <2>1. List!Init'
    BY <1>1 DEF List!Init
  <2> QED BY <2>1, ListEmptied
<1> QED BY <1>5, <1>6 DEF FlushInv

LEMMA NextKeepsInv ==
    ASSUME ListAssumption, TableAssumption, FlushInv, [Next]_vars
    PROVE  FlushInv'
<1>1. ASSUME UNCHANGED listVars PROVE ListInv'
  <2>1. /\ next' = next /\ height' = height /\ entries' = entries /\ heights' = heights
        /\ length' = length /\ bytes' = bytes /\ model' = model
    BY <1>1 DEF listVars
  <2>2. \A l : Level(heights', l) = Level(heights, l)
    BY <2>1
  <2>3. ListTypes' /\ Linked' /\ Counted'
    BY <2>1, <2>2 DEF FlushInv, ListInv, ListTypes, Linked, Counted
  <2> QED BY <2>3 DEF ListInv
<1>2. ASSUME UNCHANGED tableVars PROVE TableInv'
  <2>1. /\ contents' = contents /\ input' = input /\ hash' = hash /\ stage' = stage
        /\ currBlock' = currBlock /\ blocks' = blocks /\ index' = index /\ bits' = bits
        /\ damage' = damage /\ minKey' = minKey /\ maxKey' = maxKey /\ iter' = iter /\ from' = from
    BY <1>2 DEF tableVars
  <2>2. /\ Table!Has' = Table!Has /\ Added' = Added /\ (\A k : Table!BitsOf(k)' = Table!BitsOf(k))
        /\ \A b : KeysOf(b)' = KeysOf(b)
    BY <2>1 DEF Table!Has, Added, Table!BitsOf, KeysOf
  <2>3. TableInv
    BY DEF FlushInv
  <2>4. TableTypes'
    BY <2>1, <2>2, <2>3 DEF TableInv, TableTypes
  <2>5. Divided'
    BY <2>1, <2>2, <2>3 DEF TableInv, Divided
  <2>6. Indexed' /\ Admitted'
    BY <2>1, <2>2, <2>3 DEF TableInv, Indexed, Admitted
  <2>7. Iterating'
    BY <2>1, <2>2, <2>3 DEF TableInv, Iterating, Table!IteratesAll, Table!Valid, Table!KeyAt
  <2> QED BY <2>4, <2>5, <2>6, <2>7 DEF TableInv
<1>3. CASE \E k \in List!Keys, size \in Sizes, h \in List!Links : Put(k, size, h)
  <2>1. PICK k \in List!Keys, size \in Sizes, h \in List!Links : Put(k, size, h)
    BY <1>3
  <2>2. List!Put(k, size, h) /\ UNCHANGED tableVars
    BY <2>1 DEF Put
  <2>3. ListInv'
    BY <2>2, PutKeepsInv DEF FlushInv
  <2> QED BY <1>2, <2>2, <2>3 DEF FlushInv
<1>4. CASE \E hashes \in HashFunctions : FlushMemTable(hashes)
  BY <1>4, FlushKeepsInv
<1>5. CASE Table!Next /\ UNCHANGED listVars
  BY <1>1, <1>5, TableNextKeepsInv DEF FlushInv
<1>6. CASE UNCHANGED vars
  BY <1>1, <1>2, <1>6 DEF vars, listVars, tableVars, FlushInv
<1> QED BY <1>3, <1>4, <1>5, <1>6 DEF Next
-----------------------------------------------------------------------------
\* FlushInv is an invariant of every way of a memtable to disk and of all that readers,
\* a compaction and a power failure may do to its table.
THEOREM FlushInvariance == Spec => []FlushInv
<1>1. Init => FlushInv
  BY ListAssumption, FlushInit
<1>2. FlushInv /\ [Next]_vars => FlushInv'
  BY ListAssumption, TableAssumption, NextKeepsInv
<1> QED BY <1>1, <1>2, PTL DEF Spec

\* Types of the list and of the table: no iterator stands in a block that was not
\* written (SSTableIterator.loadBlock), whatever was read back of index and filter.
THEOREM FlushTypeCorrect == Spec => []TypeOK
<1>1. FlushInv => TypeOK
  <2> SUFFICES ASSUME FlushInv PROVE TypeOK
    OBVIOUS
  <2>1. List!TypeOK
    BY ListAssumption, ListTypeOK DEF FlushInv
  <2>2. currBlock \in Seq(Table!Keys) /\ blocks \in Seq(Seq(Table!Keys))
    BY SameKeys DEF FlushInv, TableInv, TableTypes, Ordered
  <2>3. index \in Seq(Table!Keys \cup {0}) /\ bits \subseteq 0..(Bits - 1)
    BY SameKeys DEF FlushInv, TableInv, Indexed, Admitted
  <2>4. /\ stage \in {"none", "building", "open", "closed", "refused"}
        /\ damage \in {"none", "cut", "zeros"} /\ iter.block \in 0..Len(blocks)
    BY DEF FlushInv, TableInv, TableTypes, Stages, Damages
  <2> QED BY <2>1, <2>2, <2>3, <2>4 DEF TypeOK, Table!TypeOK
<1> QED BY <1>1, FlushInvariance, PTL

\* The memtable is the map that the puts have made, whatever heights its nodes were
\* given (SkipList.Put, Get, NewIterator, SkipListIterator.Seek, ByteSize).
THEOREM MemtableStaysExact == Spec => []MemtableIsExact
<1>1. FlushInv => MemtableIsExact
  BY ListAssumption, ListSearches, ListIterates, ListCounts DEF MemtableIsExact, FlushInv, ListInv
<1> QED BY <1>1, FlushInvariance, PTL

\* SSTableReader.Get finds the keys that were flushed and no other, with every block
\* size, filter and hash function, and after every power failure that OpenReader has
\* let pass; only of an index or a filter with zeros in it keys may be missing.
THEOREM LookupsStayExact == Spec => []LookupsAreExact
<1>1. FlushInv => LookupsAreExact
  BY TableLooksUp DEF LookupsAreExact, FlushInv, TableInv
<1> QED BY <1>1, FlushInvariance, PTL

\* SSTableIterator.Next and Seek pass every key of the table, in order and once, as
\* long as no Close comes between.
THEOREM IteratorsPassAll == Spec => IteratesWhileOpen
<1>1. FlushInv' => [stage' = "open" /\ damage' # "zeros" => Table!IteratesAll']_(Table!tableVars)
  BY DEF FlushInv, TableInv, Iterating
<1> QED BY <1>1, FlushInvariance, PTL DEF IteratesWhileOpen, Table!IteratesWhileOpen
=============================================================================
