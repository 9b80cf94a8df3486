----------------------------- MODULE MergeProofs -----------------------------
(***************************************************************************)
(* The merging iterator is right for any number of streams and keys: its   *)
(* heap stays one, and it shows the keys in order, each in the entry of    *)
(* the first stream that has it (module MergeIterator).                    *)
(***************************************************************************)
EXTENDS MergeIterator, FiniteSetTheorems, NatLemmas, TLAPS

-----------------------------------------------------------------------------
\* The order of the iterators.

Rests == [Streams -> SUBSET Keys]

\* An iterator that is valid stands on the smallest of the keys that it has left.
LEMMA KeyOfLeast ==
    ASSUME NEW r \in Rests, NEW i \in Streams, r[i] # {}
    PROVE  /\ KeyOf(r, i) \in r[i] /\ KeyOf(r, i) \in Keys /\ KeyOf(r, i) \in Nat
           /\ \A k \in r[i] : KeyOf(r, i) <= k
<1>1. r[i] \subseteq Keys /\ Keys \subseteq Nat
  BY DEF Rests, Keys
<1>2. \E k \in r[i] : \A j \in r[i] : k <= j
  BY <1>1, MinExists
<1>3. KeyOf(r, i) \in r[i] /\ \A k \in r[i] : KeyOf(r, i) <= k
  BY <1>2 DEF KeyOf
<1> QED BY <1>1, <1>3

\* Less orders the valid iterators: no two are the same to it.
LEMMA LessOrders ==
    ASSUME NEW r \in Rests,
           NEW a \in Streams, NEW b \in Streams, NEW c \in Streams,
           r[a] # {}, r[b] # {}, r[c] # {}
    PROVE  /\ Less(r, a, b) => ~Less(r, b, a)
           /\ ~Less(r, a, b) /\ ~Less(r, b, c) => ~Less(r, a, c)
           /\ ~Less(r, a, a)
           /\ ~Less(r, a, b) => KeyOf(r, b) <= KeyOf(r, a)
           /\ ~Less(r, a, b) /\ KeyOf(r, a) = KeyOf(r, b) => b <= a
<1>1. KeyOf(r, a) \in Nat /\ KeyOf(r, b) \in Nat /\ KeyOf(r, c) \in Nat
  BY KeyOfLeast
<1>2. a \in Nat /\ b \in Nat /\ c \in Nat
  BY DEF Streams
<1> QED BY <1>1, <1>2 DEF Less

\* It looks at nothing else than the two iterators.
LEMMA LessLooksAtTwo ==
    ASSUME NEW r, NEW q, NEW a, NEW b, r[a] = q[a], r[b] = q[b]
    PROVE  Less(r, a, b) <=> Less(q, a, b)
<1>1. KeyOf(r, a) = KeyOf(q, a) /\ KeyOf(r, b) = KeyOf(q, b)
  BY DEF KeyOf
<1> QED BY <1>1 DEF Less
-----------------------------------------------------------------------------
\* Heaps.

\* The first n positions of h have the iterators of A, each once, and all of A is valid.
Has(r, h, n, A) ==
    /\ n \in 0..Len(h)
    /\ A \subseteq {i \in Streams : r[i] # {}}
    /\ \A a, b \in 1..n : h[a] = h[b] => a = b
    /\ A = {h[a] : a \in 1..n}

\* No parent is behind a child.
Ordered(r, h, n) == \A a \in 2..n : ~Less(r, h[a], h[a \div 2])

\* No parent but i is behind a child, and no parent of i is behind a child of i.
OrderedBelow(r, h, i, n) ==
    \A a \in 2..n : /\ a \div 2 # i => ~Less(r, h[a], h[a \div 2])
                    /\ a \div 2 = i /\ i # 1 => ~Less(r, h[a], h[i \div 2])

\* No parent is behind a child other than j, and no parent of j behind a child of j.
OrderedAbove(r, h, j, n) ==
    \A a \in 2..n : /\ a # j => ~Less(r, h[a], h[a \div 2])
                    /\ a \div 2 = j /\ j # 1 => ~Less(r, h[a], h[j \div 2])

\* A position has two children at most.
LEMMA Halves ==
    ASSUME NEW a \in Nat, a >= 2
    PROVE  /\ a \div 2 \in Nat /\ a \div 2 >= 1 /\ a \div 2 < a
           /\ a = 2 * (a \div 2) \/ a = 2 * (a \div 2) + 1
OBVIOUS

\* Swapping two of the first n positions leaves the first n with what they had.
LEMMA SwapHas ==
    ASSUME NEW r \in Rests, NEW L \in Nat, NEW h \in Heaps(L), NEW n \in 0..L, NEW A,
           NEW i \in 1..n, NEW j \in 1..n, i # j
    PROVE  /\ Swap(h, i, j) \in Heaps(L)
           /\ Swap(h, i, j)[i] = h[j] /\ Swap(h, i, j)[j] = h[i]
           /\ \A a \in 1..L : a # i /\ a # j => Swap(h, i, j)[a] = h[a]
           /\ Has(r, h, n, A) => Has(r, Swap(h, i, j), n, A)
<1> DEFINE g == Swap(h, i, j)
<1>1. i \in 1..L /\ j \in 1..L /\ h \in [1..L -> Streams]
  BY DEF Heaps
<1>2. /\ g \in [1..L -> Streams] /\ g[i] = h[j] /\ g[j] = h[i]
      /\ \A a \in 1..L : a # i /\ a # j => g[a] = h[a]
  BY <1>1 DEF Swap
<1>3. Len(g) = L /\ Len(h) = L
  BY <1>1, <1>2
<1> HIDE DEF g
<1>4. ASSUME Has(r, h, n, A) PROVE Has(r, g, n, A)
  <2>1. \A a, b \in 1..n : g[a] = g[b] => a = b
    <3> SUFFICES ASSUME NEW a \in 1..n, NEW b \in 1..n, g[a] = g[b] PROVE a = b
      OBVIOUS
    <3>1. a \in 1..L /\ b \in 1..L
      OBVIOUS
    <3>2. \A x, y \in 1..n : h[x] = h[y] => x = y
      BY <1>4 DEF Has
    <3> QED BY <3>1, <3>2, <1>2
  <2>2. ASSUME NEW k PROVE (\E a \in 1..n : g[a] = k) <=> (\E a \in 1..n : h[a] = k)
    <3>1. \A a \in 1..n : a \in 1..L
      OBVIOUS
    <3>2. ASSUME NEW a \in 1..n, g[a] = k PROVE \E b \in 1..n : h[b] = k
      BY <3>1, <3>2, <1>2
    <3>3. ASSUME NEW a \in 1..n, h[a] = k PROVE \E b \in 1..n : g[b] = k
      BY <3>1, <3>3, <1>2
    <3> QED BY <3>2, <3>3
  <2>3. {g[a] : a \in 1..n} = {h[a] : a \in 1..n}
    BY <2>2
  <2> QED BY <1>3, <1>4, <2>1, <2>3 DEF Has
<1> QED BY <1>2, <1>4 DEF Heaps, g

\* What the first n positions hold is valid.
LEMMA HasValid ==
    ASSUME NEW r \in Rests, NEW h, NEW n, NEW A, Has(r, h, n, A), NEW a \in 1..n
    PROVE  h[a] \in Streams /\ r[h[a]] # {} /\ h[a] \in A
<1>1. h[a] \in A
  BY DEF Has
<1> QED BY <1>1 DEF Has

\* The first child of i within n is the one that no child of i is ahead of.
LEMMA ChildFirst ==
    ASSUME NEW r \in Rests, NEW L \in Nat, NEW h \in Heaps(L), NEW n \in 0..L, NEW A,
           Has(r, h, n, A), NEW i \in Nat \ {0}, 2 * i <= n
    PROVE  /\ Child(r, h, i, n) \in 2..n /\ Child(r, h, i, n) \div 2 = i
           /\ Child(r, h, i, n) > i
           /\ \A a \in 2..n : a \div 2 = i => ~Less(r, h[a], h[Child(r, h, i, n)])
<1> DEFINE c == Child(r, h, i, n)
           p == 2 * i
           q == 2 * i + 1
<1>1. p \in 2..n /\ p \div 2 = i /\ p > i /\ q > i /\ q \in Nat /\ q \div 2 = i /\ q >= 2
  OBVIOUS
<1>2. \A a \in 2..n : a \div 2 = i => a = p \/ a = q
  <2> TAKE a \in 2..n
  <2> QED BY Halves
<1>3. CASE q <= n /\ Less(r, h[q], h[p])
  <2>1. c = q
    BY <1>3 DEF Child
  <2>2. q \in 2..n /\ p \in 1..n /\ q \in 1..n
    BY <1>1, <1>3
  <2>3. ~Less(r, h[p], h[q]) /\ ~Less(r, h[q], h[q])
    <3>1. h[p] \in Streams /\ h[q] \in Streams /\ r[h[p]] # {} /\ r[h[q]] # {}
      BY <2>2, HasValid
    <3> QED BY <3>1, <1>3, LessOrders
  <2> HIDE DEF c, p, q
  <2> QED BY <2>1, <2>2, <2>3, <1>1, <1>2 DEF c
<1>4. CASE ~(q <= n /\ Less(r, h[q], h[p]))
  <2>1. c = p
    BY <1>4 DEF Child
  <2>2. p \in 1..n
    BY <1>1
  <2>3. ~Less(r, h[p], h[p])
    <3>1. h[p] \in Streams /\ r[h[p]] # {}
      BY <2>2, HasValid
    <3> QED BY <3>1, LessOrders
  <2>4. \A a \in 2..n : a = q => ~Less(r, h[a], h[p])
    BY <1>4
  <2> HIDE DEF c, p, q
  <2> QED BY <2>1, <2>3, <2>4, <1>1, <1>2 DEF c
<1> QED BY <1>3, <1>4

\* A pass of down moves what may be out of order to the child that was ahead of it.
LEMMA DownStep ==
    ASSUME NEW r \in Rests, NEW L \in Nat, NEW h \in Heaps(L), NEW n \in 0..L, NEW A,
           Has(r, h, n, A), NEW i \in Nat \ {0}, 2 * i <= n,
           OrderedBelow(r, h, i, n), Less(r, h[Child(r, h, i, n)], h[i])
    PROVE  OrderedBelow(r, Swap(h, i, Child(r, h, i, n)), Child(r, h, i, n), n)
<1> DEFINE j == Child(r, h, i, n)
           g == Swap(h, i, j)
<1>1. /\ j \in 2..n /\ j \div 2 = i /\ j > i
      /\ \A a \in 2..n : a \div 2 = i => ~Less(r, h[a], h[j])
  BY ChildFirst
<1> HIDE DEF j
<1>2. i \in 1..n /\ j \in 1..n /\ i # j /\ i \in 1..L /\ j \in 1..L
  BY <1>1
<1>3. /\ g[i] = h[j] /\ g[j] = h[i]
      /\ \A a \in 1..L : a # i /\ a # j => g[a] = h[a]
  BY <1>2, SwapHas
<1> HIDE DEF g
<1>4. \A a \in 1..n : h[a] \in Streams /\ r[h[a]] # {}
  BY HasValid
<1>5. ~Less(r, h[i], h[j])
  BY <1>2, <1>4, LessOrders DEF j
<1>6. ASSUME NEW a \in 2..n
      PROVE  /\ a \div 2 # j => ~Less(r, g[a], g[a \div 2])
             /\ a \div 2 = j => ~Less(r, g[a], g[i])
  <2> DEFINE p == a \div 2
  <2>1. a \in 1..n /\ a \in 1..L /\ p \in 1..n /\ p \in 1..L /\ p < a
    <3>1. a \in Nat /\ a >= 2
      OBVIOUS
    <3>2. p \in Nat /\ p >= 1 /\ p < a
      BY <3>1, Halves
    <3> HIDE DEF p
    <3> QED BY <3>2
  <2>2. /\ p # i => ~Less(r, h[a], h[p])
        /\ p = i /\ i # 1 => ~Less(r, h[a], h[i \div 2])
        /\ p = i => ~Less(r, h[a], h[j])
    BY <1>1 DEF OrderedBelow
  <2>3. CASE p = j
    <3>1. g[a] = h[a] /\ g[i] = h[j]
      BY <2>1, <2>3, <1>1, <1>3
    <3> QED BY <3>1, <2>2, <2>3, <1>2
  <2>4. CASE p = i
    <3>1. CASE a = j
      BY <3>1, <2>4, <1>3, <1>5, <1>2
    <3>2. CASE a # j
      <4>1. g[a] = h[a] /\ g[p] = h[j]
        BY <3>2, <2>1, <2>4, <1>3
      <4> QED BY <4>1, <2>2, <2>4, <1>2
    <3> QED BY <3>1, <3>2
  <2>5. CASE p # i /\ p # j /\ a = i
    <3>1. g[a] = h[j] /\ g[p] = h[p]
      BY <2>5, <2>1, <1>3
    <3>2. ~Less(r, h[j], h[i \div 2])
      <4>1. i # 1
        BY <2>5, <2>1
      <4> QED BY <4>1, <1>1 DEF OrderedBelow
    <3> QED BY <3>1, <3>2, <2>5
  <2>6. CASE p # i /\ p # j /\ a # i
    <3>1. a # j
      BY <2>6, <1>1
    <3>2. g[a] = h[a] /\ g[p] = h[p]
      BY <3>1, <2>6, <2>1, <1>3
    <3> QED BY <3>2, <2>2, <2>6
  <2> QED BY <2>3, <2>4, <2>5, <2>6
<1>7. OrderedBelow(r, g, j, n)
  BY <1>1, <1>6 DEF OrderedBelow
<1> QED BY <1>7 DEF g, j

\* down stops where nothing is out of order any more.
LEMMA DownStops ==
    ASSUME NEW r \in Rests, NEW L \in Nat, NEW h \in Heaps(L), NEW n \in 0..L, NEW A,
           Has(r, h, n, A), NEW i \in Nat \ {0}, OrderedBelow(r, h, i, n),
           2 * i > n \/ ~Less(r, h[Child(r, h, i, n)], h[i])
    PROVE  Ordered(r, h, n)
<1> SUFFICES ASSUME NEW a \in 2..n PROVE ~Less(r, h[a], h[a \div 2])
  BY DEF Ordered
<1>1. CASE a \div 2 # i
  BY <1>1 DEF OrderedBelow
<1>2. CASE a \div 2 = i
  <2>1. 2 * i <= n
    BY <1>2, Halves
  <2> DEFINE j == Child(r, h, i, n)
  <2>2. j \in 1..n /\ ~Less(r, h[a], h[j]) /\ ~Less(r, h[j], h[i])
    BY <2>1, <1>2, ChildFirst
  <2> HIDE DEF j
  <2>3. a \in 1..n /\ i \in 1..n
    BY <2>1
  <2>4. /\ h[a] \in Streams /\ h[j] \in Streams /\ h[i] \in Streams
        /\ r[h[a]] # {} /\ r[h[j]] # {} /\ r[h[i]] # {}
    BY <2>2, <2>3, HasValid
  <2>5. ~Less(r, h[a], h[i])
    BY <2>2, <2>4, LessOrders
  <2> QED BY <2>5, <1>2
<1> QED BY <1>1, <1>2

\* down goes on from position i.
DownGoes(r, g, i, n) == ~(2 * i > n \/ ~Less(r, g[Child(r, g, i, n)], g[i]))

\* Its passes stay in I.
DownKeeps(I, r, L, n) ==
    \A g \in Heaps(L), i \in 1..L :
        <<g, i>> \in I /\ DownGoes(r, g, i, n)
            => <<Swap(g, i, Child(r, g, i, n)), Child(r, g, i, n)>> \in I

\* It may end with d.
DownMayEnd(I, r, L, n, d) ==
    \E k \in 1..L : d \in Heaps(L) /\ <<d, k>> \in I /\ ~DownGoes(r, d, k, n)

\* What every pass of down keeps holds when it is done, and there it stops.
LEMMA DownEnds ==
    ASSUME NEW r, NEW L \in Nat, NEW n \in 0..L, NEW I \in SUBSET (Heaps(L) \X (1..L)),
           DownKeeps(I, r, L, n), NEW h \in Heaps(L), NEW i0 \in 1..L, <<h, i0>> \in I
    PROVE  DownMayEnd(I, r, L, n, Down(r, h, i0, n))
<1> DEFINE S == Heaps(L) \X (1..L)
           Pass(s) == <<Swap(s[1], s[2], Child(r, s[1], s[2], n)), Child(r, s[1], s[2], n)>>
           B  == {s \in S : DownGoes(r, s[1], s[2], n)}
           nx == [s \in S |-> Pass(s)]
           out == [s \in S |-> s[1]]
           m == [s \in S |-> L - s[2]]
           Body(f) == [s \in S |->
               IF 2 * s[2] > n \/ ~Less(r, s[1][Child(r, s[1], s[2], n)], s[1][s[2]])
               THEN s[1] ELSE f[Pass(s)]]
           down == CHOOSE f : f = Body(f)
<1>1. Len(h) = L
  BY DEF Heaps
<1>2. Down(r, h, i0, n) = down[<<h, i0>>]
  BY <1>1 DEF Down
<1>3. ASSUME NEW s \in S \cap B PROVE nx[s] \in S /\ nx[s][2] > s[2] /\ nx[s] = Pass(s)
  <2> DEFINE g == s[1]
             i == s[2]
             c == Child(r, s[1], s[2], n)
  <2>1. g \in Heaps(L) /\ i \in 1..L /\ 2 * i <= n
    BY DEF DownGoes
  <2>2. c \in 1..n /\ c > i
    BY <2>1 DEF Child
  <2>3. Swap(g, i, c) \in Heaps(L)
    <3>1. i \in 1..L /\ c \in 1..L
      BY <2>1, <2>2
    <3> HIDE DEF g, i, c
    <3> QED BY <2>1, <3>1 DEF Swap, Heaps
  <2>4. nx[s] = <<Swap(g, i, c), c>>
    OBVIOUS
  <2> HIDE DEF g, c, nx
  <2> QED BY <2>2, <2>3, <2>4 DEF g, c
<1>4. \A f : Body(f) = [s \in S |-> IF s \in B THEN f[nx[s]] ELSE out[s]]
  BY DEF DownGoes
<1>5. \E f : f = [s \in S |-> IF s \in B THEN f[nx[s]] ELSE out[s]]
  <2> HIDE DEF S, B, nx, out
  <2>1. \A s \in S \cap B : nx[s] \in S
    BY <1>3
  <2>2. HasLoop(S, B, nx, out)
    BY <2>1, LoopExists
  <2> QED BY <2>2 DEF HasLoop
<1>6. down = Body(down)
  <2> HIDE DEF S, B, nx, out, Body
  <2> QED BY <1>4, <1>5
<1>7. \A s \in S : down[s] = IF s \in B THEN down[nx[s]] ELSE out[s]
  <2>1. down = [s \in S |-> IF s \in B THEN down[nx[s]] ELSE out[s]]
    <3> HIDE DEF S, B, nx, out, Body, down
    <3> QED BY <1>4, <1>6
  <2> HIDE DEF S, B, nx, out, down
  <2> QED BY <2>1
<1>8. \A s \in S \cap B : s \in I => nx[s] \in I
  <2> TAKE s \in S \cap B
  <2>1. s = <<s[1], s[2]>> /\ s[1] \in Heaps(L) /\ s[2] \in 1..L /\ DownGoes(r, s[1], s[2], n)
    OBVIOUS
  <2>2. nx[s] = Pass(s)
    BY <1>3
  <2> HIDE DEF S, B, nx
  <2> QED BY <2>1, <2>2 DEF DownKeeps
<1>9. \A s \in I : m[s] \in Nat
  OBVIOUS
<1>10. \A s \in I \cap B : nx[s] \in I /\ m[nx[s]] < m[s]
  <2> TAKE s \in I \cap B
  <2>1. s \in S \cap B /\ nx[s] \in S /\ nx[s][2] > s[2] /\ nx[s] \in I
    BY <1>3, <1>8
  <2>2. m[s] = L - s[2] /\ m[nx[s]] = L - nx[s][2] /\ s[2] \in Nat /\ nx[s][2] \in Nat
    <3> HIDE DEF B, nx
    <3> QED BY <2>1
  <2> HIDE DEF m, nx, B
  <2> QED BY <2>1, <2>2
<1>11. \E e \in I \ B : down[<<h, i0>>] = out[e]
  <2> HIDE DEF S, B, nx, out, m, down
  <2>1. Keeps(I, S, B, nx, m)
    BY <1>9, <1>10 DEF Keeps, S
  <2>2. IsLoop(down, S, B, nx, out)
    BY <1>7 DEF IsLoop
  <2>3. \A s \in I : \E e \in I \ B : down[s] = out[e]
    BY <2>1, <2>2, LoopEnds
  <2> QED BY <2>3
<1>12. PICK e \in I \ B : down[<<h, i0>>] = out[e]
  BY <1>11
<1>13. e = <<e[1], e[2]>> /\ e[1] \in Heaps(L) /\ e[2] \in 1..L /\ out[e] = e[1]
       /\ ~DownGoes(r, e[1], e[2], n)
  OBVIOUS
<1> HIDE DEF down, B, out
<1> QED BY <1>2, <1>12, <1>13 DEF DownMayEnd

\* down leaves a heap in the first n positions and does not touch the others.
LEMMA DownMends ==
    ASSUME NEW r \in Rests, NEW L \in Nat, NEW h \in Heaps(L), NEW n \in 0..L, NEW A,
           L > 0, Has(r, h, n, A), OrderedBelow(r, h, 1, n)
    PROVE  /\ Down(r, h, 1, n) \in Heaps(L)
           /\ Has(r, Down(r, h, 1, n), n, A)
           /\ Ordered(r, Down(r, h, 1, n), n)
<1> DEFINE I == {s \in Heaps(L) \X (1..L) : Has(r, s[1], n, A) /\ OrderedBelow(r, s[1], s[2], n)}
<1>1. ASSUME NEW g \in Heaps(L), NEW i \in 1..L, <<g, i>> \in I, DownGoes(r, g, i, n)
      PROVE  <<Swap(g, i, Child(r, g, i, n)), Child(r, g, i, n)>> \in I
  <2> DEFINE c == Child(r, g, i, n)
  <2>1. Has(r, g, n, A) /\ OrderedBelow(r, g, i, n) /\ i \in Nat \ {0} /\ 2 * i <= n /\ Less(r, g[c], g[i])
    BY <1>1 DEF DownGoes
  <2>2. c \in 2..n /\ c > i
    BY <2>1, ChildFirst
  <2>3. OrderedBelow(r, Swap(g, i, c), c, n)
    BY <2>1, DownStep
  <2> HIDE DEF c
  <2>4. i \in 1..n /\ c \in 1..n /\ i # c /\ c \in 1..L
    BY <2>2
  <2>5. Swap(g, i, c) \in Heaps(L) /\ Has(r, Swap(g, i, c), n, A)
    BY <2>1, <2>4, SwapHas
  <2> QED BY <2>3, <2>4, <2>5 DEF c
<1>2. <<h, 1>> \in I
  OBVIOUS
<1>3. PICK e \in Heaps(L), k \in 1..L :
        <<e, k>> \in I /\ ~DownGoes(r, e, k, n) /\ Down(r, h, 1, n) = e
  <2> DEFINE i0 == 1
  <2>1. i0 \in 1..L /\ I \in SUBSET (Heaps(L) \X (1..L))
    OBVIOUS
  <2> HIDE DEF I
  <2>2. DownKeeps(I, r, L, n) /\ <<h, i0>> \in I
    BY <1>1, <1>2 DEF DownKeeps
  <2> HIDE DEF i0
  <2>3. DownMayEnd(I, r, L, n, Down(r, h, i0, n))
    BY <2>1, <2>2, DownEnds
  <2> QED BY <2>3 DEF i0, DownMayEnd
<1>4. Has(r, e, n, A) /\ OrderedBelow(r, e, k, n) /\ k \in Nat \ {0}
  BY <1>3
<1>5. Ordered(r, e, n)
  BY <1>3, <1>4, DownStops DEF DownGoes
<1> QED BY <1>3, <1>4, <1>5

\* down permutes, whatever is in the heap.
LEMMA DownType ==
    ASSUME NEW r, NEW L \in Nat, NEW h \in Heaps(L), NEW n \in 0..L, L > 0
    PROVE  Down(r, h, 1, n) \in Heaps(L)
<1> DEFINE I == Heaps(L) \X (1..L)
<1>1. ASSUME NEW g \in Heaps(L), NEW i \in 1..L, DownGoes(r, g, i, n)
      PROVE  <<Swap(g, i, Child(r, g, i, n)), Child(r, g, i, n)>> \in I
  <2>1. Child(r, g, i, n) \in 1..L
    BY <1>1 DEF DownGoes, Child
  <2>2. Swap(g, i, Child(r, g, i, n)) \in Heaps(L)
    BY <2>1 DEF Swap, Heaps
  <2> QED BY <2>1, <2>2
<1>2. PICK e \in Heaps(L), k \in 1..L : Down(r, h, 1, n) = e
  <2> DEFINE i0 == 1
  <2>1. i0 \in 1..L /\ I \in SUBSET (Heaps(L) \X (1..L)) /\ <<h, i0>> \in I
    OBVIOUS
  <2> HIDE DEF I
  <2>2. DownKeeps(I, r, L, n)
    BY <1>1 DEF DownKeeps
  <2> HIDE DEF i0
  <2>3. DownMayEnd(I, r, L, n, Down(r, h, i0, n))
    BY <2>1, <2>2, DownEnds
  <2> QED BY <2>3 DEF i0, DownMayEnd
<1> QED BY <1>2

\* A pass of up moves what may be out of order to its parent.
LEMMA UpStep ==
    ASSUME NEW r \in Rests, NEW L \in Nat, NEW h \in Heaps(L), NEW A, Has(r, h, L, A),
           NEW j \in 2..L, OrderedAbove(r, h, j, L), Less(r, h[j], h[j \div 2])
    PROVE  OrderedAbove(r, Swap(h, j \div 2, j), j \div 2, L)
<1> DEFINE i == j \div 2
           g == Swap(h, i, j)
<1>1. i \in 1..L /\ j \in 1..L /\ i < j /\ i # j
  <2>1. j \in Nat /\ j >= 2
    OBVIOUS
  <2>2. i \in Nat /\ i >= 1 /\ i < j
    BY <2>1, Halves
  <2> HIDE DEF i
  <2> QED BY <2>2
<1>2. /\ g[i] = h[j] /\ g[j] = h[i]
      /\ \A a \in 1..L : a # i /\ a # j => g[a] = h[a]
  <2> HIDE DEF i
  <2> QED BY <1>1, SwapHas
<1> HIDE DEF g
<1>3. \A a \in 1..L : h[a] \in Streams /\ r[h[a]] # {}
  BY HasValid
<1>4. Less(r, h[j], h[i]) /\ ~Less(r, h[i], h[j])
  BY <1>1, <1>3, LessOrders
<1>5. ASSUME NEW a \in 2..L
      PROVE  /\ a # i => ~Less(r, g[a], g[a \div 2])
             /\ a \div 2 = i /\ i # 1 => ~Less(r, g[a], g[i \div 2])
  <2> DEFINE p == a \div 2
  <2>1. a \in 1..L /\ p \in 1..L /\ p < a
    <3>1. a \in Nat /\ a >= 2
      OBVIOUS
    <3>2. p \in Nat /\ p >= 1 /\ p < a
      BY <3>1, Halves
    <3> HIDE DEF p
    <3> QED BY <3>2
  <2>2. /\ a # j => ~Less(r, h[a], h[p])
        /\ p = j => ~Less(r, h[a], h[i])
    BY <1>1 DEF OrderedAbove
  <2>3. a # i => ~Less(r, g[a], g[p])
    <3> SUFFICES ASSUME a # i PROVE ~Less(r, g[a], g[p])
      OBVIOUS
    <3>1. CASE a = j
      <4>1. p = i
        BY <3>1
      <4> HIDE DEF i, p
      <4> QED BY <3>1, <4>1, <1>2, <1>4
    <3> HIDE DEF i, p
    <3>2. CASE a # j /\ p = j
      BY <3>2, <2>1, <2>2, <1>2
    <3>3. CASE a # j /\ p = i
      <4>1. g[a] = h[a] /\ g[p] = h[j]
        BY <3>3, <2>1, <1>2
      <4>2. ~Less(r, h[a], h[i])
        BY <3>3, <2>2
      <4>3. ~Less(r, h[a], h[j])
        BY <4>2, <1>1, <1>3, <1>4, <2>1, LessOrders
      <4> QED BY <4>1, <4>3
    <3>4. CASE a # j /\ p # j /\ p # i
      <4>1. g[a] = h[a] /\ g[p] = h[p]
        BY <3>4, <2>1, <1>2
      <4> QED BY <4>1, <3>4, <2>2
    <3> QED BY <3>1, <3>2, <3>3, <3>4
  <2>4. p = i /\ i # 1 => ~Less(r, g[a], g[i \div 2])
    <3> SUFFICES ASSUME p = i, i # 1 PROVE ~Less(r, g[a], g[i \div 2])
      OBVIOUS
    <3> DEFINE q == i \div 2
    <3>1. q \in 1..L /\ q < i /\ i \in 2..L
      <4>1. i \in Nat /\ i >= 2 /\ i <= L
        BY <1>1
      <4> HIDE DEF i
      <4>2. q \in Nat /\ q >= 1 /\ q < i
        BY <4>1, Halves
      <4> HIDE DEF q
      <4> QED BY <4>1, <4>2
    <3>2. ~Less(r, h[i], h[q])
      BY <3>1, <1>1 DEF OrderedAbove
    <3> HIDE DEF i, p, q
    <3>3. g[q] = h[q]
      BY <3>1, <1>1, <1>2
    <3>4. CASE a = j
      <4>1. g[a] = h[i]
        BY <3>4, <1>2
      <4> QED BY <4>1, <3>2, <3>3 DEF q
    <3>5. CASE a # j
      <4>1. g[a] = h[a] /\ ~Less(r, h[a], h[i])
        BY <3>5, <2>1, <2>2, <1>2
      <4>2. ~Less(r, h[a], h[q])
        BY <4>1, <3>1, <3>2, <2>1, <1>1, <1>3, LessOrders
      <4> QED BY <4>1, <4>2, <3>3 DEF q
    <3> QED BY <3>4, <3>5
  <2> QED BY <2>3, <2>4
<1>6. OrderedAbove(r, g, i, L)
  BY <1>5 DEF OrderedAbove
<1> QED BY <1>6 DEF g

\* up goes on from position j.
UpGoes(r, g, j) == ~(j \div 2 = 0 \/ ~Less(r, g[j], g[j \div 2]))

\* Its passes stay in I.
UpKeeps(I, r, L) ==
    \A g \in Heaps(L), j \in 1..L :
        <<g, j>> \in I /\ UpGoes(r, g, j) => <<Swap(g, j \div 2, j), j \div 2>> \in I

\* It may end with u.
UpMayEnd(I, r, L, u) ==
    \E k \in 1..L : u \in Heaps(L) /\ <<u, k>> \in I /\ ~UpGoes(r, u, k)

\* What every pass of up keeps holds when it is done, and there it stops.
LEMMA UpEnds ==
    ASSUME NEW r, NEW L \in Nat, NEW I \in SUBSET (Heaps(L) \X (1..L)), UpKeeps(I, r, L),
           NEW h \in Heaps(L), NEW j0 \in 1..L, <<h, j0>> \in I
    PROVE  UpMayEnd(I, r, L, Up(r, h, j0))
<1> DEFINE S == Heaps(L) \X (1..L)
           Pass(s) == <<Swap(s[1], s[2] \div 2, s[2]), s[2] \div 2>>
           B  == {s \in S : UpGoes(r, s[1], s[2])}
           nx == [s \in S |-> Pass(s)]
           out == [s \in S |-> s[1]]
           m == [s \in S |-> s[2]]
           Body(f) == [s \in S |->
               IF s[2] \div 2 = 0 \/ ~Less(r, s[1][s[2]], s[1][s[2] \div 2])
               THEN s[1] ELSE f[Pass(s)]]
           up == CHOOSE f : f = Body(f)
<1>1. Len(h) = L
  BY DEF Heaps
<1>2. Up(r, h, j0) = up[<<h, j0>>]
  BY <1>1 DEF Up
<1>3. ASSUME NEW s \in S \cap B PROVE nx[s] \in S /\ nx[s][2] < s[2] /\ nx[s] = Pass(s)
  <2> DEFINE g == s[1]
             j == s[2]
             i == j \div 2
  <2>1. g \in Heaps(L) /\ j \in 1..L /\ i # 0
    BY DEF UpGoes
  <2>2. i \in 1..L /\ i < j
    BY <2>1
  <2>3. Swap(g, i, j) \in Heaps(L)
    <3> HIDE DEF g, i, j
    <3> QED BY <2>1, <2>2 DEF Swap, Heaps
  <2>4. nx[s] = <<Swap(g, i, j), i>>
    OBVIOUS
  <2> HIDE DEF g, i, nx
  <2> QED BY <2>2, <2>3, <2>4 DEF g, i
<1>4. \A f : Body(f) = [s \in S |-> IF s \in B THEN f[nx[s]] ELSE out[s]]
  BY DEF UpGoes
<1>5. \E f : f = [s \in S |-> IF s \in B THEN f[nx[s]] ELSE out[s]]
  <2> HIDE DEF S, B, nx, out
  <2>1. \A s \in S \cap B : nx[s] \in S
    BY <1>3
  <2>2. HasLoop(S, B, nx, out)
    BY <2>1, LoopExists
  <2> QED BY <2>2 DEF HasLoop
<1>6. up = Body(up)
  <2> HIDE DEF S, B, nx, out, Body
  <2> QED BY <1>4, <1>5
<1>7. IsLoop(up, S, B, nx, out)
  <2>1. up = [s \in S |-> IF s \in B THEN up[nx[s]] ELSE out[s]]
    <3> HIDE DEF S, B, nx, out, Body, up
    <3> QED BY <1>4, <1>6
  <2> HIDE DEF S, B, nx, out, up
  <2> QED BY <2>1 DEF IsLoop
<1>8. \A s \in S \cap B : s \in I => nx[s] \in I
  <2> TAKE s \in S \cap B
  <2>1. s = <<s[1], s[2]>> /\ s[1] \in Heaps(L) /\ s[2] \in 1..L /\ UpGoes(r, s[1], s[2])
    OBVIOUS
  <2>2. nx[s] = Pass(s)
    BY <1>3
  <2> HIDE DEF S, B, nx
  <2> QED BY <2>1, <2>2 DEF UpKeeps
<1>9. Keeps(I, S, B, nx, m)
  <2>1. \A s \in I : m[s] \in Nat
    OBVIOUS
  <2>2. \A s \in I \cap B : nx[s] \in I /\ m[nx[s]] < m[s]
    <3> TAKE s \in I \cap B
    <3>1. s \in S \cap B /\ nx[s] \in S /\ nx[s][2] < s[2] /\ nx[s] \in I
      BY <1>3, <1>8
    <3>2. m[s] = s[2] /\ m[nx[s]] = nx[s][2]
      <4> HIDE DEF B, nx
      <4> QED BY <3>1
    <3> HIDE DEF m, nx, B
    <3> QED BY <3>1, <3>2
  <2> HIDE DEF B, nx, m
  <2> QED BY <2>1, <2>2 DEF Keeps
<1>10. PICK e \in I \ B : up[<<h, j0>>] = out[e]
  <2> HIDE DEF S, B, nx, out, m, up
  <2> QED BY <1>7, <1>9, LoopEnds
<1>11. e = <<e[1], e[2]>> /\ e[1] \in Heaps(L) /\ e[2] \in 1..L /\ out[e] = e[1]
       /\ ~UpGoes(r, e[1], e[2])
  OBVIOUS
<1> HIDE DEF up, B, out
<1> QED BY <1>2, <1>10, <1>11 DEF UpMayEnd

\* What one more iterator at the end makes of a heap.
LEMMA PushMends ==
    ASSUME NEW r \in Rests, NEW h \in Seq(Streams), NEW A, NEW i \in Streams,
           Has(r, h, Len(h), A), Ordered(r, h, Len(h)), r[i] # {}, i \notin A
    PROVE  /\ Push(r, h, i) \in Seq(Streams)
           /\ Has(r, Push(r, h, i), Len(Push(r, h, i)), A \cup {i})
           /\ Ordered(r, Push(r, h, i), Len(Push(r, h, i)))
<1> DEFINE L == Len(h) + 1
           t == Append(h, i)
           I == {s \in Heaps(L) \X (1..L) : Has(r, s[1], L, A \cup {i}) /\ OrderedAbove(r, s[1], s[2], L)}
<1>1. /\ t \in Heaps(L) /\ Len(t) = L /\ L \in Nat /\ L >= 1 /\ L - 1 = Len(h) /\ t[L] = i
      /\ \A a \in 1..(L - 1) : t[a] = h[a]
  <2>1. L \in Nat /\ L >= 1 /\ L - 1 = Len(h)
    OBVIOUS
  <2>2. t \in Seq(Streams) /\ Len(t) = L /\ t[L] = i
    OBVIOUS
  <2>3. \A a \in 1..Len(h) : t[a] = h[a]
    OBVIOUS
  <2> HIDE DEF t, L
  <2>4. t \in [1..L -> Streams]
    BY <2>2
  <2> QED BY <2>1, <2>2, <2>3, <2>4 DEF Heaps
<1> HIDE DEF t, L
<1>2. Has(r, t, L, A \cup {i})
  <2>1. \A a \in 1..(L - 1) : h[a] \in A
    BY <1>1 DEF Has
  <2>2. \A a, b \in 1..L : t[a] = t[b] => a = b
    <3> SUFFICES ASSUME NEW a \in 1..L, NEW b \in 1..L, t[a] = t[b] PROVE a = b
      OBVIOUS
    <3>1. CASE a \in 1..(L - 1) /\ b \in 1..(L - 1)
      BY <3>1, <1>1 DEF Has
    <3>2. CASE a = L \/ b = L
      <4>1. \A c \in 1..(L - 1) : t[c] # i
        BY <2>1, <1>1
      <4>2. \A c \in 1..L : c = L \/ c \in 1..(L - 1)
        BY <1>1
      <4> QED BY <3>2, <4>1, <4>2, <1>1
    <3> QED BY <3>1, <3>2, <1>1
  <2>3. ASSUME NEW k PROVE k \in A \cup {i} <=> \E a \in 1..L : t[a] = k
    <3>1. L \in 1..L /\ \A a \in 1..L : a = L \/ a \in 1..(L - 1)
      BY <1>1
    <3>2. \A a \in 1..(L - 1) : a \in 1..L
      BY <1>1
    <3>3. k \in A <=> \E a \in 1..(L - 1) : h[a] = k
      BY <1>1 DEF Has
    <3> QED BY <3>1, <3>2, <3>3, <1>1
  <2>4. A \cup {i} \subseteq {k \in Streams : r[k] # {}}
    BY DEF Has
  <2>5. L \in 0..Len(t)
    BY <1>1
  <2>6. A \cup {i} = {t[a] : a \in 1..L}
    BY <2>3
  <2> QED BY <2>2, <2>4, <2>5, <2>6 DEF Has
<1>3. OrderedAbove(r, t, L, L)
  <2> SUFFICES ASSUME NEW a \in 2..L
               PROVE  /\ a # L => ~Less(r, t[a], t[a \div 2])
                      /\ a \div 2 # L
    BY DEF OrderedAbove
  <2>1. a \in Nat /\ a >= 2
    OBVIOUS
  <2>2. a \div 2 \in Nat /\ a \div 2 >= 1 /\ a \div 2 < a
    BY <2>1, Halves
  <2>3. a # L => a \in 2..(L - 1) /\ a \in 1..(L - 1)
    BY <1>1
  <2>4. a \div 2 \in 1..(L - 1)
    BY <2>2, <1>1
  <2>5. a # L => ~Less(r, h[a], h[a \div 2])
    BY <2>3, <1>1 DEF Ordered
  <2> QED BY <2>3, <2>4, <2>5, <1>1
<1>4. UpMayEnd(I, r, L, Up(r, t, L))
  <2>1. I \in SUBSET (Heaps(L) \X (1..L)) /\ L \in 1..L /\ <<t, L>> \in I
    BY <1>1, <1>2, <1>3
  <2>2. ASSUME NEW g \in Heaps(L), NEW j \in 1..L, <<g, j>> \in I, UpGoes(r, g, j)
        PROVE  <<Swap(g, j \div 2, j), j \div 2>> \in I
    <3> DEFINE p == j \div 2
    <3>1. Has(r, g, L, A \cup {i}) /\ OrderedAbove(r, g, j, L) /\ p # 0 /\ Less(r, g[j], g[p])
      BY <2>2 DEF UpGoes
    <3>2. p \in 1..L /\ p # j /\ j \in 2..L
      BY <3>1, <1>1
    <3>3. OrderedAbove(r, Swap(g, p, j), p, L)
      BY <3>1, <3>2, <1>1, UpStep
    <3> HIDE DEF p
    <3>4. Swap(g, p, j) \in Heaps(L) /\ Has(r, Swap(g, p, j), L, A \cup {i})
      <4>1. L \in 0..L /\ p \in 1..L /\ j \in 1..L
        BY <1>1, <3>2
      <4> QED BY <4>1, <1>1, <3>1, <3>2, SwapHas
    <3> QED BY <3>2, <3>3, <3>4 DEF p
  <2> HIDE DEF I
  <2>3. UpKeeps(I, r, L)
    BY <2>2 DEF UpKeeps
  <2> QED BY <1>1, <2>1, <2>3, UpEnds
<1>5. PICK k \in 1..L : /\ Up(r, t, L) \in Heaps(L) /\ <<Up(r, t, L), k>> \in I
                        /\ ~UpGoes(r, Up(r, t, L), k)
  <2> HIDE DEF I
  <2> QED BY <1>4 DEF UpMayEnd
<1> DEFINE u == Up(r, t, L)
<1>6. Push(r, h, i) = u
  BY DEF Push, t, L
<1> HIDE DEF u
<1>7. u \in Heaps(L) /\ Has(r, u, L, A \cup {i}) /\ OrderedAbove(r, u, k, L) /\ ~UpGoes(r, u, k)
  BY <1>5 DEF u
<1>8. Ordered(r, u, L)
  <2> SUFFICES ASSUME NEW a \in 2..L PROVE ~Less(r, u[a], u[a \div 2])
    BY DEF Ordered
  <2>1. CASE a = k
    <3>1. a \div 2 # 0
      OBVIOUS
    <3> QED BY <3>1, <2>1, <1>7 DEF UpGoes
  <2>2. CASE a # k
    BY <2>2, <1>7 DEF OrderedAbove
  <2> QED BY <2>1, <2>2
<1>9. u \in Seq(Streams) /\ Len(u) = L
  BY <1>1, <1>7 DEF Heaps
<1> QED BY <1>6, <1>7, <1>8, <1>9

\* up permutes, whatever is in the heap.
LEMMA PushType ==
    ASSUME NEW r, NEW h \in Seq(Streams), NEW i \in Streams
    PROVE  Push(r, h, i) \in Seq(Streams)
<1> DEFINE L == Len(h) + 1
           t == Append(h, i)
           I == Heaps(L) \X (1..L)
<1>1. t \in Heaps(L) /\ L \in Nat /\ L \in 1..L
  <2>1. L \in Nat /\ L >= 1
    OBVIOUS
  <2>2. t \in Seq(Streams) /\ Len(t) = L
    OBVIOUS
  <2> HIDE DEF t, L
  <2> QED BY <2>1, <2>2 DEF Heaps
<1> HIDE DEF t, L
<1>2. UpKeeps(I, r, L)
  <2> SUFFICES ASSUME NEW g \in Heaps(L), NEW j \in 1..L, UpGoes(r, g, j)
               PROVE  <<Swap(g, j \div 2, j), j \div 2>> \in I
    BY DEF UpKeeps
  <2> DEFINE p == j \div 2
  <2>1. p \in 1..L
    BY <1>1 DEF UpGoes
  <2> HIDE DEF p
  <2>2. Swap(g, p, j) \in Heaps(L)
    BY <2>1 DEF Swap, Heaps
  <2> QED BY <2>1, <2>2 DEF p
<1>3. UpMayEnd(I, r, L, Up(r, t, L))
  <2>1. I \in SUBSET (Heaps(L) \X (1..L)) /\ <<t, L>> \in I
    BY <1>1
  <2> HIDE DEF I
  <2> QED BY <1>1, <1>2, <2>1, UpEnds
<1>4. Up(r, t, L) \in Heaps(L)
  BY <1>3 DEF UpMayEnd
<1>5. Up(r, t, L) \in Seq(Streams)
  BY <1>1, <1>4 DEF Heaps
<1> QED BY <1>5 DEF Push, t, L
-----------------------------------------------------------------------------
\* The merging iterator's heap.

Live(r) == {i \in Streams : r[i] # {}}

\* h is a heap of all the iterators that are valid.
IsHeap(r, h) ==
    /\ h \in Seq(Streams)
    /\ Has(r, h, Len(h), Live(r))
    /\ Ordered(r, h, Len(h))

\* Pushing the valid iterators one by one makes one.
LEMMA PushAllHeap ==
    ASSUME NEW r \in Rests
    PROVE  IsHeap(r, PushAll(r))
<1> DEFINE N == NumStreams
           S == Seq(Streams) \X (1..(N + 1))
           Pass(s) == <<IF r[s[2]] # {} THEN Push(r, s[1], s[2]) ELSE s[1], s[2] + 1>>
           B  == {s \in S : ~(s[2] > N)}
           nx == [s \in S |-> Pass(s)]
           out == [s \in S |-> s[1]]
           m == [s \in S |-> (N + 1) - s[2]]
           Body(f) == [s \in S |-> IF s[2] > N THEN s[1] ELSE f[Pass(s)]]
           push == CHOOSE f : f = Body(f)
           Before(i) == {k \in Live(r) : k < i}
           I == {s \in S : /\ Has(r, s[1], Len(s[1]), Before(s[2]))
                           /\ Ordered(r, s[1], Len(s[1]))}
<1>1. PushAll(r) = push[<<<<>>, 1>>]
  BY DEF PushAll
<1>2. N \in Nat /\ Streams = 1..N
  BY MergeAssumption DEF Streams
<1>3. ASSUME NEW s \in S \cap B
      PROVE  /\ nx[s] \in S /\ nx[s] = Pass(s) /\ nx[s][2] = s[2] + 1
             /\ s[1] \in Seq(Streams) /\ s[2] \in Streams
  <2> DEFINE h == s[1]
             i == s[2]
             q == IF r[i] # {} THEN Push(r, h, i) ELSE h
  <2>1. h \in Seq(Streams) /\ i \in 1..(N + 1) /\ ~(i > N)
    OBVIOUS
  <2>2. i \in Streams /\ i + 1 \in 1..(N + 1)
    BY <2>1, <1>2
  <2> HIDE DEF h, i
  <2>3. q \in Seq(Streams)
    BY <2>1, <2>2, PushType
  <2>4. nx[s] = <<q, i + 1>> /\ nx[s] = Pass(s)
    BY DEF h, i
  <2> HIDE DEF q, nx
  <2>5. nx[s] \in S /\ nx[s][2] = i + 1
    BY <2>2, <2>3, <2>4
  <2> HIDE DEF S
  <2> QED BY <2>1, <2>2, <2>4, <2>5 DEF h, i
<1>4. \A f : Body(f) = [s \in S |-> IF s \in B THEN f[nx[s]] ELSE out[s]]
  OBVIOUS
<1>5. \E f : f = [s \in S |-> IF s \in B THEN f[nx[s]] ELSE out[s]]
  <2> HIDE DEF S, B, nx, out
  <2>1. \A s \in S \cap B : nx[s] \in S
    BY <1>3
  <2>2. HasLoop(S, B, nx, out)
    BY <2>1, LoopExists
  <2> QED BY <2>2 DEF HasLoop
<1>6. push = Body(push)
  <2> HIDE DEF S, B, nx, out, Body
  <2> QED BY <1>4, <1>5
<1>7. IsLoop(push, S, B, nx, out)
  <2>1. push = [s \in S |-> IF s \in B THEN push[nx[s]] ELSE out[s]]
    <3> HIDE DEF S, B, nx, out, Body, push
    <3> QED BY <1>4, <1>6
  <2> HIDE DEF S, B, nx, out, push
  <2> QED BY <2>1 DEF IsLoop
<1>8. ASSUME NEW s \in S \cap B, s \in I PROVE nx[s] \in I
  <2> DEFINE h == s[1]
             i == s[2]
             q == IF r[i] # {} THEN Push(r, h, i) ELSE h
  <2>1. h \in Seq(Streams) /\ i \in Streams /\ i \in Nat /\ nx[s] \in S
    <3>1. h \in Seq(Streams) /\ i \in Streams /\ nx[s] \in S
      <4> HIDE DEF S, B, nx
      <4> QED BY <1>3
    <3> HIDE DEF S, B, nx, h, i
    <3> QED BY <3>1 DEF Streams
  <2>2. nx[s] = <<q, i + 1>>
    BY <1>3
  <2>3. Has(r, h, Len(h), Before(i)) /\ Ordered(r, h, Len(h))
    BY <1>8
  <2>4. Has(r, q, Len(q), Before(i + 1)) /\ Ordered(r, q, Len(q))
    <3>1. \A k \in Streams : k < i + 1 <=> k < i \/ k = i
      BY <2>1 DEF Streams
    <3> HIDE DEF h, i
    <3>2. CASE r[i] # {}
      <4> DEFINE A == Before(i)
      <4>1. Before(i + 1) = A \cup {i} /\ i \notin A
        <5>1. i \in Live(r) /\ ~(i < i)
          BY <3>2, <2>1 DEF Live
        <5>2. \A k \in Live(r) : k < i + 1 <=> k < i \/ k = i
          BY <3>1 DEF Live
        <5> QED BY <5>1, <5>2
      <4>2. q = Push(r, h, i)
        BY <3>2
      <4>3. Has(r, h, Len(h), A) /\ Ordered(r, h, Len(h))
        BY <2>3
      <4> HIDE DEF q, Before, A
      <4>4. /\ Has(r, Push(r, h, i), Len(Push(r, h, i)), A \cup {i})
            /\ Ordered(r, Push(r, h, i), Len(Push(r, h, i)))
        BY <4>1, <4>3, <3>2, <2>1, PushMends
      <4> QED BY <4>1, <4>2, <4>4
    <3>3. CASE r[i] = {}
      <4>1. Before(i + 1) = Before(i)
        BY <3>1, <3>3 DEF Live
      <4> HIDE DEF Before
      <4> QED BY <4>1, <3>3, <2>3
    <3> QED BY <3>2, <3>3
  <2> HIDE DEF q, S, B, nx, h, i, Before
  <2> QED BY <2>1, <2>2, <2>4
<1>9. Keeps(I, S, B, nx, m)
  <2>1. \A s \in I : m[s] \in Nat
    BY <1>2
  <2>2. \A s \in I \cap B : nx[s] \in I /\ m[nx[s]] < m[s]
    <3> TAKE s \in I \cap B
    <3>1. s \in S \cap B /\ nx[s] \in S /\ nx[s][2] = s[2] + 1 /\ nx[s] \in I
      BY <1>3, <1>8
    <3>2. m[s] = (N + 1) - s[2] /\ m[nx[s]] = (N + 1) - (s[2] + 1) /\ s[2] \in Nat
      <4> HIDE DEF B, nx, N
      <4> QED BY <3>1
    <3> HIDE DEF m, nx, B, N, S, I
    <3> QED BY <1>2, <3>1, <3>2
  <2> HIDE DEF B, nx, m
  <2> QED BY <2>1, <2>2 DEF Keeps
<1>10. <<<<>>, 1>> \in I
  <2>1. <<<<>>, 1>> \in S
    <3>1. <<>> \in Seq(Streams) /\ 1 \in 1..(N + 1)
      BY <1>2
    <3> QED BY <3>1
  <2>2. Before(1) = {}
    BY <1>2 DEF Live
  <2>3. Has(r, <<>>, 0, {})
    BY DEF Has
  <2>4. Ordered(r, <<>>, 0)
    BY DEF Ordered
  <2> HIDE DEF Before, S
  <2> QED BY <2>1, <2>2, <2>3, <2>4
<1>11. PICK e \in I \ B : push[<<<<>>, 1>>] = out[e]
  <2> HIDE DEF S, B, nx, out, m, push, I
  <2> QED BY <1>7, <1>9, <1>10, LoopEnds
<1>12. e[1] \in Seq(Streams) /\ e[2] = N + 1 /\ out[e] = e[1]
  BY <1>2
<1>13. Has(r, e[1], Len(e[1]), Before(e[2])) /\ Ordered(r, e[1], Len(e[1]))
  OBVIOUS
<1>14. Before(N + 1) = Live(r)
  BY <1>2 DEF Live
<1> HIDE DEF push, B, out, Before, N
<1> QED BY <1>1, <1>11, <1>12, <1>13, <1>14 DEF IsHeap

\* The root of a heap is an iterator that none is ahead of.
LEMMA RootFirst ==
    ASSUME NEW r \in Rests, NEW h, IsHeap(r, h), h # <<>>
    PROVE  /\ h[1] \in Streams /\ r[h[1]] # {}
           /\ \A i \in Live(r) : ~Less(r, i, h[1])
<1> DEFINE n == Len(h)
           Wrong == {a \in 1..n : Less(r, h[a], h[1])}
<1>1. n \in Nat /\ n >= 1 /\ Has(r, h, n, Live(r)) /\ Ordered(r, h, n)
  BY DEF IsHeap
<1> HIDE DEF n
<1>2. \A a \in 1..n : h[a] \in Streams /\ r[h[a]] # {}
  BY <1>1, HasValid
<1>3. 1 \in 1..n
  BY <1>1
<1>4. Wrong = {}
  <2> SUFFICES ASSUME Wrong # {} PROVE FALSE
    OBVIOUS
  <2>1. Wrong \in SUBSET Nat
    BY <1>1
  <2>2. PICK a \in Wrong : \A b \in Wrong : a <= b
    <3> HIDE DEF Wrong
    <3> QED BY <2>1, MinExists
  <2>3. a \in 1..n /\ Less(r, h[a], h[1])
    OBVIOUS
  <2>4. a # 1
    BY <2>3, <1>2, <1>3, LessOrders
  <2> DEFINE p == a \div 2
  <2>5. a \in 2..n
    BY <2>3, <2>4, <1>1
  <2>6. p \in 1..n /\ p < a
    <3>1. a \in Nat /\ a >= 2
      BY <2>5
    <3>2. p \in Nat /\ p >= 1 /\ p < a
      BY <3>1, Halves
    <3> HIDE DEF p
    <3> QED BY <3>2, <2>5, <1>1
  <2>7. ~Less(r, h[a], h[p])
    BY <1>1, <2>5 DEF Ordered
  <2> HIDE DEF p
  <2>8. ~Less(r, h[p], h[1])
    <3>1. p \notin Wrong
      <4> HIDE DEF Wrong
      <4> QED BY <2>1, <2>2, <2>6
    <3> QED BY <3>1, <2>6
  <2> QED BY <2>3, <2>6, <2>7, <2>8, <1>2, <1>3, LessOrders
<1>5. ASSUME NEW i \in Live(r) PROVE ~Less(r, i, h[1])
  <2>1. PICK a \in 1..n : h[a] = i
    BY <1>1 DEF Has
  <2> QED BY <2>1, <1>4
<1> QED BY <1>2, <1>3, <1>5

\* The first positions of a sequence.
LEMMA Cut ==
    ASSUME NEW T, NEW n \in Nat, NEW d \in [1..n -> T], NEW m \in 0..n
    PROVE  /\ SubSeq(d, 1, m) \in Seq(T) /\ Len(SubSeq(d, 1, m)) = m
           /\ \A a \in 1..m : SubSeq(d, 1, m)[a] = d[a]
<1>1. d \in Seq(T) /\ Len(d) = n
  OBVIOUS
<1>2. CASE m = 0
  BY <1>1, <1>2
<1>3. CASE m # 0
  <2>1. m \in 1..n /\ 1 \in 1..n
    BY <1>3
  <2>2. SubSeq(d, 1, m) \in Seq(T)
    BY <1>1, <2>1
  <2> QED BY <1>1, <2>1, <2>2
<1> QED BY <1>2, <1>3

\* Where the iterators of two positions have not moved, the order is as it was.
LEMMA StaysOrdered ==
    ASSUME NEW r \in Rests, NEW q, NEW h, NEW n \in Nat, NEW A, Has(r, h, n, A),
           n >= 1, \A i \in Streams : i # h[1] => q[i] = r[i], Ordered(r, h, n),
           NEW a \in 2..n, a \div 2 # 1
    PROVE  /\ ~Less(q, h[a], h[a \div 2])
           /\ a \div 2 \in 2..n /\ a \div 2 < a
<1> DEFINE p == a \div 2
<1>1. p \in 2..n /\ p < a
  <2>1. a \in Nat /\ a >= 2
    OBVIOUS
  <2>2. p \in Nat /\ p >= 1 /\ p < a
    BY <2>1, Halves
  <2>3. p # 1
    OBVIOUS
  <2> HIDE DEF p
  <2> QED BY <2>1, <2>2, <2>3
<1>2. ~Less(r, h[a], h[p])
  BY DEF Ordered
<1> HIDE DEF p
<1>3. /\ a \in 1..n /\ p \in 1..n /\ 1 \in 1..n /\ a # 1 /\ p # 1
  BY <1>1
<1>4. h[a] \in Streams /\ h[p] \in Streams
  BY <1>3, HasValid
<1>5. h[a] # h[1] /\ h[p] # h[1]
  BY <1>3 DEF Has
<1>6. ~Less(q, h[a], h[p])
  BY <1>2, <1>4, <1>5, LessLooksAtTwo
<1> QED BY <1>1, <1>6 DEF p

\* When the root's iterator moves on, down or pop makes a heap of it again.
LEMMA RootMoves ==
    ASSUME NEW r \in Rests, NEW h, IsHeap(r, h), h # <<>>, NEW X \in SUBSET Keys,
           NEW q, q = [r EXCEPT ![h[1]] = X]
    PROVE  /\ q \in Rests
           /\ X # {} => IsHeap(q, Down(q, h, 1, Len(h)))
           /\ X = {} => IsHeap(q, Pop(q, h))
<1> DEFINE n == Len(h)
           c == h[1]
<1>1. h \in Seq(Streams) /\ n \in Nat /\ n >= 1 /\ Has(r, h, n, Live(r)) /\ Ordered(r, h, n)
  BY DEF IsHeap
<1>2. h \in Heaps(n)
  BY <1>1 DEF Heaps
<1>3. c \in Streams /\ r[c] # {}
  BY RootFirst
<1> HIDE DEF n, c
<1>4. q = [r EXCEPT ![c] = X]
  BY DEF c
<1>5. q \in Rests /\ q[c] = X /\ \A i \in Streams : i # c => q[i] = r[i]
  BY <1>3, <1>4 DEF Rests
<1>6. c = h[1] /\ 1 \in 1..n /\ n \in 0..n
  BY <1>1 DEF c
<1>7. \A a \in 2..n : a \div 2 # 1 =>
          ~Less(q, h[a], h[a \div 2]) /\ a \div 2 \in 2..n /\ a \div 2 < a
  BY <1>1, <1>5, <1>6, StaysOrdered
<1>8. ASSUME X # {} PROVE IsHeap(q, Down(q, h, 1, n))
  <2>1. Live(q) = Live(r)
    BY <1>3, <1>5, <1>8 DEF Live
  <2>2. Has(q, h, n, Live(q))
    BY <1>1, <2>1 DEF Has, Live
  <2>3. OrderedBelow(q, h, 1, n)
    BY <1>7 DEF OrderedBelow
  <2> DEFINE d == Down(q, h, 1, n)
  <2>4. d \in Heaps(n) /\ Has(q, d, n, Live(q)) /\ Ordered(q, d, n)
    BY <1>1, <1>2, <1>5, <1>6, <2>2, <2>3, DownMends
  <2> HIDE DEF d
  <2>5. d \in Seq(Streams) /\ Len(d) = n
    BY <1>1, <2>4 DEF Heaps
  <2>6. IsHeap(q, d)
    BY <2>4, <2>5 DEF IsHeap
  <2> QED BY <2>6 DEF d
<1>9. ASSUME X = {} PROVE IsHeap(q, Pop(q, h))
  <2> DEFINE m == n - 1
             g == Swap(h, 1, n)
             d == Down(q, g, 1, m)
             u == SubSeq(d, 1, m)
  <2>1. m \in Nat /\ m + 1 = n /\ m \in 0..n /\ n \in 1..n
    BY <1>1
  <2>2. Pop(q, h) = u
    BY <2>1 DEF Pop, n
  <2> HIDE DEF u, m
  <2>3. /\ g \in Heaps(n) /\ g[1] = h[n]
        /\ \A a \in 2..m : g[a] = h[a]
    <3>1. /\ g \in [1..n -> Streams] /\ g[1] = h[n]
          /\ \A a \in 1..n : a # 1 /\ a # n => g[a] = h[a]
      BY <1>2, <1>6, <2>1 DEF Swap, Heaps
    <3>2. \A a \in 2..m : a \in 1..n /\ a # 1 /\ a # n
      BY <2>1
    <3> HIDE DEF g
    <3> QED BY <3>1, <3>2 DEF Heaps
  <2> HIDE DEF g
  <2>4. Len(g) = n
    BY <1>1, <2>3 DEF Heaps
  <2>5. Live(q) = Live(r) \ {c}
    BY <1>3, <1>5, <1>9 DEF Live
  <2>6. \A a \in 2..n : a \in 1..n /\ a # 1
    OBVIOUS
  <2>7. \A a, b \in 1..n : h[a] = h[b] => a = b
    BY <1>1 DEF Has
  <2>8. \A a, b \in 1..m : g[a] = g[b] => a = b
    <3> SUFFICES ASSUME NEW a \in 1..m, NEW b \in 1..m, g[a] = g[b] PROVE a = b
      OBVIOUS
    <3> DEFINE at(x) == IF x = 1 THEN n ELSE x
    <3>1. \A x \in 1..m : at(x) \in 1..n /\ g[x] = h[at(x)]
      <4> TAKE x \in 1..m
      <4>1. CASE x = 1
        BY <4>1, <2>1, <2>3
      <4>2. CASE x # 1
        <5>1. x \in 2..m /\ x \in 1..n
          BY <4>2, <2>1
        <5> QED BY <5>1, <4>2, <2>3
      <4> QED BY <4>1, <4>2
    <3>2. at(a) = at(b)
      <4> HIDE DEF at
      <4> QED BY <3>1, <2>7
    <3> QED BY <3>2, <2>1
  <2>9. ASSUME NEW k PROVE k \in Live(q) <=> \E a \in 1..m : g[a] = k
    <3>1. k \in Live(r) <=> \E a \in 1..n : h[a] = k
      BY <1>1 DEF Has
    <3>2. ASSUME NEW a \in 1..m, g[a] = k PROVE k \in Live(q)
      <4>1. CASE a = 1
        <5>1. n \in 1..n /\ h[n] = k /\ n # 1
          BY <4>1, <3>2, <2>1, <2>3
        <5> QED BY <5>1, <3>1, <2>5, <2>7, <1>6
      <4>2. CASE a # 1
        <5>1. a \in 2..m /\ a \in 1..n
          BY <4>2, <2>1
        <5>2. h[a] = k
          BY <5>1, <3>2, <2>3
        <5> QED BY <5>1, <5>2, <4>2, <3>1, <2>5, <2>7, <1>6
      <4> QED BY <4>1, <4>2
    <3>3. ASSUME k \in Live(q) PROVE \E a \in 1..m : g[a] = k
      <4>1. PICK a \in 1..n : h[a] = k
        BY <3>1, <3>3, <2>5
      <4>2. a # 1
        BY <4>1, <3>3, <2>5, <1>6
      <4>3. CASE a = n
        <5>1. 1 \in 1..m
          BY <4>2, <4>3, <2>1
        <5> QED BY <5>1, <4>1, <4>3, <2>3
      <4>4. CASE a # n
        <5>1. a \in 2..m /\ a \in 1..m
          BY <4>2, <4>4, <2>1
        <5> QED BY <5>1, <4>1, <2>3
      <4> QED BY <4>3, <4>4
    <3> QED BY <3>2, <3>3
  <2>10. Has(q, g, m, Live(q))
    <3>1. Live(q) \subseteq {i \in Streams : q[i] # {}}
      BY DEF Live
    <3> HIDE DEF c
    <3>2. Live(q) = {g[a] : a \in 1..m}
      BY <2>9
    <3> QED BY <3>1, <3>2, <2>1, <2>4, <2>8 DEF Has
  <2>11. OrderedBelow(q, g, 1, m)
    <3> SUFFICES ASSUME NEW a \in 2..m, a \div 2 # 1 PROVE ~Less(q, g[a], g[a \div 2])
      BY DEF OrderedBelow
    <3>1. a \in 2..n
      BY <2>1
    <3>2. ~Less(q, h[a], h[a \div 2]) /\ a \div 2 \in 2..n /\ a \div 2 < a
      BY <3>1, <1>7
    <3> DEFINE p == a \div 2
    <3>3. p \in 2..m
      <4> HIDE DEF p
      <4>1. p \in 2..n /\ p < a
        BY <3>2 DEF p
      <4> QED BY <4>1, <2>1
    <3>4. g[a] = h[a] /\ g[p] = h[p]
      <4> HIDE DEF p
      <4> QED BY <3>3, <2>3
    <3> QED BY <3>2, <3>4
  <2>12. d \in Heaps(n) /\ Has(q, d, m, Live(q)) /\ Ordered(q, d, m)
    BY <1>1, <1>5, <2>1, <2>3, <2>10, <2>11, DownMends
  <2> HIDE DEF d
  <2>13. u \in Seq(Streams) /\ Len(u) = m /\ \A a \in 1..m : u[a] = d[a]
    BY <1>1, <2>1, <2>12, Cut DEF Heaps, u
  <2>14. Has(q, u, m, Live(q))
    <3>1. \A k : (\E a \in 1..m : u[a] = k) <=> (\E a \in 1..m : d[a] = k)
      BY <2>13
    <3>2. m \in 0..Len(u)
      BY <2>1, <2>13
    <3>3. \A a, b \in 1..m : u[a] = u[b] => a = b
      BY <2>12, <2>13 DEF Has
    <3>4. /\ Live(q) \subseteq {i \in Streams : q[i] # {}}
          /\ \A k : k \in Live(q) <=> \E a \in 1..m : d[a] = k
      BY <2>12 DEF Has
    <3>5. \A k : k \in Live(q) <=> \E a \in 1..m : u[a] = k
      BY <3>1, <3>4
    <3>6. Live(q) = {u[a] : a \in 1..m}
      BY <3>5
    <3> QED BY <3>2, <3>3, <3>4, <3>6 DEF Has
  <2>15. Ordered(q, u, m)
    <3> SUFFICES ASSUME NEW a \in 2..m PROVE ~Less(q, u[a], u[a \div 2])
      BY DEF Ordered
    <3> DEFINE p == a \div 2
    <3>1. a \in 1..m /\ p \in 1..m
      <4>1. a \in Nat /\ a >= 2 /\ a <= m
        BY <2>1
      <4>2. p \in Nat /\ p >= 1 /\ p < a
        BY <4>1, Halves
      <4> HIDE DEF p
      <4> QED BY <4>1, <4>2, <2>1
    <3>2. ~Less(q, d[a], d[p])
      BY <2>12 DEF Ordered
    <3> HIDE DEF p
    <3>3. u[a] = d[a] /\ u[p] = d[p]
      BY <3>1, <2>13
    <3> QED BY <3>2, <3>3 DEF p
  <2> QED BY <2>2, <2>13, <2>14, <2>15 DEF IsHeap
<1> QED BY <1>5, <1>8, <1>9 DEF n
-----------------------------------------------------------------------------
\* What StepRoot does.

\* What is left to do in s: the keys to pass and the iterators to pop.
Pairs(r) == {w \in Streams \X Keys : w[2] \in r[w[1]]}
Cost(s) == Cardinality(Pairs(s.rest)) + Len(s.heap)

LEMMA PairsFinite ==
    ASSUME NEW r, NEW q, Pairs(q) \subseteq Pairs(r)
    PROVE  /\ Cardinality(Pairs(r)) \in Nat /\ Cardinality(Pairs(q)) \in Nat
           /\ Cardinality(Pairs(q)) <= Cardinality(Pairs(r))
           /\ Pairs(q) # Pairs(r) => Cardinality(Pairs(q)) < Cardinality(Pairs(r))
<1>1. IsFiniteSet(Streams \X Keys)
  <2>1. IsFiniteSet(Streams) /\ IsFiniteSet(Keys)
    BY MergeAssumption, FS_Interval DEF Streams, Keys
  <2> QED BY <2>1, FS_Product
<1>2. IsFiniteSet(Pairs(r))
  BY <1>1, FS_Subset DEF Pairs
<1>3. IsFiniteSet(Pairs(q)) /\ Cardinality(Pairs(q)) <= Cardinality(Pairs(r))
  BY <1>2, FS_Subset
<1>4. Cardinality(Pairs(r)) = Cardinality(Pairs(q)) => Pairs(q) = Pairs(r)
  BY <1>2, FS_Subset
<1>5. Cardinality(Pairs(r)) \in Nat /\ Cardinality(Pairs(q)) \in Nat
  BY <1>2, <1>3, FS_CardinalityType
<1> QED BY <1>3, <1>4, <1>5

\* Pop cuts one position off.
LEMMA PopType ==
    ASSUME NEW r, NEW h \in Seq(Streams), h # <<>>
    PROVE  Pop(r, h) \in Seq(Streams) /\ Len(Pop(r, h)) = Len(h) - 1
<1> DEFINE n == Len(h)
           m == n - 1
           g == Swap(h, 1, n)
           d == Down(r, g, 1, m)
<1>1. n \in Nat /\ n >= 1 /\ h \in [1..n -> Streams]
  OBVIOUS
<1> HIDE DEF n
<1>2. m \in Nat /\ m + 1 = n /\ m \in 0..n /\ n \in 1..n /\ 1 \in 1..n
  BY <1>1
<1>3. Pop(r, h) = SubSeq(d, 1, m)
  BY <1>2 DEF Pop, n
<1> HIDE DEF m
<1>4. g \in Heaps(n)
  BY <1>1, <1>2 DEF Swap, Heaps
<1> HIDE DEF g
<1>5. d \in Heaps(n)
  BY <1>1, <1>2, <1>4, DownType
<1> HIDE DEF d
<1>6. SubSeq(d, 1, m) \in Seq(Streams) /\ Len(SubSeq(d, 1, m)) = m
  BY <1>1, <1>2, <1>5, Cut DEF Heaps
<1> QED BY <1>3, <1>6 DEF n, m

\* Whatever the state, moving the root leaves less to do.
LEMMA StepRootCosts ==
    ASSUME NEW s \in States, s.heap # <<>>
    PROVE  /\ StepRoot(s) \in States
           /\ Cost(StepRoot(s)) \in Nat /\ Cost(s) \in Nat
           /\ Cost(StepRoot(s)) < Cost(s)
<1> DEFINE h == s.heap
           n == Len(h)
           i == h[1]
           k == KeyOf(s.rest, i)
           r == [s.rest EXCEPT ![i] = @ \ {k}]
           g == IF r[i] # {} THEN Down(r, h, 1, n) ELSE Pop(r, h)
<1>1. s.rest \in Rests /\ h \in Seq(Streams) /\ n \in Nat /\ n >= 1
  BY DEF States, Rests
<1>2. i \in Streams
  BY <1>1
<1>3. StepRoot(s) = [rest |-> r, heap |-> g]
  BY DEF StepRoot
<1> HIDE DEF k
<1>4. r \in Rests /\ r[i] = s.rest[i] \ {k} /\ \A j \in Streams : r[j] \subseteq s.rest[j]
  BY <1>1, <1>2 DEF Rests
<1>5. h \in Heaps(n)
  BY <1>1 DEF Heaps
<1> HIDE DEF h, n
<1>6. CASE r[i] # {}
  <2>1. g \in Heaps(n)
    <3>1. n \in 0..n /\ n > 0
      BY <1>1
    <3>2. Down(r, h, 1, n) \in Heaps(n)
      BY <1>1, <1>5, <3>1, DownType
    <3> QED BY <3>2, <1>6
  <2> HIDE DEF g
  <2>2. g \in Seq(Streams) /\ Len(g) = n
    BY <1>1, <2>1 DEF Heaps
  <2>3. k \in s.rest[i] /\ k \in Keys
    BY <1>1, <1>2, <1>4, <1>6, KeyOfLeast DEF k
  <2> HIDE DEF r, i
  <2>4. Pairs(r) \subseteq Pairs(s.rest) /\ Pairs(r) # Pairs(s.rest)
    <3>1. Pairs(r) \subseteq Pairs(s.rest)
      BY <1>4 DEF Pairs
    <3>2. <<i, k>> \in Pairs(s.rest) /\ <<i, k>> \notin Pairs(r)
      BY <1>2, <1>4, <2>3 DEF Pairs
    <3> QED BY <3>1, <3>2
  <2>5. /\ Cardinality(Pairs(r)) \in Nat /\ Cardinality(Pairs(s.rest)) \in Nat
        /\ Cardinality(Pairs(r)) < Cardinality(Pairs(s.rest))
    BY <2>4, PairsFinite
  <2>6. Cost(StepRoot(s)) = Cardinality(Pairs(r)) + n /\ Cost(s) = Cardinality(Pairs(s.rest)) + n
    BY <1>3, <2>2 DEF Cost, h, n
  <2>7. StepRoot(s) \in States
    BY <1>3, <1>4, <2>2 DEF States, Rests
  <2> QED BY <1>1, <2>5, <2>6, <2>7
<1>7. CASE r[i] = {}
  <2>1. g \in Seq(Streams) /\ Len(g) = n - 1
    <3>1. Pop(r, h) \in Seq(Streams) /\ Len(Pop(r, h)) = n - 1
      BY <1>1, PopType DEF h, n
    <3> QED BY <3>1, <1>7
  <2> HIDE DEF g, r, i
  <2>2. Pairs(r) \subseteq Pairs(s.rest)
    BY <1>4 DEF Pairs
  <2>3. /\ Cardinality(Pairs(r)) \in Nat /\ Cardinality(Pairs(s.rest)) \in Nat
        /\ Cardinality(Pairs(r)) <= Cardinality(Pairs(s.rest))
    BY <2>2, PairsFinite
  <2>4. Cost(StepRoot(s)) = Cardinality(Pairs(r)) + (n - 1) /\ Cost(s) = Cardinality(Pairs(s.rest)) + n
    BY <1>3, <2>1 DEF Cost, h, n
  <2>5. StepRoot(s) \in States
    BY <1>3, <1>4, <2>1 DEF States, Rests
  <2> QED BY <1>1, <2>3, <2>4, <2>5
<1> QED BY <1>6, <1>7

\* A state whose heap is one.
HeapOK(s) == s \in States /\ IsHeap(s.rest, s.heap)

\* Moving the root of a heap passes one key and leaves a heap.
LEMMA StepRootKeeps ==
    ASSUME NEW s, HeapOK(s), s.heap # <<>>
    PROVE  /\ HeapOK(StepRoot(s))
           /\ s.heap[1] \in Streams
           /\ StepRoot(s).rest = [s.rest EXCEPT ![s.heap[1]] = @ \ {KeyOf(s.rest, s.heap[1])}]
<1> DEFINE h == s.heap
           i == h[1]
           X == s.rest[i] \ {KeyOf(s.rest, i)}
           r == [s.rest EXCEPT ![i] = X]
           g == IF r[i] # {} THEN Down(r, h, 1, Len(h)) ELSE Pop(r, h)
<1>1. s \in States /\ s.rest \in Rests /\ IsHeap(s.rest, h)
  BY DEF HeapOK, States, Rests
<1>2. StepRoot(s) = [rest |-> r, heap |-> g]
  BY DEF StepRoot
<1>3. i \in Streams
  BY <1>1, RootFirst
<1>4. X \in SUBSET Keys
  BY <1>1, <1>3 DEF Rests
<1>5. r[i] = X
  BY <1>1, <1>3 DEF Rests
<1> HIDE DEF X
<1>6. /\ X # {} => IsHeap(r, Down(r, h, 1, Len(h)))
      /\ X = {} => IsHeap(r, Pop(r, h))
  BY <1>1, <1>4, RootMoves
<1>7. IsHeap(r, g)
  BY <1>5, <1>6
<1>8. StepRoot(s) \in States
  BY <1>1, StepRootCosts
<1> HIDE DEF r, g
<1>9. HeapOK(StepRoot(s))
  BY <1>2, <1>7, <1>8 DEF HeapOK
<1> QED BY <1>2, <1>3, <1>9 DEF X, r
-----------------------------------------------------------------------------
\* What SkipKey does.

\* Its passes stay in I.
SkipKeeps(I, k) ==
    \A s \in I : s.heap # <<>> /\ KeyOf(s.rest, s.heap[1]) = k => StepRoot(s) \in I

\* What they keep holds when it is done, and then the root is at another key.
LEMMA SkipEnds ==
    ASSUME NEW k, NEW I \in SUBSET States, SkipKeeps(I, k), NEW s0 \in I
    PROVE  /\ SkipKey(s0, k) \in I
           /\ SkipKey(s0, k).heap = <<>>
                \/ KeyOf(SkipKey(s0, k).rest, SkipKey(s0, k).heap[1]) # k
<1> DEFINE S == States
           B  == {s \in S : s.heap # <<>> /\ KeyOf(s.rest, s.heap[1]) = k}
           nx == [s \in S |-> StepRoot(s)]
           out == [s \in S |-> s]
           m == [s \in S |-> Cost(s)]
           Body(f) == [s \in S |-> IF s.heap # <<>> /\ KeyOf(s.rest, s.heap[1]) = k
                                   THEN f[StepRoot(s)] ELSE s]
           skip == CHOOSE f : f = Body(f)
<1>1. SkipKey(s0, k) = skip[s0]
  BY DEF SkipKey
<1>2. \A s \in S \cap B : /\ nx[s] \in S /\ nx[s] = StepRoot(s)
                          /\ m[s] \in Nat /\ m[nx[s]] \in Nat /\ m[nx[s]] < m[s]
  <2> TAKE s \in S \cap B
  <2>1. s \in States /\ s.heap # <<>> /\ nx[s] = StepRoot(s)
    OBVIOUS
  <2> HIDE DEF nx
  <2>2. StepRoot(s) \in States /\ Cost(StepRoot(s)) \in Nat /\ Cost(s) \in Nat
        /\ Cost(StepRoot(s)) < Cost(s)
    BY <2>1, StepRootCosts
  <2> QED BY <2>1, <2>2
<1>3. \A f : Body(f) = [s \in S |-> IF s \in B THEN f[nx[s]] ELSE out[s]]
  OBVIOUS
<1>4. \E f : f = [s \in S |-> IF s \in B THEN f[nx[s]] ELSE out[s]]
  <2> HIDE DEF S, B, nx, out, m
  <2>1. \A s \in S \cap B : nx[s] \in S
    BY <1>2
  <2>2. HasLoop(S, B, nx, out)
    BY <2>1, LoopExists
  <2> QED BY <2>2 DEF HasLoop
<1>5. skip = Body(skip)
  <2> HIDE DEF S, B, nx, out, Body
  <2> QED BY <1>3, <1>4
<1>6. IsLoop(skip, S, B, nx, out)
  <2>1. skip = [s \in S |-> IF s \in B THEN skip[nx[s]] ELSE out[s]]
    <3> HIDE DEF S, B, nx, out, Body, skip
    <3> QED BY <1>3, <1>5
  <2> HIDE DEF S, B, nx, out, skip
  <2> QED BY <2>1 DEF IsLoop
<1>7. \A s \in I : s \in S
  OBVIOUS
<1>8. \A s \in I : m[s] \in Nat
  <2> TAKE s \in I
  <2>1. m[s] = Cost(s)
    BY <1>7
  <2>2. Cost(s) \in Nat
    <3>1. Pairs(s.rest) \subseteq Pairs(s.rest) /\ Len(s.heap) \in Nat
      BY <1>7 DEF States
    <3> QED BY <3>1, PairsFinite DEF Cost
  <2> QED BY <2>1, <2>2
<1>9. \A s \in I \cap B : nx[s] \in I
  <2> TAKE s \in I \cap B
  <2>1. s \in I /\ s.heap # <<>> /\ KeyOf(s.rest, s.heap[1]) = k /\ s \in S \cap B
    BY <1>7
  <2>2. nx[s] = StepRoot(s)
    <3> HIDE DEF nx, S, B, m
    <3> QED BY <1>2, <2>1
  <2> HIDE DEF nx
  <2> QED BY <2>1, <2>2 DEF SkipKeeps
<1>10. Keeps(I, S, B, nx, m)
  <2> HIDE DEF S, B, nx, m
  <2> QED BY <1>2, <1>7, <1>8, <1>9 DEF Keeps
<1>11. PICK e \in I \ B : skip[s0] = out[e]
  <2> HIDE DEF S, B, nx, out, m, skip
  <2> QED BY <1>6, <1>10, LoopEnds
<1>12. e \in I /\ out[e] = e /\ (e.heap = <<>> \/ KeyOf(e.rest, e.heap[1]) # k)
  BY <1>7
<1> HIDE DEF skip, out, B
<1> QED BY <1>1, <1>11, <1>12

\* Whatever the state, skipping a key leaves no more to do.
LEMMA SkipCosts ==
    ASSUME NEW k, NEW s0 \in States
    PROVE  /\ SkipKey(s0, k) \in States
           /\ Cost(SkipKey(s0, k)) \in Nat /\ Cost(SkipKey(s0, k)) <= Cost(s0)
<1> DEFINE I == {s \in States : Cost(s) \in Nat /\ Cost(s) <= Cost(s0)}
<1>1. Cost(s0) \in Nat
  <2>1. Pairs(s0.rest) \subseteq Pairs(s0.rest) /\ Len(s0.heap) \in Nat
    BY DEF States
  <2> QED BY <2>1, PairsFinite DEF Cost
<1>2. s0 \in I /\ I \in SUBSET States
  BY <1>1
<1>3. SkipKeeps(I, k)
  <2> SUFFICES ASSUME NEW s \in I, s.heap # <<>> PROVE StepRoot(s) \in I
    BY DEF SkipKeeps
  <2>1. /\ StepRoot(s) \in States
        /\ Cost(StepRoot(s)) \in Nat /\ Cost(s) \in Nat /\ Cost(StepRoot(s)) < Cost(s)
    BY StepRootCosts
  <2> QED BY <1>1, <2>1
<1>4. SkipKey(s0, k) \in I
  <2> HIDE DEF I
  <2> QED BY <1>2, <1>3, SkipEnds
<1> QED BY <1>4

\* From a heap, it passes key k in every iterator and leaves a heap.
LEMMA SkipSkips ==
    ASSUME NEW k \in Nat, NEW s0, HeapOK(s0)
    PROVE  /\ HeapOK(SkipKey(s0, k))
           /\ (\A i \in Streams : \A x \in s0.rest[i] : k <= x)
                => \A i \in Streams : SkipKey(s0, k).rest[i] = s0.rest[i] \ {k}
<1> DEFINE I == {s \in States : /\ HeapOK(s)
                                /\ \A i \in Streams : /\ s.rest[i] \subseteq s0.rest[i]
                                                      /\ s0.rest[i] \ {k} \subseteq s.rest[i]}
           e == SkipKey(s0, k)
<1>1. s0 \in I /\ I \in SUBSET States
  BY DEF HeapOK
<1>2. SkipKeeps(I, k)
  <2> SUFFICES ASSUME NEW s \in I, s.heap # <<>>, KeyOf(s.rest, s.heap[1]) = k
               PROVE  StepRoot(s) \in I
    BY DEF SkipKeeps
  <2> DEFINE c == s.heap[1]
             t == StepRoot(s)
  <2>1. HeapOK(t) /\ c \in Streams /\ t.rest = [s.rest EXCEPT ![c] = @ \ {k}]
    BY StepRootKeeps
  <2>2. t \in States /\ s.rest \in Rests
    BY <2>1 DEF HeapOK, States, Rests
  <2> HIDE DEF t, c
  <2>3. \A i \in Streams : t.rest[i] \subseteq s.rest[i] /\ s.rest[i] \ {k} \subseteq t.rest[i]
    BY <2>1, <2>2 DEF Rests
  <2>4. t \in I
    BY <2>1, <2>2, <2>3
  <2> QED BY <2>4 DEF t
<1>3. e \in I /\ (e.heap = <<>> \/ KeyOf(e.rest, e.heap[1]) # k)
  <2> HIDE DEF I
  <2> QED BY <1>1, <1>2, SkipEnds
<1> HIDE DEF e
<1>4. HeapOK(e) /\ IsHeap(e.rest, e.heap) /\ e.rest \in Rests
  BY <1>3 DEF HeapOK, States, Rests
<1>5. ASSUME \A i \in Streams : \A x \in s0.rest[i] : k <= x,
             NEW i \in Streams
      PROVE  e.rest[i] = s0.rest[i] \ {k}
  <2>1. e.rest[i] \subseteq s0.rest[i] /\ s0.rest[i] \ {k} \subseteq e.rest[i]
    BY <1>3
  <2>2. ASSUME k \in e.rest[i] PROVE FALSE
    <3>1. i \in Live(e.rest)
      BY <2>2 DEF Live
    <3>2. e.heap # <<>>
      <4>1. \E a \in 1..Len(e.heap) : e.heap[a] = i
        BY <1>4, <3>1 DEF IsHeap, Has
      <4> QED BY <4>1
    <3> DEFINE c == e.heap[1]
    <3>3. c \in Streams /\ e.rest[c] # {} /\ ~Less(e.rest, i, c)
      BY <1>4, <3>1, <3>2, RootFirst
    <3>4. KeyOf(e.rest, c) # k
      BY <1>3, <3>2
    <3> HIDE DEF c
    <3>5. KeyOf(e.rest, c) <= KeyOf(e.rest, i) /\ KeyOf(e.rest, i) <= k
      <4>1. e.rest[i] # {}
        BY <2>2
      <4> QED BY <4>1, <1>4, <2>2, <3>3, LessOrders, KeyOfLeast
    <3>6. KeyOf(e.rest, c) \in e.rest[c] /\ KeyOf(e.rest, c) \in Nat /\ KeyOf(e.rest, i) \in Nat
      BY <1>4, <2>2, <3>3, KeyOfLeast
    <3>7. k <= KeyOf(e.rest, c)
      <4>1. e.rest[c] \subseteq s0.rest[c]
        BY <1>3, <3>3
      <4> QED BY <4>1, <1>5, <3>3, <3>6
    <3> QED BY <3>4, <3>5, <3>6, <3>7
  <2> QED BY <2>1, <2>2
<1> QED BY <1>4, <1>5 DEF e
-----------------------------------------------------------------------------
\* What Advance does.

\* s once its root's key is passed in every iterator.
Passed(s) == SkipKey(StepRoot(s), KeyOf(s.rest, s.heap[1]))

\* Advance does not show the root's entry.
Dropped(s) == dropTombstones /\ streams[s.heap[1]][KeyOf(s.rest, s.heap[1])] = "delete"

AdvanceGoes(s) == s.heap # <<>> /\ Dropped(s)

\* What it ends with at s.
Taken(s) ==
    IF s.heap = <<>> THEN [s |-> s, current |-> NoEntry]
    ELSE [s |-> Passed(s), current |-> [key |-> KeyOf(s.rest, s.heap[1]), src |-> s.heap[1]]]

\* Its passes stay in I.
AdvanceKeeps(I) == \A s \in I : AdvanceGoes(s) => Passed(s) \in I

\* It may end with a.
AdvanceMayEnd(I, a) == \E s \in I : ~AdvanceGoes(s) /\ a = Taken(s)

\* Whatever the state, passing a key leaves less to do.
LEMMA PassedCosts ==
    ASSUME NEW s \in States, s.heap # <<>>
    PROVE  /\ Passed(s) \in States
           /\ Cost(Passed(s)) \in Nat /\ Cost(s) \in Nat /\ Cost(Passed(s)) < Cost(s)
<1> DEFINE t == StepRoot(s)
           k == KeyOf(s.rest, s.heap[1])
<1>1. t \in States /\ Cost(t) \in Nat /\ Cost(s) \in Nat /\ Cost(t) < Cost(s)
  BY StepRootCosts
<1> HIDE DEF t, k
<1>2. SkipKey(t, k) \in States /\ Cost(SkipKey(t, k)) \in Nat /\ Cost(SkipKey(t, k)) <= Cost(t)
  BY <1>1, SkipCosts
<1>3. Passed(s) = SkipKey(t, k)
  BY DEF Passed, t, k
<1> QED BY <1>1, <1>2, <1>3

\* What every pass of advance keeps holds where it takes its entry.
LEMMA AdvanceEnds ==
    ASSUME NEW I \in SUBSET States, AdvanceKeeps(I), NEW s0 \in I
    PROVE  AdvanceMayEnd(I, Advance(s0))
<1> DEFINE S == States
           B  == {s \in S : AdvanceGoes(s)}
           nx == [s \in S |-> Passed(s)]
           out == [s \in S |-> Taken(s)]
           m == [s \in S |-> Cost(s)]
           Body(f) ==
             [s \in S |->
               LET e    == [key |-> KeyOf(s.rest, s.heap[1]), src |-> s.heap[1]]
                   next == SkipKey(StepRoot(s), e.key)
               IN  IF s.heap = <<>> THEN [s |-> s, current |-> NoEntry]
                   ELSE IF dropTombstones /\ streams[e.src][e.key] = "delete" THEN f[next]
                   ELSE [s |-> next, current |-> e]]
           advance == CHOOSE f : f = Body(f)
<1>1. Advance(s0) = advance[s0]
  BY DEF Advance
<1>2. \A s \in S \cap B : /\ nx[s] \in S /\ nx[s] = Passed(s)
                          /\ m[s] \in Nat /\ m[nx[s]] \in Nat /\ m[nx[s]] < m[s]
  <2> TAKE s \in S \cap B
  <2>1. s \in States /\ s.heap # <<>> /\ nx[s] = Passed(s)
    BY DEF AdvanceGoes
  <2> HIDE DEF nx
  <2>2. Passed(s) \in States /\ Cost(Passed(s)) \in Nat /\ Cost(s) \in Nat
        /\ Cost(Passed(s)) < Cost(s)
    BY <2>1, PassedCosts
  <2> QED BY <2>1, <2>2
<1>3. ASSUME NEW f PROVE Body(f) = [s \in S |-> IF s \in B THEN f[nx[s]] ELSE out[s]]
  <2> SUFFICES ASSUME NEW s \in S PROVE Body(f)[s] = IF s \in B THEN f[nx[s]] ELSE out[s]
    OBVIOUS
  <2> DEFINE k == KeyOf(s.rest, s.heap[1])
             c == s.heap[1]
  <2>1. Body(f)[s] = IF s.heap = <<>> THEN [s |-> s, current |-> NoEntry]
                     ELSE IF dropTombstones /\ streams[c][k] = "delete"
                     THEN f[SkipKey(StepRoot(s), k)]
                     ELSE [s |-> SkipKey(StepRoot(s), k), current |-> [key |-> k, src |-> c]]
    OBVIOUS
  <2>2. s \in B <=> s.heap # <<>> /\ dropTombstones /\ streams[c][k] = "delete"
    BY DEF AdvanceGoes, Dropped
  <2>3. nx[s] = SkipKey(StepRoot(s), k)
    BY DEF Passed
  <2>4. out[s] = IF s.heap = <<>> THEN [s |-> s, current |-> NoEntry]
                 ELSE [s |-> SkipKey(StepRoot(s), k), current |-> [key |-> k, src |-> c]]
    BY DEF Taken, Passed
  <2> HIDE DEF Body, B, nx, out, k, c
  <2> QED BY <2>1, <2>2, <2>3, <2>4
<1>4. \E f : f = [s \in S |-> IF s \in B THEN f[nx[s]] ELSE out[s]]
  <2> HIDE DEF S, B, nx, out, m
  <2>1. \A s \in S \cap B : nx[s] \in S
    BY <1>2
  <2>2. HasLoop(S, B, nx, out)
    BY <2>1, LoopExists
  <2> QED BY <2>2 DEF HasLoop
<1>5. advance = Body(advance)
  <2> HIDE DEF S, B, nx, out, Body
  <2> QED BY <1>3, <1>4
<1>6. IsLoop(advance, S, B, nx, out)
  <2>1. advance = [s \in S |-> IF s \in B THEN advance[nx[s]] ELSE out[s]]
    <3> HIDE DEF S, B, nx, out, Body, advance
    <3> QED BY <1>3, <1>5
  <2> HIDE DEF S, B, nx, out, advance
  <2> QED BY <2>1 DEF IsLoop
<1>7. \A s \in I : s \in S
  OBVIOUS
<1>8. \A s \in I : m[s] \in Nat
  <2> TAKE s \in I
  <2>1. m[s] = Cost(s)
    BY <1>7
  <2>2. Cost(s) \in Nat
    <3>1. Pairs(s.rest) \subseteq Pairs(s.rest) /\ Len(s.heap) \in Nat
      BY <1>7 DEF States
    <3> QED BY <3>1, PairsFinite DEF Cost
  <2> QED BY <2>1, <2>2
<1>9. \A s \in I \cap B : nx[s] \in I
  <2> TAKE s \in I \cap B
  <2>1. s \in I /\ AdvanceGoes(s) /\ s \in S \cap B
    BY <1>7
  <2>2. nx[s] = Passed(s)
    <3> HIDE DEF nx, S, B, m
    <3> QED BY <1>2, <2>1
  <2> HIDE DEF nx
  <2> QED BY <2>1, <2>2 DEF AdvanceKeeps
<1>10. Keeps(I, S, B, nx, m)
  <2> HIDE DEF S, B, nx, m
  <2> QED BY <1>2, <1>7, <1>8, <1>9 DEF Keeps
<1>11. PICK e \in I \ B : advance[s0] = out[e]
  <2> HIDE DEF S, B, nx, out, m, advance
  <2> QED BY <1>6, <1>10, LoopEnds
<1>12. e \in I /\ out[e] = Taken(e) /\ ~AdvanceGoes(e)
  BY <1>7
<1> HIDE DEF advance, out, B
<1> QED BY <1>1, <1>11, <1>12 DEF AdvanceMayEnd

\* Passing a key of a heap leaves a heap.
LEMMA PassedKeeps ==
    ASSUME NEW s, HeapOK(s), s.heap # <<>>
    PROVE  /\ HeapOK(Passed(s))
           /\ s.heap[1] \in Streams
           /\ KeyOf(s.rest, s.heap[1]) \in s.rest[s.heap[1]]
           /\ KeyOf(s.rest, s.heap[1]) \in Keys
           /\ \A i \in Streams : \A x \in s.rest[i] : KeyOf(s.rest, s.heap[1]) <= x
           /\ \A i \in Streams : KeyOf(s.rest, s.heap[1]) \in s.rest[i] => s.heap[1] <= i
           /\ \A i \in Streams : Passed(s).rest[i] = s.rest[i] \ {KeyOf(s.rest, s.heap[1])}
<1> DEFINE c == s.heap[1]
           k == KeyOf(s.rest, c)
           t == StepRoot(s)
           p == SkipKey(t, k)
<1>1. HeapOK(t) /\ c \in Streams /\ t.rest = [s.rest EXCEPT ![c] = @ \ {k}]
  BY StepRootKeeps
<1>2. Passed(s) = p
  BY DEF Passed
<1>3. s.rest \in Rests /\ IsHeap(s.rest, s.heap)
  BY DEF HeapOK, States, Rests
<1>4. s.rest[c] # {} /\ \A i \in Live(s.rest) : ~Less(s.rest, i, c)
  BY <1>3, RootFirst
<1> HIDE DEF t, c, p
<1>5. k \in s.rest[c] /\ k \in Keys /\ k \in Nat /\ \A x \in s.rest[c] : k <= x
  BY <1>1, <1>3, <1>4, KeyOfLeast
<1>6. \A i \in Streams : \A x \in s.rest[i] : k <= x /\ (k = x => c <= i)
  <2> TAKE i \in Streams
  <2> TAKE x \in s.rest[i]
  <2>1. s.rest[i] # {} /\ i \in Live(s.rest)
    BY DEF Live
  <2>2. ~Less(s.rest, i, c)
    BY <1>4, <2>1
  <2>3. k <= KeyOf(s.rest, i) /\ (KeyOf(s.rest, i) = k => c <= i)
    BY <1>1, <1>3, <1>4, <2>1, <2>2, LessOrders
  <2>4. KeyOf(s.rest, i) <= x /\ KeyOf(s.rest, i) \in Nat
    BY <1>3, <2>1, KeyOfLeast
  <2>5. x \in Nat
    BY <1>3 DEF Rests, Keys
  <2> HIDE DEF k
  <2> QED BY <1>5, <2>3, <2>4, <2>5
<1> HIDE DEF k
<1>7. \A i \in Streams : t.rest[i] \subseteq s.rest[i] /\ t.rest[i] \ {k} = s.rest[i] \ {k}
  BY <1>1, <1>3 DEF Rests
<1>8. \A i \in Streams : \A x \in t.rest[i] : k <= x
  BY <1>6, <1>7
<1>9. HeapOK(p) /\ \A i \in Streams : p.rest[i] = t.rest[i] \ {k}
  BY <1>1, <1>5, <1>8, SkipSkips DEF p
<1>10. \A i \in Streams : p.rest[i] = s.rest[i] \ {k}
  BY <1>7, <1>9
<1>11. \A i \in Streams : k \in s.rest[i] => c <= i
  BY <1>6
<1> QED BY <1>1, <1>2, <1>5, <1>6, <1>9, <1>10, <1>11 DEF c, k

\* From a heap, advance ends with a heap.
LEMMA AdvanceKeepsHeap ==
    ASSUME NEW s0, HeapOK(s0)
    PROVE  HeapOK(Advance(s0).s)
<1> DEFINE I == {s \in States : HeapOK(s)}
<1>1. I \in SUBSET States /\ s0 \in I
  BY DEF HeapOK
<1>2. AdvanceKeeps(I)
  <2> SUFFICES ASSUME NEW s \in I, AdvanceGoes(s) PROVE Passed(s) \in I
    BY DEF AdvanceKeeps
  <2>1. HeapOK(Passed(s))
    BY PassedKeeps DEF AdvanceGoes
  <2> QED BY <2>1 DEF HeapOK
<1>3. AdvanceMayEnd(I, Advance(s0))
  <2> HIDE DEF I
  <2> QED BY <1>1, <1>2, AdvanceEnds
<1>4. PICK s \in I : Advance(s0) = Taken(s)
  <2> HIDE DEF I
  <2> QED BY <1>3 DEF AdvanceMayEnd
<1>5. HeapOK(s)
  OBVIOUS
<1>6. CASE s.heap = <<>>
  BY <1>4, <1>5, <1>6 DEF Taken
<1>7. CASE s.heap # <<>>
  <2>1. HeapOK(Passed(s))
    BY <1>5, <1>7, PassedKeeps
  <2> QED BY <1>4, <1>7, <2>1 DEF Taken
<1> QED BY <1>6, <1>7
-----------------------------------------------------------------------------
\* The merge.

Readable == streams \in [Streams -> Tables]

\* The entry that the merge has next from f on (IsMerge).
Best(f) ==
    LET Left == {k \in Shown : k >= f}
    IN  IF Left = {} THEN NoEntry
        ELSE LET k == CHOOSE k \in Left : \A j \in Left : k <= j
             IN  [key |-> k, src |-> Winner(k)]

\* Iterators that are placed at f have all their keys from f on.
LEMMA AtType ==
    ASSUME Readable, NEW f \in Nat
    PROVE  /\ At(f) \in Rests
           /\ \A i \in Streams : /\ DOMAIN streams[i] \subseteq Keys
                                 /\ \A k : k \in At(f)[i] <=> k \in DOMAIN streams[i] /\ k >= f
<1>1. \A i \in Streams : DOMAIN streams[i] \subseteq Keys
  <2> TAKE i \in Streams
  <2>1. streams[i] \in Tables
    BY DEF Readable
  <2>2. PICK S \in SUBSET Keys : streams[i] \in [S -> Ops]
    BY <2>1 DEF Tables
  <2> QED BY <2>2
<1> QED BY <1>1 DEF At, Rests

LEMMA BestIs ==
    ASSUME NEW f, NEW k \in Shown, k >= f, \A x \in Shown : x >= f => k <= x
    PROVE  Best(f) = [key |-> k, src |-> Winner(k)]
<1> DEFINE Left == {x \in Shown : x >= f}
           b == CHOOSE x \in Left : \A j \in Left : x <= j
<1>1. k \in Left /\ \A j \in Left : k <= j
  OBVIOUS
<1>2. b \in Left /\ \A j \in Left : b <= j
  BY <1>1
<1>3. b = k
  <2>1. b \in Nat /\ k \in Nat
    BY <1>1, <1>2 DEF Shown, Keys
  <2> HIDE DEF b, Left
  <2> QED BY <1>1, <1>2, <2>1
<1> QED BY <1>1, <1>3 DEF Best

\* The root of iterators placed at f is at the first key from f on, in the first
\* stream that has it, and the iterators are passed to where the next key begins.
LEMMA PassedAt ==
    ASSUME Readable, NEW s, HeapOK(s), s.heap # <<>>, NEW f \in Nat, s.rest = At(f),
           NEW k, k = KeyOf(s.rest, s.heap[1])
    PROVE  /\ k \in Keys /\ k \in Nat /\ k >= f
           /\ Winner(k) = s.heap[1]
           /\ HeapOK(Passed(s)) /\ Passed(s).rest = At(k + 1)
           /\ \A x \in Shown : x >= f => k <= x
           /\ k \in Shown <=> ~Dropped(s)
<1> DEFINE c == s.heap[1]
           p == Passed(s)
<1>1. /\ HeapOK(p) /\ c \in Streams
      /\ k \in s.rest[c] /\ k \in Keys
      /\ \A i \in Streams : \A x \in s.rest[i] : k <= x
      /\ \A i \in Streams : k \in s.rest[i] => c <= i
      /\ \A i \in Streams : p.rest[i] = s.rest[i] \ {k}
  BY PassedKeeps
<1>2. Dropped(s) <=> dropTombstones /\ streams[c][k] = "delete"
  BY DEF Dropped
<1> HIDE DEF c, p
<1>3. k \in Nat /\ k + 1 \in Nat /\ Keys \subseteq Nat
  BY <1>1 DEF Keys
<1>4. \A i \in Streams : /\ DOMAIN streams[i] \subseteq Keys
                         /\ \A x : x \in s.rest[i] <=> x \in DOMAIN streams[i] /\ x >= f
  BY AtType
<1>5. At(k + 1) \in Rests
      /\ \A i \in Streams : \A x : x \in At(k + 1)[i] <=> x \in DOMAIN streams[i] /\ x >= k + 1
  BY <1>3, AtType
<1>6. k >= f /\ k \in DOMAIN streams[c]
  BY <1>1, <1>4
<1>7. p.rest = At(k + 1)
  <2>1. p.rest \in Rests
    BY <1>1 DEF HeapOK, States, Rests
  <2>2. ASSUME NEW i \in Streams PROVE p.rest[i] = At(k + 1)[i]
    <3>1. ASSUME NEW x PROVE x \in p.rest[i] <=> x \in At(k + 1)[i]
      <4>1. CASE x \in DOMAIN streams[i]
        <5>1. x \in Nat
          BY <4>1, <1>3, <1>4
        <5>2. x \in s.rest[i] => k <= x
          BY <1>1
        <5>3. x \in p.rest[i] <=> x >= f /\ x # k
          BY <4>1, <1>1, <1>4
        <5>4. x \in At(k + 1)[i] <=> x >= k + 1
          BY <4>1, <1>5
        <5>5. x >= f => k <= x
          BY <4>1, <5>2, <1>4
        <5> QED BY <5>1, <5>3, <5>4, <5>5, <1>3, <1>6
      <4>2. CASE x \notin DOMAIN streams[i]
        BY <4>2, <1>1, <1>4, <1>5
      <4> QED BY <4>1, <4>2
    <3> QED BY <3>1
  <2> QED BY <1>5, <2>1, <2>2 DEF Rests
<1>8. \A i \in Streams : k \in DOMAIN streams[i] => c <= i
  BY <1>1, <1>4, <1>6
<1>9. Winner(k) = c
  <2>1. \A i \in Streams : i \in Nat
    BY DEF Streams
  <2>2. ASSUME NEW w \in Streams, k \in DOMAIN streams[w],
               \A j \in Streams : k \in DOMAIN streams[j] => w <= j
        PROVE  w = c
    BY <2>1, <2>2, <1>1, <1>6, <1>8
  <2>3. /\ Winner(k) \in Streams /\ k \in DOMAIN streams[Winner(k)]
        /\ \A j \in Streams : k \in DOMAIN streams[j] => Winner(k) <= j
    BY <1>1, <1>6, <1>8 DEF Winner
  <2> QED BY <2>2, <2>3
<1>10. ASSUME NEW x \in Shown, x >= f PROVE k <= x
  <2>1. PICK i \in Streams : x \in DOMAIN streams[i]
    BY DEF Shown
  <2> QED BY <2>1, <1>1, <1>4, <1>10
<1>11. k \in Shown <=> ~Dropped(s)
  BY <1>1, <1>2, <1>6, <1>9 DEF Shown
<1> QED BY <1>1, <1>3, <1>6, <1>7, <1>9, <1>10, <1>11 DEF c, p

\* Where advance takes its entry is a function of where the iterators are placed.
LEMMA AdvanceMerges ==
    ASSUME Readable, NEW s0, HeapOK(s0), NEW f \in Nat, s0.rest = At(f)
    PROVE  /\ Advance(s0).current = Best(f)
           /\ Advance(s0).current # NoEntry =>
                /\ Advance(s0).current.key \in Keys
                /\ Advance(s0).s.rest = At(Advance(s0).current.key + 1)
<1> DEFINE Placed(s, g) == /\ g >= f /\ s.rest = At(g)
                           /\ \A x \in Shown : x >= f => g <= x
           I == {s \in States : HeapOK(s) /\ \E g \in Nat : Placed(s, g)}
<1>1. I \in SUBSET States /\ s0 \in I
  <2>1. Placed(s0, f)
    OBVIOUS
  <2> HIDE DEF Placed
  <2> QED BY <2>1 DEF HeapOK
<1>2. AdvanceKeeps(I)
  <2> SUFFICES ASSUME NEW s \in I, AdvanceGoes(s) PROVE Passed(s) \in I
    BY DEF AdvanceKeeps
  <2>1. s.heap # <<>> /\ Dropped(s) /\ HeapOK(s)
    BY DEF AdvanceGoes
  <2>2. PICK g \in Nat : Placed(s, g)
    OBVIOUS
  <2> DEFINE k == KeyOf(s.rest, s.heap[1])
  <2>3. /\ k \in Keys /\ k \in Nat /\ k >= g
        /\ HeapOK(Passed(s)) /\ Passed(s).rest = At(k + 1)
        /\ \A x \in Shown : x >= g => k <= x
        /\ k \in Shown <=> ~Dropped(s)
    BY <2>1, <2>2, PassedAt
  <2> HIDE DEF k
  <2>4. Placed(Passed(s), k + 1)
    <3>1. ASSUME NEW x \in Shown, x >= f PROVE k + 1 <= x
      <4>1. x \in Nat
        BY DEF Shown, Keys
      <4>2. g <= x
        BY <2>2, <3>1
      <4>3. k <= x
        BY <4>1, <4>2, <2>3
      <4>4. x # k
        BY <2>1, <2>3
      <4> QED BY <4>1, <4>3, <4>4, <2>3
    <3>2. k + 1 >= f
      BY <2>2, <2>3
    <3> QED BY <2>3, <3>1, <3>2
  <2> HIDE DEF Placed
  <2>5. Passed(s) \in States /\ k + 1 \in Nat
    BY <2>3 DEF HeapOK
  <2> QED BY <2>3, <2>4, <2>5
<1>3. AdvanceMayEnd(I, Advance(s0))
  <2> HIDE DEF I
  <2> QED BY <1>1, <1>2, AdvanceEnds
<1>4. PICK s \in I : ~AdvanceGoes(s) /\ Advance(s0) = Taken(s)
  <2> HIDE DEF I
  <2> QED BY <1>3 DEF AdvanceMayEnd
<1> DEFINE a == Advance(s0)
<1>5. PICK g \in Nat : HeapOK(s) /\ Placed(s, g)
  OBVIOUS
<1>6. CASE s.heap = <<>>
  <2>1. a.current = NoEntry
    BY <1>4, <1>6 DEF Taken
  <2>2. Live(s.rest) = {}
    <3>1. Has(s.rest, s.heap, Len(s.heap), Live(s.rest))
      BY <1>5 DEF HeapOK, IsHeap
    <3>2. Len(s.heap) = 0
      BY <1>6
    <3> QED BY <3>1, <3>2 DEF Has
  <2>3. {k \in Shown : k >= f} = {}
    <3> SUFFICES ASSUME NEW k \in Shown, k >= f PROVE FALSE
      OBVIOUS
    <3>1. PICK i \in Streams : k \in DOMAIN streams[i]
      BY DEF Shown
    <3>2. g <= k
      BY <1>5
    <3>3. k \in Nat
      BY DEF Shown, Keys
    <3>4. k \in s.rest[i]
      <4>1. k >= g
        BY <3>2, <3>3
      <4>2. s.rest = At(g)
        BY <1>5
      <4> QED BY <3>1, <4>1, <4>2, AtType
    <3> QED BY <3>4, <2>2 DEF Live
  <2> QED BY <2>1, <2>3 DEF Best
<1>7. CASE s.heap # <<>>
  <2> DEFINE k == KeyOf(s.rest, s.heap[1])
             c == s.heap[1]
  <2>1. ~Dropped(s)
    BY <1>4, <1>7 DEF AdvanceGoes
  <2>2. /\ k \in Keys /\ k \in Nat /\ k >= g
        /\ Winner(k) = c
        /\ Passed(s).rest = At(k + 1)
        /\ \A x \in Shown : x >= g => k <= x
        /\ k \in Shown <=> ~Dropped(s)
    BY <1>5, <1>7, PassedAt
  <2>3. a = [s |-> Passed(s), current |-> [key |-> k, src |-> c]]
    BY <1>4, <1>7 DEF Taken
  <2> HIDE DEF k, c, a
  <2>4. k >= f
    BY <1>5, <2>2
  <2>5. ASSUME NEW x \in Shown, x >= f PROVE k <= x
    <3>1. x \in Nat /\ g <= x
      BY <1>5, <2>5 DEF Shown, Keys
    <3> QED BY <3>1, <2>2
  <2>6. Best(f) = [key |-> k, src |-> c]
    BY <2>1, <2>2, <2>4, <2>5, BestIs
  <2> QED BY <2>2, <2>3, <2>6 DEF a
<1> QED BY <1>6, <1>7
-----------------------------------------------------------------------------
\* The invariant: the heap is one of the valid iterators, and, as long as every
\* block could be loaded, the iterators are placed after the key that is shown.
MergeInv ==
    /\ Readable
    /\ errors \in Nat
    /\ from > 0 => HeapOK([rest |-> rest, heap |-> heap])
    /\ from > 0 /\ errors = 0 =>
         /\ current = Best(from)
         /\ current # NoEntry => current.key \in Keys /\ rest = At(current.key + 1)

\* A move from iterators placed at from' shows what the merge has next.
LEMMA MoveKeeps ==
    ASSUME Readable, NEW s, HeapOK(s), Move(s),
           UNCHANGED <<streams, dropTombstones>>,
           errors' \in Nat, errors' = 0 => from' \in Nat /\ s.rest = At(from')
    PROVE  MergeInv'
<1> DEFINE a == Advance(s)
<1>1. rest' = a.s.rest /\ heap' = a.s.heap /\ current' = a.current
  BY DEF Move
<1>2. HeapOK(a.s)
  BY AdvanceKeepsHeap
<1>3. errors' = 0 =>
        /\ a.current = Best(from')
        /\ a.current # NoEntry => a.current.key \in Keys /\ a.s.rest = At(a.current.key + 1)
  BY AdvanceMerges
<1> HIDE DEF a
<1>4. HeapOK([rest |-> rest', heap |-> heap'])
  BY <1>1, <1>2 DEF HeapOK, States
<1>5. \A f : Best(f)' = Best(f') /\ At(f)' = At(f')
  BY DEF Best, Shown, Winner, At
<1>6. Readable'
  BY DEF Readable
<1> QED BY <1>1, <1>3, <1>4, <1>5, <1>6 DEF MergeInv

LEMMA MergeInvInit ==
    ASSUME Init
    PROVE  MergeInv
BY DEF Init, MergeInv, Readable

\* An iterator that ends early has fewer keys.
LEMMA EndsType ==
    ASSUME NEW r \in Rests, NEW i \in Streams, NEW k \in Keys
    PROVE  EndsBefore(r, i, k) \in Rests
BY DEF EndsBefore, Rests

\* Iterators that are pushed one by one make a heap, wherever they stand.
LEMMA PushedIsHeap ==
    ASSUME NEW r \in Rests
    PROVE  HeapOK([rest |-> r, heap |-> PushAll(r)])
<1>1. IsHeap(r, PushAll(r))
  BY PushAllHeap
<1> QED BY <1>1 DEF HeapOK, States, Rests, IsHeap

\* NewMergedIterator and Seek, whether the blocks they place the iterators in can be
\* loaded or not.
LEMMA PlaceKeeps ==
    ASSUME Readable, errors \in Nat, NEW f \in Nat, Place(f), from' = f,
           UNCHANGED <<streams, dropTombstones>>
    PROVE  MergeInv'
<1>1. At(f) \in Rests
  BY AtType
<1>2. CASE Start(At(f)) /\ UNCHANGED errors
  <2> DEFINE s == [rest |-> At(f), heap |-> PushAll(At(f))]
  <2>1. HeapOK(s)
    BY <1>1, PushedIsHeap
  <2>2. Move(s) /\ s.rest = At(from')
    BY <1>2 DEF Start
  <2> HIDE DEF s
  <2> QED BY <1>2, <2>1, <2>2, MoveKeeps
<1>3. ASSUME NEW i \in Streams, NEW k \in At(f)[i],
             errors' = errors + 1, Start(EndsBefore(At(f), i, k))
      PROVE  MergeInv'
  <2> DEFINE r == EndsBefore(At(f), i, k)
             s == [rest |-> r, heap |-> PushAll(r)]
  <2>1. k \in Keys
    BY <1>1 DEF Rests
  <2>2. r \in Rests
    BY <1>1, <2>1, EndsType
  <2> HIDE DEF r
  <2>3. HeapOK(s)
    BY <2>2, PushedIsHeap
  <2>4. Move(s)
    BY <1>3 DEF Start, r
  <2> HIDE DEF s
  <2>5. errors' \in Nat /\ errors' # 0
    BY <1>3
  <2> QED BY <2>3, <2>4, <2>5, MoveKeeps
<1> QED BY <1>2, <1>3 DEF Place

\* NewMergedIterator: the iterators are placed at their first entries.
LEMMA NewKeepsInv ==
    ASSUME MergeInv, New
    PROVE  MergeInv'
BY PlaceKeeps DEF MergeInv, New

LEMMA NextKeepsInv ==
    ASSUME MergeInv, Next
    PROVE  MergeInv'
<1> DEFINE s == [rest |-> rest, heap |-> heap]
<1>1. Readable /\ errors \in Nat /\ HeapOK(s) /\ Move(s) /\ from' = current.key + 1
  BY DEF MergeInv, Next
<1>2. errors = 0 => current.key \in Keys /\ rest = At(current.key + 1)
  BY DEF MergeInv, Next
<1>3. errors = 0 => from' \in Nat /\ s.rest = At(from')
  BY <1>1, <1>2 DEF Keys
<1> HIDE DEF s
<1> QED BY <1>1, <1>3, MoveKeeps DEF Next

\* Seek: the iterators are placed anew and the heap is built again.
LEMMA SeekKeepsInv ==
    ASSUME MergeInv, NEW t \in Keys, Seek(t)
    PROVE  MergeInv'
BY PlaceKeeps DEF MergeInv, Seek, Keys

\* An iterator whose later blocks are gone stands where it stood, so that nothing in
\* the heap moves.
LEMMA LoadErrorKeepsInv ==
    ASSUME MergeInv, NEW i \in Streams, LoadError(i)
    PROVE  MergeInv'
<1> PICK k \in rest[i] : k # KeyOf(rest, i) /\ rest' = EndsBefore(rest, i, k)
  BY DEF LoadError
<1>1. /\ Readable /\ errors \in Nat /\ errors' = errors + 1
      /\ HeapOK([rest |-> rest, heap |-> heap])
      /\ heap' = heap /\ streams' = streams
  BY DEF MergeInv, LoadError
<1>2. rest \in Rests /\ heap \in Seq(Streams) /\ IsHeap(rest, heap)
  BY <1>1 DEF HeapOK, States, Rests
<1>3. k \in Keys
  BY <1>2 DEF Rests
<1>4. rest' \in Rests
  BY <1>2, <1>3, EndsType
<1>5. KeyOf(rest, i) \in rest'[i]
  <2>1. KeyOf(rest, i) \in rest[i] /\ KeyOf(rest, i) \in Nat /\ KeyOf(rest, i) <= k
    BY <1>2, KeyOfLeast
  <2>2. KeyOf(rest, i) < k
    BY <2>1, <1>3 DEF Keys
  <2> QED BY <1>2, <2>1, <2>2 DEF EndsBefore, Rests
<1>6. \A j \in Streams : rest'[j] \subseteq rest[j] /\ (j # i => rest'[j] = rest[j])
  BY <1>2 DEF EndsBefore, Rests
<1>7. Live(rest') = Live(rest)
  BY <1>5, <1>6 DEF Live
<1>8. ASSUME NEW j \in Live(rest) PROVE KeyOf(rest', j) = KeyOf(rest, j)
  <2>1. CASE j = i
    <3>1. /\ KeyOf(rest, i) \in rest[i] /\ KeyOf(rest, i) \in Nat
          /\ \A x \in rest[i] : KeyOf(rest, i) <= x
      BY <1>2, KeyOfLeast
    <3>2. /\ KeyOf(rest', i) \in rest'[i] /\ KeyOf(rest', i) \in Nat
          /\ \A x \in rest'[i] : KeyOf(rest', i) <= x
      BY <1>4, <1>5, KeyOfLeast
    <3> QED BY <2>1, <3>1, <3>2, <1>5, <1>6
  <2>2. CASE j # i
    BY <2>2, <1>6 DEF KeyOf, Live
  <2> QED BY <2>1, <2>2
<1>9. IsHeap(rest', heap)
  <2>1. Has(rest', heap, Len(heap), Live(rest'))
    BY <1>2, <1>7 DEF IsHeap, Has, Live
  <2>2. ASSUME NEW a \in 2..Len(heap) PROVE ~Less(rest', heap[a], heap[a \div 2])
    <3>1. a \in 1..Len(heap) /\ a \div 2 \in 1..Len(heap)
      BY <1>2
    <3>2. heap[a] \in Live(rest) /\ heap[a \div 2] \in Live(rest)
      BY <1>2, <3>1, HasValid DEF IsHeap
    <3>3. ~Less(rest, heap[a], heap[a \div 2])
      BY <1>2 DEF IsHeap, Ordered
    <3> QED BY <1>8, <3>2, <3>3 DEF Less
  <2> QED BY <1>2, <2>1, <2>2 DEF IsHeap, Ordered
<1>10. HeapOK([rest |-> rest', heap |-> heap'])
  BY <1>1, <1>2, <1>4, <1>9 DEF HeapOK, States, Rests
<1>11. errors' \in Nat /\ errors' # 0 /\ Readable'
  BY <1>1 DEF Readable
<1> QED BY <1>10, <1>11 DEF MergeInv

\* The heap and where the iterators are placed, in every state (MergeInv).
THEOREM MergeInvariance == Spec => []MergeInv
<1>1. Init => MergeInv
  BY MergeInvInit
<1>2. MergeInv /\ [NextStep]_mergeVars => MergeInv'
  <2> SUFFICES ASSUME MergeInv, [NextStep]_mergeVars PROVE MergeInv'
    OBVIOUS
  <2>1. CASE New
    BY <2>1, NewKeepsInv
  <2>2. CASE Next
    BY <2>2, NextKeepsInv
  <2>3. CASE \E t \in Keys : Seek(t)
    BY <2>3, SeekKeepsInv
  <2>4. CASE \E i \in Streams : LoadError(i)
    BY <2>4, LoadErrorKeepsInv
  <2>5. CASE UNCHANGED mergeVars
    <3>1. /\ streams' = streams /\ dropTombstones' = dropTombstones
          /\ rest' = rest /\ heap' = heap /\ current' = current
          /\ from' = from /\ errors' = errors
      BY <2>5 DEF mergeVars
    <3>2. \A f : Best(f)' = Best(f) /\ At(f)' = At(f)
      BY <3>1 DEF Best, Shown, Winner, At
    <3>3. Readable' <=> Readable
      BY <3>1 DEF Readable
    <3> QED BY <3>1, <3>2, <3>3 DEF MergeInv
  <2> QED BY <2>1, <2>2, <2>3, <2>4, <2>5 DEF NextStep
<1> QED BY <1>1, <1>2, PTL DEF Spec

\* The heap has every iterator that is valid, once, and no parent of it is behind
\* a child, whichever keys the iterators are at and whichever of them end early
\* (HeapInvariant).
THEOREM HeapStaysHeap == Spec => []HeapInvariant
<1>1. MergeInv => HeapInvariant
  <2> SUFFICES ASSUME MergeInv, from > 0
               PROVE  /\ \A i \in Streams : Cardinality({j \in 1..Len(heap) : heap[j] = i})
                                              = (IF rest[i] = {} THEN 0 ELSE 1)
                      /\ \A j \in 2..Len(heap) : ~Less(rest, heap[j], heap[j \div 2])
    BY DEF HeapInvariant
  <2>1. Has(rest, heap, Len(heap), Live(rest)) /\ Ordered(rest, heap, Len(heap))
    BY DEF MergeInv, HeapOK, IsHeap
  <2>2. ASSUME NEW i \in Streams
        PROVE  Cardinality({j \in 1..Len(heap) : heap[j] = i}) = (IF rest[i] = {} THEN 0 ELSE 1)
    <3> DEFINE P == {j \in 1..Len(heap) : heap[j] = i}
    <3>1. i \in Live(rest) <=> rest[i] # {}
      BY DEF Live
    <3>2. i \in Live(rest) <=> P # {}
      BY <2>1 DEF Has
    <3>3. CASE P = {}
      <4>1. Cardinality(P) = 0
        <5> HIDE DEF P
        <5> QED BY <3>3, FS_EmptySet
      <4> QED BY <4>1, <3>1, <3>2, <3>3
    <3>4. CASE P # {}
      <4>1. PICK a \in P : TRUE
        BY <3>4
      <4>2. P = {a}
        BY <4>1, <2>1 DEF Has
      <4>3. Cardinality(P) = 1
        <5> HIDE DEF P
        <5> QED BY <4>2, FS_Singleton
      <4> QED BY <4>3, <3>1, <3>2, <3>4
    <3> QED BY <3>3, <3>4
  <2>3. \A j \in 2..Len(heap) : ~Less(rest, heap[j], heap[j \div 2])
    BY <2>1 DEF Ordered
  <2> QED BY <2>2, <2>3
<1> QED BY <1>1, MergeInvariance, PTL

\* The iterator stands on the next key of the merge that is not deleted, with the
\* entry of the stream of highest priority, or on nothing when there is none, as
\* long as every block could be loaded (IsMerge).
THEOREM ShowsTheMerge == Spec => []IsMerge
<1>1. MergeInv => IsMerge
  <2> SUFFICES ASSUME MergeInv, from > 0, errors = 0 PROVE current = Best(from)
    BY DEF IsMerge, Best
  <2> QED BY DEF MergeInv
<1> QED BY <1>1, MergeInvariance, PTL
=============================================================================
