------------------------------ MODULE NatLemmas ------------------------------
(***************************************************************************)
(* Least and greatest elements of sets of natural numbers, and what they   *)
(* tell of loops.                                                          *)
(***************************************************************************)
EXTENDS Integers, FiniteSets, FiniteSetTheorems, WellFoundedInduction, TLAPS

\* A nonempty set of natural numbers has a least element: the CHOOSE that picks
\* the first WAL file to replay picks one.
LEMMA MinExists ==
    ASSUME NEW S \in SUBSET Nat, S # {}
    PROVE  \E m \in S : \A n \in S : m <= n
<1> DEFINE Below == {0..n : n \in S}
<1>1. Below \subseteq FiniteSubsetsOf(Nat) /\ Below # {}
  <2>1. \A n \in S : IsFiniteSet(0..n) /\ 0..n \subseteq Nat
    BY FS_Interval
  <2>2. \A n \in S : 0..n \in FiniteSubsetsOf(Nat)
    BY <2>1 DEF FiniteSubsetsOf
  <2> QED BY <2>2
<1>2. \E X \in Below : \A Y \in Below : ~(<<Y, X>> \in StrictSubsetOrdering(Nat))
  <2> HIDE DEF Below
  <2> QED BY <1>1, FS_StrictSubsetOrderingWellFounded, WFMin
<1>3. PICK m \in S : \A n \in S : ~(<<0..n, 0..m>> \in StrictSubsetOrdering(Nat))
  BY <1>2
<1>4. ASSUME NEW n \in S, n < m PROVE FALSE
  <2>1. 0..n \subseteq 0..m /\ m \notin 0..n /\ m \in 0..m
    BY <1>4
  <2>2. <<0..n, 0..m>> \in StrictSubsetOrdering(Nat)
    BY <2>1, <1>1 DEF StrictSubsetOrdering
  <2> QED BY <2>2, <1>3
<1> QED
  BY <1>3, <1>4

\* A nonempty, bounded set of natural numbers has a greatest element: the
\* newest record of a key, the newest table with a key.
LEMMA MaxExists ==
    ASSUME NEW S \in SUBSET Nat, NEW b \in Nat, S # {}, \A n \in S : n <= b
    PROVE  \E m \in S : \A n \in S : n <= m
<1> DEFINE T == {b - n : n \in S}
<1>1. T \subseteq Nat /\ T # {}
  <2>1. \A n \in S : b - n \in Nat
    OBVIOUS
  <2> QED BY <2>1
<1>2. PICK t \in T : \A u \in T : t <= u
  <2> HIDE DEF T
  <2> QED BY <1>1, MinExists
<1>3. PICK m \in S : t = b - m
  BY <1>2
<1>4. \A n \in S : b - m <= b - n
  BY <1>2, <1>3
<1> QED
  BY <1>4
-----------------------------------------------------------------------------
\* Loops.  A loop that starts at s in S and goes on from B ends at e after some passes.
EndsAt(S, B, nx, s, e) ==
    \E n \in Nat : \E p \in [0..n -> S] :
        /\ p[0] = s /\ p[n] = e /\ e \notin B
        /\ \A i \in 0..(n - 1) : p[i] \in B /\ p[i + 1] = nx[p[i]]

LEMMA EndsAtOnce ==
    ASSUME NEW S, NEW B, NEW nx, NEW s \in S \ B, NEW e
    PROVE  EndsAt(S, B, nx, s, e) <=> e = s
<1>1. ASSUME EndsAt(S, B, nx, s, e) PROVE e = s
  <2>0. PICK n \in Nat : \E p \in [0..n -> S] :
          /\ p[0] = s /\ p[n] = e /\ e \notin B
          /\ \A i \in 0..(n - 1) : p[i] \in B /\ p[i + 1] = nx[p[i]]
    BY <1>1 DEF EndsAt
  <2>1. PICK p \in [0..n -> S] :
          /\ p[0] = s /\ p[n] = e /\ e \notin B
          /\ \A i \in 0..(n - 1) : p[i] \in B /\ p[i + 1] = nx[p[i]]
    BY <2>0
  <2>2. ~(n > 0)
    <3> SUFFICES ASSUME n > 0 PROVE FALSE
      OBVIOUS
    <3>1. 0 \in 0..(n - 1)
      OBVIOUS
    <3> QED BY <2>1, <3>1
  <2> QED BY <2>1, <2>2
<1>2. ASSUME e = s PROVE EndsAt(S, B, nx, s, e)
  <2> DEFINE p == [i \in 0..0 |-> s]
  <2>1. p \in [0..0 -> S] /\ p[0] = s /\ \A i \in 0..(0 - 1) : FALSE
    OBVIOUS
  <2> HIDE DEF p
  <2>2. /\ p[0] = s /\ p[0] = e /\ e \notin B
        /\ \A i \in 0..(0 - 1) : p[i] \in B /\ p[i + 1] = nx[p[i]]
    BY <1>2, <2>1
  <2> QED BY <2>1, <2>2 DEF EndsAt
<1> QED BY <1>1, <1>2

LEMMA EndsAfterAPass ==
    ASSUME NEW S, NEW B, NEW nx, NEW s \in S \cap B, nx[s] \in S, NEW e
    PROVE  EndsAt(S, B, nx, s, e) <=> EndsAt(S, B, nx, nx[s], e)
<1>1. ASSUME EndsAt(S, B, nx, s, e) PROVE EndsAt(S, B, nx, nx[s], e)
  <2>0. PICK n \in Nat : \E p \in [0..n -> S] :
          /\ p[0] = s /\ p[n] = e /\ e \notin B
          /\ \A i \in 0..(n - 1) : p[i] \in B /\ p[i + 1] = nx[p[i]]
    BY <1>1 DEF EndsAt
  <2>1. PICK p \in [0..n -> S] :
          /\ p[0] = s /\ p[n] = e /\ e \notin B
          /\ \A i \in 0..(n - 1) : p[i] \in B /\ p[i + 1] = nx[p[i]]
    BY <2>0
  <2>2. n # 0
    BY <2>1
  <2> DEFINE m == n - 1
             q == [i \in 0..m |-> p[i + 1]]
  <2>3. m \in Nat /\ 0 \in 0..m /\ m \in 0..m /\ m + 1 = n /\ \A i \in 0..m : i + 1 \in 0..n
    BY <2>2
  <2>4. \A i \in 0..(m - 1) : i \in 0..m /\ i + 1 \in 0..m /\ i + 1 \in 0..(n - 1)
    BY <2>3
  <2> HIDE DEF m
  <2>5. q \in [0..m -> S] /\ q[0] = p[1] /\ q[m] = e
    BY <2>1, <2>3
  <2>6. 0 \in 0..(n - 1)
    BY <2>3 DEF m
  <2>7. q[0] = nx[s]
    BY <2>1, <2>5, <2>6
  <2>8. \A i \in 0..(m - 1) : q[i] \in B /\ q[i + 1] = nx[q[i]]
    BY <2>1, <2>4
  <2> HIDE DEF q
  <2> QED BY <2>1, <2>3, <2>5, <2>7, <2>8 DEF EndsAt
<1>2. ASSUME EndsAt(S, B, nx, nx[s], e) PROVE EndsAt(S, B, nx, s, e)
  <2>0. PICK n \in Nat : \E p \in [0..n -> S] :
          /\ p[0] = nx[s] /\ p[n] = e /\ e \notin B
          /\ \A i \in 0..(n - 1) : p[i] \in B /\ p[i + 1] = nx[p[i]]
    BY <1>2 DEF EndsAt
  <2>1. PICK p \in [0..n -> S] :
          /\ p[0] = nx[s] /\ p[n] = e /\ e \notin B
          /\ \A i \in 0..(n - 1) : p[i] \in B /\ p[i + 1] = nx[p[i]]
    BY <2>0
  <2> DEFINE m == n + 1
             q == [i \in 0..m |-> IF i = 0 THEN s ELSE p[i - 1]]
  <2>2. m \in Nat /\ m # 0 /\ m - 1 = n /\ \A i \in 0..m : i # 0 => i - 1 \in 0..n
    OBVIOUS
  <2>3. q \in [0..m -> S] /\ q[0] = s /\ q[m] = e
    BY <2>1, <2>2
  <2>4. ASSUME NEW i \in 0..(m - 1) PROVE q[i] \in B /\ q[i + 1] = nx[q[i]]
    <3>1. i \in 0..m /\ i + 1 \in 0..m /\ i + 1 # 0 /\ (i + 1) - 1 = i /\ i \in 0..n
      OBVIOUS
    <3>2. q[i + 1] = p[i]
      BY <3>1
    <3>3. CASE i = 0
      BY <2>1, <3>1, <3>2, <3>3
    <3>4. CASE i # 0
      <4>1. i - 1 \in 0..(n - 1) /\ (i - 1) + 1 = i
        BY <3>1, <3>4
      <4>2. q[i] = p[i - 1]
        BY <3>1, <3>4
      <4> QED BY <2>1, <3>2, <4>1, <4>2
    <3> QED BY <3>3, <3>4
  <2> HIDE DEF q, m
  <2> QED BY <2>1, <2>2, <2>3, <2>4 DEF EndsAt
<1> QED BY <1>1, <1>2

HasLoop(S, B, nx, out) == \E f : f = [s \in S |-> IF s \in B THEN f[nx[s]] ELSE out[s]]

\* A loop is a function of where it starts, whether it ends or not.
LEMMA LoopExists ==
    ASSUME NEW S, NEW B, NEW nx, NEW out, \A s \in S \cap B : nx[s] \in S
    PROVE  HasLoop(S, B, nx, out)
<1> DEFINE last(s) == CHOOSE e : EndsAt(S, B, nx, s, e)
           f == [s \in S |-> out[last(s)]]
<1>1. ASSUME NEW s \in S \cap B PROVE f[s] = f[nx[s]]
  <2>1. \A e : EndsAt(S, B, nx, s, e) <=> EndsAt(S, B, nx, nx[s], e)
    BY EndsAfterAPass
  <2>2. last(s) = last(nx[s])
    BY <2>1
  <2> HIDE DEF last
  <2> QED BY <2>2
<1>2. ASSUME NEW s \in S \ B PROVE f[s] = out[s]
  <2>1. \A e : EndsAt(S, B, nx, s, e) <=> e = s
    BY EndsAtOnce
  <2>2. last(s) = s
    BY <2>1
  <2> HIDE DEF last
  <2> QED BY <2>2
<1>3. f = [s \in S |-> f[s]]
  OBVIOUS
<1> HIDE DEF f
<1>4. f = [s \in S |-> IF s \in B THEN f[nx[s]] ELSE out[s]]
  BY <1>1, <1>2, <1>3
<1> QED BY <1>4 DEF HasLoop

\* f is such a loop.
IsLoop(f, S, B, nx, out) == \A s \in S : f[s] = IF s \in B THEN f[nx[s]] ELSE out[s]

\* It goes on within I, and each time with less of m to do.
Keeps(I, S, B, nx, m) ==
    /\ I \subseteq S
    /\ \A s \in I : m[s] \in Nat
    /\ \A s \in I \cap B : nx[s] \in I /\ m[nx[s]] < m[s]

\* Then it ends in I, outside of B.
LEMMA LoopEnds ==
    ASSUME NEW S, NEW B, NEW nx, NEW out, NEW f, IsLoop(f, S, B, nx, out),
           NEW I, NEW m, Keeps(I, S, B, nx, m)
    PROVE  \A s \in I : \E e \in I \ B : f[s] = out[e]
<1> DEFINE Wrong == {s \in I : ~\E e \in I \ B : f[s] = out[e]}
           Costs == {m[s] : s \in Wrong}
<1>1. SUFFICES ASSUME Wrong # {} PROVE FALSE
  OBVIOUS
<1>2. Costs \in SUBSET Nat /\ Costs # {}
  BY <1>1 DEF Keeps
<1>3. PICK c \in Costs : \A d \in Costs : c <= d
  <2> HIDE DEF Costs
  <2> QED BY <1>2, MinExists
<1>4. PICK s \in Wrong : c = m[s]
  BY <1>3
<1>5. s \in I /\ s \in S
  BY DEF Keeps
<1>6. s \in B
  <2> SUFFICES ASSUME s \notin B PROVE FALSE
    OBVIOUS
  <2>1. f[s] = out[s] /\ s \in I \ B
    BY <1>5 DEF IsLoop
  <2> QED BY <2>1, <1>4
<1>7. nx[s] \in I /\ m[nx[s]] < m[s] /\ f[s] = f[nx[s]]
  BY <1>5, <1>6 DEF IsLoop, Keeps
<1>8. nx[s] \in Wrong
  BY <1>4, <1>7
<1>9. m[nx[s]] \in Costs
  BY <1>8
<1>10. m[s] <= m[nx[s]]
  <2> HIDE DEF Costs
  <2> QED BY <1>9, <1>3, <1>4
<1>11. m[s] \in Nat /\ m[nx[s]] \in Nat
  BY <1>5, <1>7 DEF Keeps
<1> QED BY <1>7, <1>10, <1>11
=============================================================================
