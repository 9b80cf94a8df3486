----------------------------- MODULE WALProofs -----------------------------
(***************************************************************************)
(* One log file: what RecoverWithReport makes of a file that was written   *)
(* by Write and cut or damaged by crashes, for any buffer, any sizes and   *)
(* any number of records and crashes.                                      *)
(***************************************************************************)
EXTENDS WALFile, NatLemmas, SequenceTheorems

Cells == [rec : Nat, size : Nat, at : Nat]

\* What the replay takes for a frame, in one formula, and where the next one begins.
Valid(f, o) ==
    /\ o + HeaderLen <= Len(f)
    /\ LenAt(f, o) <= MaxRecordPayload
    /\ o + HeaderLen + LenAt(f, o) <= Len(f)
    /\ \A i \in 1..(HeaderLen + LenAt(f, o)) : f[o + i] = Cell(f[o + 1].rec, LenAt(f, o), i)

After(f, o) == o + HeaderLen + LenAt(f, o)

\* The replay from each offset of f: its records, and the offset at which it ends.
ReplayMap(f) ==
    CHOOSE g : g = [o \in 0..Len(f) |->
        IF Verdict(f, o) = "valid"
        THEN <<f[o + 1].rec>> \o g[o + HeaderLen + LenAt(f, o)] ELSE <<>>]

EndMap(f) ==
    CHOOSE g : g = [o \in 0..Len(f) |->
        IF Verdict(f, o) = "valid" THEN g[o + HeaderLen + LenAt(f, o)] ELSE o]

RecordsFrom(f, o) == ReplayMap(f)[o]
EndFrom(f, o)     == EndMap(f)[o]

\* s is how the sequence t begins.
Begins(s, t) == Len(s) <= Len(t) /\ \A i \in 1..Len(s) : s[i] = t[i]
-----------------------------------------------------------------------------
\* A frame is valid exactly if the branches of RecoverWithReport say so.
LEMMA ValidVerdict ==
    ASSUME NEW f \in Seq(Cells), NEW o \in 0..Len(f)
    PROVE  /\ (Verdict(f, o) = "valid") <=> Valid(f, o)
           /\ Valid(f, o) => After(f, o) \in (o + 2)..Len(f) /\ LenAt(f, o) \in Nat
           /\ Verdict(f, o) = "end" <=> o = Len(f)
<1>1. CASE o + HeaderLen > Len(f)
  BY <1>1 DEF Verdict, Valid, HeaderLen
<1>2. CASE o + HeaderLen <= Len(f)
  <2>1. LenAt(f, o) \in Nat /\ f[o + 1] \in Cells /\ f[o + 1].rec \in Nat
    <3>1. o + 1 \in 1..Len(f) /\ o + 2 \in 1..Len(f)
      BY <1>2 DEF HeaderLen
    <3>2. f[o + 1] \in Cells /\ f[o + 2] \in Cells
      BY <3>1
    <3> QED BY <3>2 DEF LenAt, Cells
  <2>2. MaxRecordPayload \in Nat
    BY WALAssumption
  <2>3. ASSUME o + HeaderLen + LenAt(f, o) <= Len(f)
        PROVE  Intact(f, o) <=> \A i \in 1..(HeaderLen + LenAt(f, o)) :
                                    f[o + i] = Cell(f[o + 1].rec, LenAt(f, o), i)
    <3> DEFINE n == LenAt(f, o)
               s == SubSeq(f, o + 1, o + HeaderLen + n)
               F == Frame(f[o + 1].rec, n)
    <3>1. s \in Seq(Cells) /\ Len(s) = HeaderLen + n /\ \A i \in 1..(HeaderLen + n) : s[i] = f[o + i]
      <4> DEFINE a == o + 1
                 b == o + HeaderLen + n
      <4>1. a \in 1..Len(f) /\ b \in 1..Len(f) /\ a <= b /\ n \in Nat
        BY <2>1, <2>3, <1>2 DEF HeaderLen
      <4>2. b - a + 1 = HeaderLen + n
        BY <4>1 DEF HeaderLen
      <4>3. /\ SubSeq(f, a, b) \in Seq(Cells) /\ Len(SubSeq(f, a, b)) = b - a + 1
            /\ \A i \in 1..(b - a + 1) : SubSeq(f, a, b)[i] = f[a + i - 1]
        <5> HIDE DEF a, b
        <5> QED BY <4>1, SMTT(30)
      <4>4. \A i \in 1..(HeaderLen + n) : a + i - 1 = o + i
        BY <4>1
      <4> HIDE DEF n
      <4> QED BY <4>2, <4>3, <4>4
    <3>2. DOMAIN s = 1..(HeaderLen + n) /\ s = [i \in 1..(HeaderLen + n) |-> s[i]]
      <4>1. \A w \in Seq(Cells) : DOMAIN w = 1..Len(w) /\ w = [i \in 1..Len(w) |-> w[i]]
        OBVIOUS
      <4> HIDE DEF s, n
      <4> QED BY <3>1, <4>1
    <3>3. F = [i \in 1..(HeaderLen + n) |-> Cell(f[o + 1].rec, n, i)]
      BY DEF Frame
    <3>4. s = F <=> \A i \in 1..(HeaderLen + n) : s[i] = Cell(f[o + 1].rec, n, i)
      <4> HIDE DEF s, F, n
      <4> QED BY <3>2, <3>3
    <3>5. Intact(f, o) <=> s = F
      BY DEF Intact
    <3> QED BY <3>1, <3>4, <3>5
  <2> QED
    BY <1>2, <2>1, <2>2, <2>3 DEF Verdict, Valid, After, HeaderLen
<1> QED
  BY <1>1, <1>2 DEF HeaderLen

\* The recursive functions of Replayed and LastValid exist: a replay from an offset
\* is defined when those from the offsets behind it are.
LEMMA MapsExist ==
    ASSUME NEW f \in Seq(Cells)
    PROVE  /\ \E g : g = [o \in 0..Len(f) |->
                  IF Verdict(f, o) = "valid"
                  THEN <<f[o + 1].rec>> \o g[o + HeaderLen + LenAt(f, o)] ELSE <<>>]
           /\ \E e : e = [o \in 0..Len(f) |->
                  IF Verdict(f, o) = "valid" THEN e[o + HeaderLen + LenAt(f, o)] ELSE o]
<1> DEFINE L == Len(f)
           More(o) == Verdict(f, o) = "valid"
           Nxt(o) == o + HeaderLen + LenAt(f, o)
           First(o) == <<f[o + 1].rec>>
           R(g, o) == IF More(o) THEN First(o) \o g[Nxt(o)] ELSE <<>>
           E(e, o) == IF More(o) THEN e[Nxt(o)] ELSE o
           S == {k \in 0..(L + 1) : /\ \E g : g = [o \in k..L |-> R(g, o)]
                                    /\ \E e : e = [o \in k..L |-> E(e, o)]}
<1>1. L \in Nat /\ \A o \in 0..L : More(o) => Nxt(o) \in (o + 1)..L
  <2>1. L \in Nat
    OBVIOUS
  <2>2. ASSUME NEW o \in 0..L, More(o) PROVE Nxt(o) \in (o + 2)..L
    BY <2>2, ValidVerdict DEF After
  <2>3. \A o \in 0..L : \A p \in (o + 2)..L : p \in (o + 1)..L
    BY <2>1
  <2> QED
    <3> HIDE DEF L, More, Nxt
    <3> QED BY <2>1, <2>2, <2>3
<1>2. L + 1 \in S
  <2> DEFINE none == [o \in (L + 1)..L |-> <<>>]
  <2>1. (L + 1)..L = {}
    BY <1>1
  <2>2. none = [o \in (L + 1)..L |-> R(none, o)] /\ none = [o \in (L + 1)..L |-> E(none, o)]
    <3> HIDE DEF R, E
    <3> QED BY <2>1
  <2> HIDE DEF R, E, none, L
  <2> QED BY <1>1, <2>2
<1>3. PICK k \in S : \A j \in S : k <= j
  <2>1. S \subseteq Nat /\ S # {}
    BY <1>1, <1>2
  <2> HIDE DEF S
  <2> QED BY <2>1, MinExists
<1>4. CASE k > 0
  <2> HIDE DEF L, More, Nxt, First
  <2>1. k \in 1..(L + 1) /\ k - 1 \in 0..L /\ \A o \in (k - 1)..L : o \in 0..L
    BY <1>1, <1>3, <1>4
  <2>2. PICK g : g = [o \in k..L |-> R(g, o)]
    BY <1>3
  <2>3. PICK e : e = [o \in k..L |-> E(e, o)]
    BY <1>3
  <2> DEFINE g2 == [o \in (k - 1)..L |-> IF o = k - 1 THEN R(g, o) ELSE g[o]]
             e2 == [o \in (k - 1)..L |-> IF o = k - 1 THEN E(e, o) ELSE e[o]]
  <2>4. ASSUME NEW o \in (k - 1)..L PROVE g2[o] = R(g2, o) /\ e2[o] = E(e2, o)
    <3>1. More(o) => /\ Nxt(o) \in k..L
                     /\ Nxt(o) \in (k - 1)..L /\ Nxt(o) # k - 1
      <4>1. \A p \in (o + 1)..L : p \in k..L /\ p \in (k - 1)..L /\ p # k - 1
        BY <1>1, <2>1
      <4> QED BY <1>1, <2>1, <4>1
    <3>2. R(g2, o) = R(g, o) /\ E(e2, o) = E(e, o)
      BY <3>1
    <3>3. o # k - 1 => g[o] = R(g, o) /\ e[o] = E(e, o)
      <4>1. o # k - 1 => o \in k..L
        BY <2>1, <1>1
      <4> HIDE DEF R, E
      <4> QED BY <2>2, <2>3, <4>1
    <3> HIDE DEF R, E
    <3> QED BY <3>2, <3>3
  <2>5. g2 = [o \in (k - 1)..L |-> R(g2, o)] /\ e2 = [o \in (k - 1)..L |-> E(e2, o)]
    <3>1. g2 = [o \in (k - 1)..L |-> g2[o]] /\ e2 = [o \in (k - 1)..L |-> e2[o]]
      OBVIOUS
    <3> HIDE DEF R, E, g2, e2
    <3> QED BY <2>4, <3>1
  <2>6. k - 1 \in S
    <3>1. k - 1 \in 0..(L + 1)
      BY <2>1, <1>1
    <3> HIDE DEF R, E, g2, e2
    <3> QED BY <2>5, <3>1
  <2> HIDE DEF S
  <2> QED BY <2>6, <2>1, <1>3, <1>1
<1> QED
  <2>1. k = 0
    <3>1. k \in 0..(L + 1)
      BY <1>3
    <3> HIDE DEF S, L
    <3> QED BY <1>1, <1>4, <3>1
  <2> QED BY <1>3, <2>1

\* What the two functions say at an offset.
LEMMA Recursion ==
    ASSUME NEW f \in Seq(Cells), NEW o \in 0..Len(f)
    PROVE  /\ Valid(f, o) => /\ RecordsFrom(f, o) = <<f[o + 1].rec>> \o RecordsFrom(f, After(f, o))
                             /\ EndFrom(f, o) = EndFrom(f, After(f, o))
           /\ ~Valid(f, o) => RecordsFrom(f, o) = <<>> /\ EndFrom(f, o) = o
<1> DEFINE R(g, p) == IF Verdict(f, p) = "valid"
                      THEN <<f[p + 1].rec>> \o g[p + HeaderLen + LenAt(f, p)] ELSE <<>>
           E(e, p) == IF Verdict(f, p) = "valid" THEN e[p + HeaderLen + LenAt(f, p)] ELSE p
<1>1. ReplayMap(f) = [p \in 0..Len(f) |-> R(ReplayMap(f), p)]
  BY MapsExist DEF ReplayMap
<1>2. EndMap(f) = [p \in 0..Len(f) |-> E(EndMap(f), p)]
  BY MapsExist DEF EndMap
<1>3. ReplayMap(f)[o] = R(ReplayMap(f), o) /\ EndMap(f)[o] = E(EndMap(f), o)
  <2> DEFINE m == ReplayMap(f)
             n == EndMap(f)
  <2> HIDE DEF R, E, m, n
  <2>1. m = [p \in 0..Len(f) |-> R(m, p)] /\ n = [p \in 0..Len(f) |-> E(n, p)]
    BY <1>1, <1>2 DEF m, n
  <2>2. m[o] = R(m, o) /\ n[o] = E(n, o)
    BY <2>1
  <2> QED BY <2>2 DEF m, n
<1> QED
  BY <1>3, ValidVerdict DEF RecordsFrom, EndFrom, After

LEMMA FromZero ==
    ASSUME NEW f \in Seq(Cells)
    PROVE  Replayed(f) = RecordsFrom(f, 0) /\ LastValid(f) = EndFrom(f, 0)
BY DEF Replayed, LastValid, RecordsFrom, EndFrom, ReplayMap, EndMap

\* The replay ends within the file, where no valid frame begins, and has read numbers.
LEMMA ReplayFacts ==
    ASSUME NEW f \in Seq(Cells), NEW o \in 0..Len(f)
    PROVE  /\ RecordsFrom(f, o) \in Seq(Nat)
           /\ EndFrom(f, o) \in o..Len(f)
           /\ ~Valid(f, EndFrom(f, o))
<1> DEFINE Good(p) == /\ RecordsFrom(f, p) \in Seq(Nat)
                      /\ EndFrom(f, p) \in p..Len(f)
                      /\ ~Valid(f, EndFrom(f, p))
           S == {p \in 0..Len(f) : ~Good(p)}
<1>1. Len(f) \in Nat
  OBVIOUS
<1>2. ASSUME NEW p \in 0..Len(f), \A q \in S : q <= p PROVE Good(p)
  <2>1. CASE ~Valid(f, p)
    <3>1. RecordsFrom(f, p) = <<>> /\ EndFrom(f, p) = p
      BY <2>1, Recursion
    <3>2. <<>> \in Seq(Nat) /\ p \in p..Len(f)
      BY <1>1
    <3> QED BY <2>1, <3>1, <3>2
  <2>2. CASE Valid(f, p)
    <3>1. After(f, p) \in (p + 2)..Len(f)
      BY <2>2, ValidVerdict
    <3>2. Good(After(f, p))
      <4> DEFINE a == After(f, p)
      <4>1. a \in 0..Len(f) /\ ~(a <= p)
        BY <3>1, <1>1
      <4> HIDE DEF a, Good
      <4> QED BY <4>1, <1>2 DEF a
    <3>3. f[p + 1].rec \in Nat
      <4>1. p + 1 \in 1..Len(f)
        BY <3>1, <1>1
      <4>2. f[p + 1] \in Cells
        BY <4>1
      <4> QED BY <4>2 DEF Cells
    <3>4. EndFrom(f, p) \in p..Len(f)
      <4> DEFINE a == After(f, p)
      <4>1. EndFrom(f, p) = EndFrom(f, a) /\ EndFrom(f, a) \in a..Len(f)
        BY <3>2, <2>2, Recursion
      <4>2. \A b \in (p + 2)..Len(f) : \A e \in b..Len(f) : e \in p..Len(f)
        BY <1>1
      <4> HIDE DEF a, Good
      <4> QED BY <3>1, <4>1, <4>2 DEF a
    <3>5. RecordsFrom(f, p) \in Seq(Nat)
      <4>1. \A n \in Nat, s \in Seq(Nat) : <<n>> \o s \in Seq(Nat)
        OBVIOUS
      <4> QED BY <4>1, <3>2, <3>3, <2>2, Recursion
    <3> QED BY <3>2, <3>4, <3>5, <2>2, Recursion
  <2> QED BY <2>1, <2>2
<1>3. S = {}
  <2> HIDE DEF Good
  <2>1. S \subseteq Nat /\ \A q \in S : q <= Len(f)
    BY <1>1
  <2>2. S # {} => \E p \in S : \A q \in S : q <= p
    BY <2>1, <1>1, MaxExists
  <2> QED BY <2>2, <1>2
<1> QED
  BY <1>3
-----------------------------------------------------------------------------
\* g is what a crash may leave of f: a shorter file, in which cells are garbage.
Worse(g, f) == Len(g) <= Len(f) /\ \A i \in 1..Len(g) : g[i] = f[i] \/ g[i].at = 0

\* A frame that is valid in what was left was valid before: no cell of it is garbage.
LEMMA WorseValid ==
    ASSUME NEW f \in Seq(Cells), NEW g \in Seq(Cells), Worse(g, f),
           NEW o \in 0..Len(g), Valid(g, o)
    PROVE  Valid(f, o) /\ After(f, o) = After(g, o) /\ f[o + 1] = g[o + 1]
<1> DEFINE n == LenAt(g, o)
<1>1. n \in Nat /\ o + HeaderLen + n <= Len(g) /\ o \in Nat /\ Len(g) <= Len(f)
  BY ValidVerdict DEF Valid, Worse
<1>2. ASSUME NEW i \in 1..(HeaderLen + n) PROVE f[o + i] = g[o + i]
  <2>1. o + i \in 1..Len(g)
    <3> HIDE DEF n
    <3> QED BY <1>1 DEF HeaderLen
  <2>2. g[o + i] = Cell(g[o + 1].rec, n, i)
    BY DEF Valid
  <2>3. g[o + i].at # 0
    BY <2>2 DEF Cell
  <2> QED BY <2>1, <2>3 DEF Worse
<1>3. 1 \in 1..(HeaderLen + n) /\ 2 \in 1..(HeaderLen + n)
  BY <1>1 DEF HeaderLen
<1>4. LenAt(f, o) = n /\ f[o + 1] = g[o + 1]
  BY <1>2, <1>3 DEF LenAt
<1> HIDE DEF n
<1>5. n <= MaxRecordPayload /\ \A i \in 1..(HeaderLen + n) : g[o + i] = Cell(g[o + 1].rec, n, i)
  BY DEF n, Valid
<1>6. o + HeaderLen <= Len(f) /\ o + HeaderLen + n <= Len(f)
  <2>1. HeaderLen \in Nat /\ Len(f) \in Nat /\ Len(g) \in Nat
    BY DEF HeaderLen
  <2> QED BY <1>1, <2>1
<1>7. \A i \in 1..(HeaderLen + n) : f[o + i] = Cell(f[o + 1].rec, n, i)
  BY <1>2, <1>4, <1>5
<1>8. Valid(f, o)
  BY <1>4, <1>5, <1>6, <1>7 DEF Valid
<1> QED
  BY <1>4, <1>8 DEF After, n

\* What is replayed of a file that a crash has made worse is how the replay of the
\* file itself begins.
LEMMA WorseBegins ==
    ASSUME NEW f \in Seq(Cells), NEW g \in Seq(Cells), Worse(g, f), NEW o \in 0..Len(g)
    PROVE  Begins(RecordsFrom(g, o), RecordsFrom(f, o))
<1> DEFINE Good(p) == Begins(RecordsFrom(g, p), RecordsFrom(f, p))
           S == {p \in 0..Len(g) : ~Good(p)}
<1>1. Len(f) \in Nat /\ Len(g) \in Nat /\ Len(g) <= Len(f)
  BY DEF Worse
<1>2. ASSUME NEW p \in 0..Len(g), \A q \in S : q <= p PROVE Good(p)
  <2>1. p \in 0..Len(f) /\ RecordsFrom(f, p) \in Seq(Nat)
    <3>1. p \in 0..Len(f)
      BY <1>1
    <3> QED BY <3>1, ReplayFacts
  <2>2. CASE ~Valid(g, p)
    <3>1. RecordsFrom(g, p) = <<>>
      BY <2>2, Recursion
    <3> QED BY <2>1, <3>1 DEF Begins
  <2>3. CASE Valid(g, p)
    <3> DEFINE a == After(g, p)
    <3>1. a \in (p + 2)..Len(g)
      BY <2>3, ValidVerdict
    <3>2. Valid(f, p) /\ After(f, p) = a /\ f[p + 1] = g[p + 1]
      BY <2>3, WorseValid
    <3> HIDE DEF a, Good
    <3>3. a \in 0..Len(g) /\ a \in 0..Len(f) /\ ~(a <= p)
      BY <3>1, <1>1
    <3>4. Good(a)
      BY <3>3, <1>2
    <3>5. RecordsFrom(g, p) = <<g[p + 1].rec>> \o RecordsFrom(g, a)
      BY <2>3, Recursion DEF a
    <3>6. RecordsFrom(f, p) = <<g[p + 1].rec>> \o RecordsFrom(f, a)
      BY <2>1, <3>2, Recursion
    <3>7. RecordsFrom(g, a) \in Seq(Nat) /\ RecordsFrom(f, a) \in Seq(Nat)
      BY <3>3, ReplayFacts
    <3>8. g[p + 1].rec \in Nat
      <4>1. p + 1 \in 1..Len(g)
        BY <3>1, <1>1
      <4>2. g[p + 1] \in Cells
        BY <4>1
      <4> QED BY <4>2 DEF Cells
    <3>9. \A r \in Nat : \A s, t \in Seq(Nat) : Begins(s, t) => Begins(<<r>> \o s, <<r>> \o t)
      BY SMTT(30) DEF Begins
    <3> QED BY <3>4, <3>5, <3>6, <3>7, <3>8, <3>9 DEF Good
  <2> QED BY <2>2, <2>3
<1>3. S = {}
  <2> HIDE DEF Good
  <2>1. S \subseteq Nat /\ \A q \in S : q <= Len(g)
    BY <1>1
  <2>2. S # {} => \E p \in S : \A q \in S : q <= p
    BY <2>1, <1>1, MaxExists
  <2> QED BY <2>2, <1>2
<1> QED
  BY <1>3

LEMMA ConsConcat ==
    ASSUME NEW r \in Nat, NEW s \in Seq(Nat), NEW t \in Seq(Nat)
    PROVE  <<r>> \o (s \o t) = (<<r>> \o s) \o t
<1> DEFINE u == <<r>>
<1>1. u \in Seq(Nat)
  OBVIOUS
<1> HIDE DEF u
<1>2. (u \o s) \o t = u \o (s \o t)
  BY <1>1, ConcatAssociative, SMTT(30)
<1> QED BY <1>2 DEF u

\* Two files that agree up to where the replay of the first one ends: the second is
\* replayed alike up to there, and then on from there.
LEMMA SameStart ==
    ASSUME NEW f \in Seq(Cells), NEW g \in Seq(Cells), NEW e \in 0..Len(f),
           e <= Len(g), \A i \in 1..e : g[i] = f[i],
           NEW o \in 0..e, EndFrom(f, o) = e
    PROVE  /\ EndFrom(g, o) = EndFrom(g, e)
           /\ RecordsFrom(g, o) = RecordsFrom(f, o) \o RecordsFrom(g, e)
<1> DEFINE Good(p) == EndFrom(f, p) = e =>
                          /\ EndFrom(g, p) = EndFrom(g, e)
                          /\ RecordsFrom(g, p) = RecordsFrom(f, p) \o RecordsFrom(g, e)
           S == {p \in 0..e : ~Good(p)}
<1>1. Len(f) \in Nat /\ Len(g) \in Nat /\ e \in Nat
  OBVIOUS
<1>2. e \in 0..Len(g) /\ RecordsFrom(g, e) \in Seq(Nat)
  <2>1. e \in 0..Len(g)
    BY <1>1
  <2> QED BY <2>1, ReplayFacts
<1>3. ASSUME NEW p \in 0..e, \A q \in S : q <= p, EndFrom(f, p) = e PROVE Good(p)
  <2>1. p \in 0..Len(f) /\ p \in 0..Len(g) /\ p \in Nat
    BY <1>1
  <2>2. CASE p = e
    <3>1. ~Valid(f, e) /\ RecordsFrom(f, e) = <<>>
      BY <1>3, <2>1, <2>2, ReplayFacts, Recursion
    <3>2. \A s \in Seq(Nat) : s = <<>> \o s
      OBVIOUS
    <3> QED BY <1>2, <2>2, <3>1, <3>2
  <2>3. CASE p # e
    <3> DEFINE a == After(f, p)
               n == LenAt(f, p)
    <3>1. Valid(f, p)
      BY <1>3, <2>1, <2>3, Recursion
    <3>2. a \in (p + 2)..Len(f) /\ n \in Nat /\ a = p + HeaderLen + n
      BY <2>1, <3>1, ValidVerdict DEF After
    <3> HIDE DEF a
    <3>3. EndFrom(f, a) = e /\ a <= e
      <4>1. EndFrom(f, a) = e
        BY <1>3, <2>1, <3>1, Recursion DEF a
      <4>2. a \in 0..Len(f)
        BY <3>2, <2>1, <1>1
      <4>3. e \in a..Len(f)
        BY <4>1, <4>2, ReplayFacts
      <4> QED BY <4>1, <4>3
    <3> HIDE DEF Good
    <3>4. a \in 0..e /\ a \in 0..Len(g) /\ a \in 0..Len(f) /\ ~(a <= p)
      BY <3>2, <3>3, <2>1, <1>1
    <3>5. Good(a)
      BY <3>4, <1>3
    <3>6. Valid(g, p) /\ After(g, p) = a /\ g[p + 1] = f[p + 1]
      <4>1. ASSUME NEW i \in 1..(HeaderLen + n) PROVE g[p + i] = f[p + i]
        <5>1. p + i \in 1..e
          BY <2>1, <3>2, <3>3, <1>1 DEF HeaderLen
        <5> QED BY <5>1
      <4>2. 1 \in 1..(HeaderLen + n) /\ 2 \in 1..(HeaderLen + n)
        BY <3>2 DEF HeaderLen
      <4>3. LenAt(g, p) = n /\ g[p + 1] = f[p + 1]
        BY <4>1, <4>2 DEF LenAt
      <4>4. p + HeaderLen <= Len(g) /\ p + HeaderLen + n <= Len(g)
        BY <1>1, <2>1, <3>2, <3>3 DEF HeaderLen
      <4>5. n <= MaxRecordPayload /\ \A i \in 1..(HeaderLen + n) : f[p + i] = Cell(f[p + 1].rec, n, i)
        BY <3>1 DEF Valid
      <4> HIDE DEF n
      <4>6. Valid(g, p)
        BY <4>1, <4>3, <4>4, <4>5 DEF Valid
      <4> QED BY <4>3, <4>6, <3>2 DEF After
    <3>7. EndFrom(g, p) = EndFrom(g, a) /\ RecordsFrom(g, p) = <<f[p + 1].rec>> \o RecordsFrom(g, a)
      BY <2>1, <3>6, Recursion
    <3>8. RecordsFrom(f, p) = <<f[p + 1].rec>> \o RecordsFrom(f, a)
      BY <2>1, <3>1, Recursion DEF a
    <3>9. RecordsFrom(f, a) \in Seq(Nat)
      BY <3>4, ReplayFacts
    <3>10. f[p + 1].rec \in Nat
      <4>1. p + 1 \in 1..Len(f)
        BY <3>2, <2>1, <1>1
      <4>2. f[p + 1] \in Cells
        BY <4>1
      <4> QED BY <4>2 DEF Cells
    <3>11. \A r \in Nat : \A s, t \in Seq(Nat) : <<r>> \o (s \o t) = (<<r>> \o s) \o t
      BY ConsConcat
    <3> QED BY <3>3, <3>5, <3>7, <3>8, <3>9, <3>10, <3>11, <1>2 DEF Good
  <2> QED BY <2>2, <2>3
<1>4. S = {}
  <2>1. \A p \in 0..e : (\A q \in S : q <= p) => Good(p)
    BY <1>3
  <2> HIDE DEF Good
  <2>2. S \subseteq Nat /\ \A q \in S : q <= e
    BY <1>1
  <2>3. S # {} => \E p \in S : \A q \in S : q <= p
    BY <2>2, <1>1, MaxExists
  <2> QED BY <2>3, <2>1
<1> QED
  BY <1>4
LEMMA PrefixFacts ==
    ASSUME NEW f \in Seq(Cells), NEW e \in 0..Len(f)
    PROVE  /\ SubSeq(f, 1, e) \in Seq(Cells) /\ Len(SubSeq(f, 1, e)) = e
           /\ \A i \in 1..e : SubSeq(f, 1, e)[i] = f[i]
<1> DEFINE s == SubSeq(f, 1, e)
<1>1. \A i \in 1..e : f[i] \in Cells
  OBVIOUS
<1>2. s \in Seq(Cells) /\ Len(s) = IF 1 <= e THEN e - 1 + 1 ELSE 0
  BY <1>1, SubSeqProperties
<1>3. \A i \in 1..(e - 1 + 1) : s[i] = f[1 + i - 1]
  BY <1>1, SubSeqProperties
<1>4. \A i \in 1..e : 1 + i - 1 = i
  OBVIOUS
<1> HIDE DEF s
<1> QED BY <1>2, <1>3, <1>4 DEF s

\* Cutting off what is behind the last valid frame leaves a file that is replayed to
\* its end, with the same records.
LEMMA CutIsClean ==
    ASSUME NEW f \in Seq(Cells), NEW t, t = SubSeq(f, 1, EndFrom(f, 0))
    PROVE  /\ t \in Seq(Cells) /\ Len(t) = EndFrom(f, 0)
           /\ EndFrom(t, 0) = Len(t)
           /\ RecordsFrom(t, 0) = RecordsFrom(f, 0)
<1> DEFINE e == EndFrom(f, 0)
<1>1. e \in 0..Len(f) /\ RecordsFrom(f, 0) \in Seq(Nat) /\ Len(f) \in Nat
  <2>1. 0 \in 0..Len(f)
    OBVIOUS
  <2> QED BY <2>1, ReplayFacts
<1> HIDE DEF e
<1>2. t = SubSeq(f, 1, e)
  BY DEF e
<1>3. t \in Seq(Cells) /\ Len(t) = e /\ \A i \in 1..e : t[i] = f[i]
  BY <1>1, <1>2, PrefixFacts
<1>4. ~Valid(t, e) /\ e \in 0..Len(t) /\ 0 \in 0..e
  BY <1>1, <1>3 DEF Valid, HeaderLen
<1>5. EndFrom(t, e) = e /\ RecordsFrom(t, e) = <<>>
  BY <1>3, <1>4, Recursion
<1>6. EndFrom(t, 0) = e /\ RecordsFrom(t, 0) = RecordsFrom(f, 0) \o <<>>
  <2>1. e <= Len(t) /\ EndFrom(f, 0) = e
    BY <1>3, <1>4 DEF e
  <2>2. /\ EndFrom(t, 0) = EndFrom(t, e)
        /\ RecordsFrom(t, 0) = RecordsFrom(f, 0) \o RecordsFrom(t, e)
    <3>1. t \in Seq(Cells) /\ \A i \in 1..e : t[i] = f[i]
      BY <1>3
    <3> QED BY <1>1, <1>4, <2>1, <3>1, SameStart
  <2> QED BY <2>2, <1>5
<1>7. RecordsFrom(f, 0) \o <<>> = RecordsFrom(f, 0)
  BY <1>1, ConcatEmptySeq
<1> QED
  BY <1>3, <1>6, <1>7 DEF e

LEMMA FrameCells ==
    ASSUME NEW r \in Nat, NEW n \in Nat
    PROVE  /\ Frame(r, n) \in Seq(Cells) /\ Len(Frame(r, n)) = HeaderLen + n
           /\ \A i \in 1..(HeaderLen + n) : Frame(r, n)[i] = Cell(r, n, i)
<1>1. HeaderLen + n \in Nat /\ \A i \in 1..(HeaderLen + n) : Cell(r, n, i) \in Cells
  BY DEF HeaderLen, Cell, Cells
<1> QED
  BY <1>1 DEF Frame

\* A frame that is appended to a file which is replayed to its end is replayed, if
\* recovery accepts its length.  Otherwise, and behind anything that stops the replay,
\* no frame is: none of its cells can stand where the one that is missing did.
LEMMA AppendFrame ==
    ASSUME NEW f \in Seq(Cells), NEW r \in Nat, NEW n \in Nat,
           NEW g \in Seq(Cells), g = f \o Frame(r, n)
    PROVE  /\ Len(f) < Len(g)
           /\ IF EndFrom(f, 0) = Len(f) /\ n <= MaxRecordPayload
              THEN EndFrom(g, 0) = Len(g) /\ RecordsFrom(g, 0) = Append(RecordsFrom(f, 0), r)
              ELSE EndFrom(g, 0) = EndFrom(f, 0) /\ RecordsFrom(g, 0) = RecordsFrom(f, 0)
<1> DEFINE e == EndFrom(f, 0)
           l == Len(f)
<1>1. e \in 0..Len(f) /\ RecordsFrom(f, 0) \in Seq(Nat) /\ l \in Nat /\ ~Valid(f, e)
  <2>1. 0 \in 0..Len(f)
    OBVIOUS
  <2> QED BY <2>1, ReplayFacts
<1>2. /\ g \in Seq(Cells) /\ Len(g) = l + HeaderLen + n
      /\ \A i \in 1..l : g[i] = f[i]
      /\ \A i \in 1..(HeaderLen + n) : g[l + i] = Cell(r, n, i)
  <2> DEFINE F == Frame(r, n)
             k == HeaderLen + n
  <2>1. F \in Seq(Cells) /\ Len(F) = k /\ k \in Nat /\ \A i \in 1..k : F[i] = Cell(r, n, i)
    BY FrameCells DEF HeaderLen
  <2> HIDE DEF F
  <2>2. g = f \o F
    BY DEF F
  <2>3. g \in Seq(Cells) /\ Len(g) = l + Len(F)
    <3> HIDE DEF k
    <3> QED BY <2>1, <2>2, ConcatProperties
  <2>4. \A i \in 1..l : g[i] = f[i]
    BY <2>1, <2>2
  <2>5. \A i \in 1..Len(F) : g[l + i] = F[i]
    <3> HIDE DEF k
    <3> QED BY <2>1, <2>2
  <2>6. l + k = l + HeaderLen + n
    BY <1>1 DEF HeaderLen
  <2> HIDE DEF k, l
  <2>7. \A i \in 1..k : g[l + i] = Cell(r, n, i)
    BY <2>1, <2>5
  <2> QED BY <2>1, <2>3, <2>4, <2>6, <2>7 DEF k
<1> HIDE DEF e, l
<1>3. l = Len(f) /\ EndFrom(f, 0) = e
  BY DEF e, l
<1>4. e <= Len(g) /\ e \in 0..Len(g) /\ 0 \in 0..e /\ \A i \in 1..e : g[i] = f[i]
  BY <1>1, <1>2, <1>3 DEF HeaderLen
<1>5. EndFrom(g, 0) = EndFrom(g, e) /\ RecordsFrom(g, 0) = RecordsFrom(f, 0) \o RecordsFrom(g, e)
  BY <1>1, <1>2, <1>3, <1>4, SameStart
<1> Len(f) < Len(g)
  <2>1. l + HeaderLen + n > l
    BY <1>1 DEF HeaderLen
  <2> QED BY <1>2, <1>3, <2>1
<1>6. CASE e = l /\ n <= MaxRecordPayload
  <2>1. LenAt(g, l) = n /\ g[l + 1].rec = r /\ \A i \in 1..(HeaderLen + n) : g[l + i] = Cell(r, n, i)
    <3>1. 1 \in 1..(HeaderLen + n) /\ 2 \in 1..(HeaderLen + n)
      BY DEF HeaderLen
    <3>2. g[l + 1] = Cell(r, n, 1) /\ g[l + 2] = Cell(r, n, 2)
      BY <3>1, <1>2
    <3>3. g[l + 1].rec = r /\ g[l + 2].size = n
      BY <3>2 DEF Cell
    <3> QED BY <3>3, <1>2 DEF LenAt
  <2>2. l + HeaderLen <= Len(g) /\ l + HeaderLen + n <= Len(g)
    BY <1>1, <1>2 DEF HeaderLen
  <2>3. Valid(g, l) /\ After(g, l) = Len(g)
    BY <1>2, <1>6, <2>1, <2>2 DEF Valid, After
  <2>4. Len(g) \in 0..Len(g) /\ l \in 0..Len(g)
    BY <1>2, <1>4, <1>6
  <2>5. ~Valid(g, Len(g))
    BY <1>2 DEF Valid, HeaderLen
  <2>6. EndFrom(g, Len(g)) = Len(g) /\ RecordsFrom(g, Len(g)) = <<>>
    BY <1>2, <2>4, <2>5, Recursion
  <2>7. EndFrom(g, l) = Len(g) /\ RecordsFrom(g, l) = <<r>> \o <<>>
    <3>1. /\ RecordsFrom(g, l) = <<g[l + 1].rec>> \o RecordsFrom(g, After(g, l))
          /\ EndFrom(g, l) = EndFrom(g, After(g, l))
      BY <1>2, <2>3, <2>4, Recursion
    <3> QED BY <2>1, <2>3, <2>6, <3>1
  <2>8. <<r>> \o <<>> = <<r>>
    OBVIOUS
  <2>9. RecordsFrom(f, 0) \o <<r>> = Append(RecordsFrom(f, 0), r)
    BY <1>1, AppendIsConcat
  <2> QED BY <1>2, <1>3, <1>5, <1>6, <2>7, <2>8, <2>9
<1>7. CASE ~(e = l /\ n <= MaxRecordPayload)
  <2>1. ~Valid(g, e)
    <3> SUFFICES ASSUME Valid(g, e) PROVE FALSE
      OBVIOUS
    <3> DEFINE m == LenAt(g, e)
    <3>1. /\ m \in Nat /\ e + HeaderLen + m <= Len(g) /\ m <= MaxRecordPayload
          /\ \A i \in 1..(HeaderLen + m) : g[e + i] = Cell(g[e + 1].rec, m, i)
      BY <1>2, <1>4, ValidVerdict DEF Valid
    <3> HIDE DEF m
    <3>2. CASE e = l
      <4>1. 2 \in 1..(HeaderLen + n)
        BY DEF HeaderLen
      <4>2. g[l + 2] = Cell(r, n, 2)
        BY <4>1, <1>2
      <4>3. g[l + 2].size = n
        BY <4>2 DEF Cell
      <4>4. m = n
        BY <4>3, <3>2 DEF m, LenAt
      <4> QED BY <3>1, <3>2, <4>4, <1>7
    <3>3. CASE e < l /\ e + HeaderLen + m > l
      <4> DEFINE j == l + 1 - e
      <4>1. j \in 1..(HeaderLen + m) /\ e + j = l + 1 /\ j # 1 /\ 1 \in 1..(HeaderLen + n)
        BY <3>1, <3>3, <1>1, <1>3 DEF HeaderLen
      <4> HIDE DEF j
      <4>2. g[l + 1] = Cell(g[e + 1].rec, m, j) /\ g[l + 1] = Cell(r, n, 1)
        BY <3>1, <4>1, <1>2
      <4>3. g[l + 1].at = j /\ g[l + 1].at = 1
        <5>1. Cell(g[e + 1].rec, m, j).at = j
          BY DEF Cell
        <5>2. Cell(r, n, 1).at = 1
          BY DEF Cell
        <5> QED BY ONLY <4>2, <5>1, <5>2
      <4> QED BY <4>1, <4>3
    <3>4. CASE e < l /\ e + HeaderLen + m <= l
      <4>1. ASSUME NEW i \in 1..(HeaderLen + m) PROVE g[e + i] = f[e + i]
        <5>1. e + i \in 1..l
          BY <3>1, <3>4, <1>1, <1>3 DEF HeaderLen
        <5> QED BY <5>1, <1>2
      <4>2. 1 \in 1..(HeaderLen + m) /\ 2 \in 1..(HeaderLen + m)
        BY <3>1 DEF HeaderLen
      <4>3. LenAt(f, e) = m /\ g[e + 1] = f[e + 1]
        BY <4>1, <4>2 DEF m, LenAt
      <4>4. e + HeaderLen <= Len(f) /\ e + HeaderLen + m <= Len(f)
        BY <3>1, <3>4, <1>1, <1>3 DEF HeaderLen
      <4>5. Valid(f, e)
        BY <3>1, <4>1, <4>3, <4>4 DEF Valid
      <4> QED BY <4>5, <1>1 DEF e
    <3>5. e \in Nat /\ e <= l /\ e + HeaderLen + m \in Nat
      BY <1>1, <1>3, <3>1 DEF HeaderLen
    <3> QED BY <3>2, <3>3, <3>4, <3>5, <1>1
  <2>2. EndFrom(g, e) = e /\ RecordsFrom(g, e) = <<>>
    BY <1>2, <1>4, <2>1, Recursion
  <2>3. RecordsFrom(f, 0) \o <<>> = RecordsFrom(f, 0)
    BY <1>1, ConcatEmptySeq
  <2> QED BY <1>2, <1>3, <1>5, <1>7, <2>2, <2>3
<1> QED
  BY <1>6, <1>7
-----------------------------------------------------------------------------
\* Recovery accepts every length that is written.
SizesAccepted == \A n \in Sizes : n <= MaxRecordPayload

\* All that was written since the last recovery, and what that one left.
Content == file \o buffer

\* A replay of the content would not stop before its end.
IsClean == LastValid(Content) = Len(Content)

\* What TypeOK leaves out, and where a buffer is empty.
FileShape ==
    /\ syncAlways \in BOOLEAN /\ kept \in BOOLEAN
    /\ file \in Seq(Cells) /\ buffer \in Seq(Cells)
    /\ mode = "down" => stage = "idle" /\ buffer = <<>>
    /\ stage = "sync" => buffer = <<>>

\* The replay reads the first of the records written, and all of them if nothing
\* stops it.
ReplayIsPrefix ==
    /\ Begins(Replayed(Content), log)
    /\ mode = "open" /\ IsClean => Replayed(Content) = log

\* Up to a frame that a recovery keeps, nothing stops the replay while the log is open.
CleanUnlessKept == SizesAccepted /\ mode = "open" /\ ~kept => IsClean

\* The records acknowledged as durable are in the part of the file that is on disk.
SafeOnDisk == SizesAccepted => kept \/ safe \subseteq Records(Replayed(SubSeq(file, 1, synced)))

\* The inductive invariant: a crash cuts the file anywhere behind `synced', so what is
\* safe must be before it, and a recovery must leave nothing behind which an appended
\* frame would be lost.
WALInv == TypeOK /\ FileShape /\ ReplayIsPrefix /\ CleanUnlessKept /\ SafeOnDisk
-----------------------------------------------------------------------------
LEMMA BeginsFacts ==
    ASSUME NEW s \in Seq(Nat), NEW t \in Seq(Nat), Begins(s, t)
    PROVE  /\ \A u \in Seq(Nat) : Begins(t, u) => Begins(s, u)
           /\ \A r \in Nat : Begins(s, Append(t, r))
           /\ \A k \in Nat : t \in Seq(1..k) => s \in Seq(1..k)
           /\ Records(s) \subseteq Records(t)
           /\ s = SubSeq(t, 1, Len(s))
<1>1. Len(s) \in Nat /\ Len(t) \in Nat /\ Len(s) <= Len(t) /\ \A i \in 1..Len(s) : s[i] = t[i]
  BY DEF Begins
<1>2. ASSUME NEW u \in Seq(Nat), Begins(t, u) PROVE Begins(s, u)
  BY <1>1, <1>2 DEF Begins
<1>3. ASSUME NEW r \in Nat PROVE Begins(s, Append(t, r))
  BY <1>1 DEF Begins
<1>4. ASSUME NEW k \in Nat, t \in Seq(1..k) PROVE s \in Seq(1..k)
  <2>1. \A i \in 1..Len(s) : s[i] \in 1..k
    BY <1>1, <1>4, SMTT(30)
  <2> QED BY <2>1
<1>5. Records(s) \subseteq Records(t)
  BY <1>1, SMTT(30) DEF Records
<1>6. s = SubSeq(t, 1, Len(s))
  <2> DEFINE p == SubSeq(t, 1, Len(s))
  <2>1. p \in Seq(Nat) /\ Len(p) = Len(s) /\ \A i \in 1..Len(s) : p[i] = t[i]
    BY <1>1
  <2> HIDE DEF p
  <2>2. \A i \in 1..Len(s) : s[i] = p[i]
    BY <1>1, <2>1
  <2>3. s = p
    BY <2>1, <2>2, SeqEqual
  <2> QED BY <2>3 DEF p
<1> QED
  BY <1>2, <1>3, <1>4, <1>5, <1>6

\* The replay of a part of a file reads no other records than that of the file.
LEMMA PartReplay ==
    ASSUME NEW f \in Seq(Cells), NEW n \in 0..Len(f)
    PROVE  /\ Replayed(f) \in Seq(Nat) /\ Replayed(SubSeq(f, 1, n)) \in Seq(Nat)
           /\ Records(Replayed(SubSeq(f, 1, n))) \subseteq Records(Replayed(f))
<1> DEFINE g == SubSeq(f, 1, n)
<1>1. g \in Seq(Cells) /\ Len(g) = n /\ \A i \in 1..n : g[i] = f[i]
  BY PrefixFacts
<1> HIDE DEF g
<1>2. 0 \in 0..Len(g) /\ 0 \in 0..Len(f)
  BY <1>1
<1>3. Worse(g, f)
  BY <1>1 DEF Worse
<1>4. /\ RecordsFrom(g, 0) \in Seq(Nat) /\ RecordsFrom(f, 0) \in Seq(Nat)
      /\ Begins(RecordsFrom(g, 0), RecordsFrom(f, 0))
  BY <1>1, <1>2, <1>3, WorseBegins, ReplayFacts
<1>5. Replayed(g) = RecordsFrom(g, 0) /\ Replayed(f) = RecordsFrom(f, 0)
  BY <1>1, FromZero
<1>6. Records(Replayed(g)) \subseteq Records(Replayed(f))
  BY <1>4, <1>5, BeginsFacts
<1> QED
  BY <1>4, <1>5, <1>6 DEF g

\* Two files with the same cells up to n.
LEMMA SamePart ==
    ASSUME NEW f \in Seq(Cells), NEW g \in Seq(Cells), NEW n \in 0..Len(f),
           n <= Len(g), \A i \in 1..n : g[i] = f[i]
    PROVE  SubSeq(g, 1, n) = SubSeq(f, 1, n)
<1> DEFINE a == SubSeq(f, 1, n)
           b == SubSeq(g, 1, n)
<1>1. n \in 0..Len(g)
  OBVIOUS
<1>2. /\ a \in Seq(Cells) /\ Len(a) = n /\ \A i \in 1..n : a[i] = f[i]
      /\ b \in Seq(Cells) /\ Len(b) = n /\ \A i \in 1..n : b[i] = g[i]
  BY <1>1, PrefixFacts
<1>3. \A s, t \in Seq(Cells) : Len(s) = Len(t) /\ (\A i \in 1..Len(s) : s[i] = t[i]) => s = t
  OBVIOUS
<1> HIDE DEF a, b
<1>4. a = b
  BY <1>2, <1>3
<1> QED
  BY <1>4 DEF a, b

LEMMA InitWALInv == Init => WALInv
<1> SUFFICES ASSUME Init PROVE WALInv
  OBVIOUS
<1>1. TypeOK /\ FileShape
  <2>1. <<>> \in Seq(1..(1 - 1)) /\ <<>> \in Seq(Cells) /\ Len(<<>>) = 0
    OBVIOUS
  <2>2. 1 \in 1..(MaxRecords + 1) /\ 0 \in 0..MaxCrashes /\ 0 <= BufferSize
    BY WALAssumption
  <2>3. syncAlways \in BOOLEAN
    BY WALAssumption DEF Init
  <2>4. TypeOK
    <3>1. log \in Seq(1..(next - 1)) /\ safe \subseteq 1..(next - 1)
      BY <2>1 DEF Init
    <3>2. synced \in 0..Len(file) /\ Len(buffer) <= BufferSize
      BY <2>1, <2>2 DEF Init
    <3> QED BY <2>2, <3>1, <3>2 DEF Init, TypeOK
  <2> QED BY <2>1, <2>3, <2>4 DEF Init, FileShape
<1>2. Content = <<>> /\ <<>> \in Seq(Cells) /\ 0 \in 0..Len(<<>>) /\ Len(<<>>) = 0
  BY DEF Init, Content
<1>3. ~Valid(<<>>, 0)
  BY DEF Valid, HeaderLen
<1>4. Replayed(<<>>) = <<>> /\ LastValid(<<>>) = 0
  BY <1>2, <1>3, Recursion, FromZero
<1>5. ReplayIsPrefix /\ CleanUnlessKept /\ SafeOnDisk
  BY <1>2, <1>4 DEF Init, ReplayIsPrefix, Begins, CleanUnlessKept, IsClean, SafeOnDisk
<1> QED
  BY <1>1, <1>5 DEF WALInv

\* What a step that changes neither the content nor the records leaves as it was.
LEMMA SameContent ==
    ASSUME WALInv, Content' = Content, UNCHANGED <<log, kept>>, mode' = "open" => mode = "open"
    PROVE  ReplayIsPrefix' /\ CleanUnlessKept'
BY DEF WALInv, ReplayIsPrefix, CleanUnlessKept, IsClean
\* What Spilled leaves in the buffer fits into it.
LEMMA SpilledFits ==
    ASSUME NEW b \in 0..BufferSize, NEW k \in Nat
    PROVE  Spilled(b, k) \in 0..(b + k) /\ b + k - Spilled(b, k) <= BufferSize
BY WALAssumption DEF Spilled

LEMMA CellsAssoc ==
    ASSUME NEW a \in Seq(Cells), NEW b \in Seq(Cells), NEW c \in Seq(Cells)
    PROVE  (a \o b) \o c = a \o (b \o c)
BY ConcatAssociative

\* Write appends a frame to the content, however much of it the buffer passes on.
LEMMA WriteStep == ASSUME WALInv, NEW n \in Sizes, Write(n) PROVE WALInv'
<1> DEFINE F   == Frame(next, n)
           all == buffer \o F
           out == Spilled(Len(buffer), HeaderLen + n)
<1>1. /\ n \in Nat /\ next \in Nat /\ next >= 1 /\ HeaderLen + n \in Nat
      /\ file \in Seq(Cells) /\ buffer \in Seq(Cells) /\ Len(buffer) \in 0..BufferSize
      /\ log \in Seq(1..(next - 1)) /\ safe \subseteq 1..(next - 1)
      /\ mode = "open" /\ synced \in 0..Len(file) /\ crashes \in 0..MaxCrashes
      /\ BufferSize \in Nat /\ kept \in BOOLEAN /\ syncAlways \in BOOLEAN
  BY WALAssumption, SMTT(30) DEF WALInv, TypeOK, FileShape, Write, HeaderLen
<1>2. F \in Seq(Cells) /\ Len(F) = HeaderLen + n
  BY <1>1, FrameCells
<1>3. all \in Seq(Cells) /\ Len(all) = Len(buffer) + (HeaderLen + n)
  <2> HIDE DEF F
  <2> QED BY <1>1, <1>2, ConcatProperties
<1>4. out \in 0..Len(all) /\ Len(all) - out <= BufferSize
  <2> DEFINE b == Len(buffer)
             k == HeaderLen + n
  <2>1. b \in 0..BufferSize /\ k \in Nat /\ Len(all) = b + k
    BY <1>1, <1>3
  <2> HIDE DEF b, k
  <2>2. Spilled(b, k) \in 0..(b + k) /\ b + k - Spilled(b, k) <= BufferSize
    BY <2>1, SpilledFits
  <2> QED BY <2>1, <2>2 DEF b, k, out
<1>5. file' = file \o SubSeq(all, 1, out) /\ buffer' = SubSeq(all, out + 1, Len(all))
  BY DEF Write
<1> HIDE DEF all, out, F
<1>6. /\ SubSeq(all, 1, out) \in Seq(Cells) /\ Len(SubSeq(all, 1, out)) = out
      /\ SubSeq(all, out + 1, Len(all)) \in Seq(Cells)
      /\ Len(SubSeq(all, out + 1, Len(all))) = Len(all) - out
  <2>1. SubSeq(all, 1, out) \in Seq(Cells) /\ Len(SubSeq(all, 1, out)) = out
    BY <1>3, <1>4, PrefixFacts
  <2>2. \A i \in (out + 1)..Len(all) : all[i] \in Cells
    BY <1>3, <1>4
  <2>3. out + 1 \in Int /\ Len(all) \in Int /\ out \in Int
    BY <1>3, <1>4
  <2>4. /\ SubSeq(all, out + 1, Len(all)) \in Seq(Cells)
        /\ Len(SubSeq(all, out + 1, Len(all))) =
             IF out + 1 <= Len(all) THEN Len(all) - (out + 1) + 1 ELSE 0
    BY <2>2, <2>3, SubSeqProperties
  <2>5. (IF out + 1 <= Len(all) THEN Len(all) - (out + 1) + 1 ELSE 0) = Len(all) - out
    BY <1>3, <1>4
  <2> QED BY <2>1, <2>4, <2>5
<1>7. SubSeq(all, 1, out) \o SubSeq(all, out + 1, Len(all)) = all
  <2>1. 1 \in 1..(Len(all) + 1) /\ out \in (1 - 1)..Len(all) /\ Len(all) \in out..Len(all)
    BY <1>3, <1>4
  <2>2. SubSeq(all, 1, out) \o SubSeq(all, out + 1, Len(all)) = SubSeq(all, 1, Len(all))
    BY <1>3, <2>1, ConcatAdjacentSubSeq
  <2> QED BY <1>3, <2>2, SubSeqFull
<1>8. Content' = Content \o F
  <2>1. file' \o buffer' = file \o all
    <3> DEFINE p == SubSeq(all, 1, out)
               q == SubSeq(all, out + 1, Len(all))
    <3>1. p \in Seq(Cells) /\ q \in Seq(Cells) /\ p \o q = all
      BY <1>6, <1>7
    <3>2. file' = file \o p /\ buffer' = q
      BY <1>5
    <3> HIDE DEF p, q
    <3>3. (file \o p) \o q = file \o (p \o q)
      BY <1>1, <3>1, CellsAssoc
    <3> QED BY <3>1, <3>2, <3>3
  <2>2. file \o all = (file \o buffer) \o F
    <3>1. (file \o buffer) \o F = file \o (buffer \o F)
      BY <1>1, <1>2, CellsAssoc
    <3> QED BY <3>1 DEF all
  <2> QED BY <2>1, <2>2 DEF Content
<1>9. /\ file' \in Seq(Cells) /\ buffer' \in Seq(Cells) /\ Len(file') = Len(file) + out
      /\ \A i \in 1..Len(file) : file'[i] = file[i]
      /\ Len(buffer') <= BufferSize
  <2>1. /\ file' \in Seq(Cells) /\ Len(file') = Len(file) + out
        /\ \A i \in 1..(Len(file) + out) : file'[i] =
               IF i <= Len(file) THEN file[i] ELSE SubSeq(all, 1, out)[i - Len(file)]
    <3> DEFINE p == SubSeq(all, 1, out)
    <3>1. p \in Seq(Cells) /\ Len(p) = out /\ file' = file \o p
      BY <1>5, <1>6
    <3> HIDE DEF p
    <3>2. /\ file \o p \in Seq(Cells) /\ Len(file \o p) = Len(file) + Len(p)
          /\ \A i \in 1..(Len(file) + Len(p)) : (file \o p)[i] =
                 IF i <= Len(file) THEN file[i] ELSE p[i - Len(file)]
      BY <1>1, <3>1, ConcatProperties
    <3>3. /\ file' \in Seq(Cells) /\ Len(file') = Len(file) + out
          /\ \A i \in 1..(Len(file) + out) : file'[i] = IF i <= Len(file) THEN file[i] ELSE p[i - Len(file)]
      BY <3>1, <3>2
    <3> QED BY <3>3 DEF p
  <2>2. \A i \in 1..Len(file) : i \in 1..(Len(file) + out) /\ i <= Len(file)
    BY <1>1, <1>3, <1>4
  <2>3. buffer' \in Seq(Cells) /\ Len(buffer') <= BufferSize
    BY <1>4, <1>5, <1>6
  <2> QED BY <2>1, <2>2, <2>3
<1>10. /\ log' = Append(log, next) /\ next' = next + 1 /\ next <= MaxRecords
       /\ stage' \in {"idle", "flush"} /\ mode' = mode /\ synced' = synced /\ safe' = safe
       /\ kept' = kept /\ crashes' = crashes /\ syncAlways' = syncAlways
  BY DEF Write
<1>11. log \in Seq(Nat) /\ log' \in Seq(1..(next' - 1)) /\ safe' \subseteq 1..(next' - 1)
  <2>1. \A r \in 1..(next - 1) : r \in Nat /\ r \in 1..next
    BY <1>1
  <2>2. log \in Seq(Nat) /\ log \in Seq(1..next)
    BY <1>1, <2>1
  <2>3. next \in 1..next /\ next' - 1 = next
    BY <1>1, <1>10
  <2>4. Append(log, next) \in Seq(1..next)
    BY <2>2, <2>3
  <2> QED BY <1>1, <1>10, <2>1, <2>2, <2>3, <2>4
<1>12. TypeOK'
  <2>1. synced' \in 0..Len(file')
    BY <1>1, <1>3, <1>4, <1>9, <1>10
  <2>2. next' \in 1..(MaxRecords + 1)
    BY <1>1, <1>10, WALAssumption
  <2> QED BY <1>1, <1>9, <1>10, <1>11, <2>1, <2>2 DEF TypeOK
<1>13. FileShape'
  BY <1>1, <1>9, <1>10 DEF FileShape
<1> DEFINE c == Content
<1>14. c \in Seq(Cells) /\ 0 \in 0..Len(c) /\ Replayed(c) \in Seq(Nat)
  <2>1. c \in Seq(Cells)
    BY <1>1, ConcatProperties DEF Content
  <2>2. 0 \in 0..Len(c)
    BY <2>1
  <2> QED BY <2>1, <2>2, ReplayFacts, FromZero
<1>15. /\ IsClean /\ n <= MaxRecordPayload =>
              IsClean' /\ Replayed(Content') = Append(Replayed(Content), next)
       /\ ~(IsClean /\ n <= MaxRecordPayload) =>
              ~IsClean' /\ Replayed(Content') = Replayed(Content)
  <2>1. /\ Content' \in Seq(Cells) /\ Len(c) < Len(Content')
        /\ IF EndFrom(c, 0) = Len(c) /\ n <= MaxRecordPayload
           THEN /\ EndFrom(Content', 0) = Len(Content')
                /\ RecordsFrom(Content', 0) = Append(RecordsFrom(c, 0), next)
           ELSE /\ EndFrom(Content', 0) = EndFrom(c, 0)
                /\ RecordsFrom(Content', 0) = RecordsFrom(c, 0)
    <3> HIDE DEF c
    <3>1. Content' = c \o Frame(next, n)
      BY <1>8 DEF c, F
    <3> DEFINE d == Content'
    <3>2. next \in Nat /\ n \in Nat /\ d = c \o Frame(next, n)
      BY <1>1, <3>1
    <3> HIDE DEF d
    <3>3. /\ d \in Seq(Cells) /\ Len(c) < Len(d)
          /\ IF EndFrom(c, 0) = Len(c) /\ n <= MaxRecordPayload
             THEN EndFrom(d, 0) = Len(d) /\ RecordsFrom(d, 0) = Append(RecordsFrom(c, 0), next)
             ELSE EndFrom(d, 0) = EndFrom(c, 0) /\ RecordsFrom(d, 0) = RecordsFrom(c, 0)
      <4>1. d \in Seq(Cells)
        BY <1>14, <3>2, FrameCells, ConcatProperties
      <4> QED BY <1>14, <3>2, <4>1, AppendFrame
    <3> QED BY <3>3 DEF d
  <2>2. /\ LastValid(c) = EndFrom(c, 0) /\ LastValid(Content') = EndFrom(Content', 0)
        /\ Replayed(c) = RecordsFrom(c, 0) /\ Replayed(Content') = RecordsFrom(Content', 0)
    BY <1>14, <2>1, FromZero
  <2>3. EndFrom(c, 0) \in 0..Len(c) /\ Len(c) \in Nat
    BY <1>14, ReplayFacts
  <2>4. EndFrom(c, 0) # Len(Content')
    BY <1>1, <2>1, <2>3 DEF HeaderLen
  <2> QED BY <2>1, <2>2, <2>4 DEF IsClean
<1>16. ReplayIsPrefix'
  <2>1. Begins(Replayed(Content), log) /\ (IsClean => Replayed(Content) = log)
    BY <1>1 DEF WALInv, ReplayIsPrefix
  <2>2. Begins(Replayed(Content), Append(log, next))
    BY <1>1, <1>11, <1>14, <2>1, BeginsFacts
  <2>3. \A s : Begins(s, s)
    BY DEF Begins
  <2> QED BY <1>10, <1>15, <2>1, <2>2, <2>3 DEF ReplayIsPrefix
<1>17. CleanUnlessKept'
  BY <1>1, <1>10, <1>15 DEF WALInv, CleanUnlessKept, SizesAccepted
<1>18. SafeOnDisk'
  <2>1. SubSeq(file', 1, synced) = SubSeq(file, 1, synced)
    <3>1. synced <= Len(file') /\ \A i \in 1..synced : file'[i] = file[i]
      BY <1>1, <1>3, <1>4, <1>9, SMTT(30)
    <3> QED BY <1>1, <1>9, <3>1, SamePart
  <2> QED BY <1>10, <2>1 DEF WALInv, SafeOnDisk
<1> QED
  BY <1>12, <1>13, <1>16, <1>17, <1>18 DEF WALInv
\* The types, as the steps below need them.
LEMMA WALTypes ==
    ASSUME WALInv
    PROVE  /\ file \in Seq(Cells) /\ buffer \in Seq(Cells) /\ Content \in Seq(Cells)
           /\ Len(Content) = Len(file) + Len(buffer)
           /\ \A i \in 1..Len(file) : Content[i] = file[i]
           /\ 0 \in 0..Len(file) /\ 0 \in 0..Len(Content)
           /\ synced \in 0..Len(file) /\ log \in Seq(Nat) /\ Replayed(Content) \in Seq(Nat)
           /\ next \in Nat
<1>1. file \in Seq(Cells) /\ buffer \in Seq(Cells) /\ synced \in 0..Len(file)
  BY DEF WALInv, TypeOK, FileShape
<1>2. /\ Content \in Seq(Cells) /\ Len(Content) = Len(file) + Len(buffer)
      /\ \A i \in 1..(Len(file) + Len(buffer)) :
            Content[i] = IF i <= Len(file) THEN file[i] ELSE buffer[i - Len(file)]
  BY <1>1, ConcatProperties DEF Content
<1>3. \A i \in 1..Len(file) : i \in 1..(Len(file) + Len(buffer)) /\ i <= Len(file)
  BY <1>1
<1>4. 0 \in 0..Len(file) /\ 0 \in 0..Len(Content)
  BY <1>1, <1>2
<1>5. Replayed(Content) \in Seq(Nat)
  BY <1>2, <1>4, ReplayFacts, FromZero
<1>6. log \in Seq(1..(next - 1)) /\ next \in Nat
  BY WALAssumption DEF WALInv, TypeOK
<1>7. \A r \in 1..(next - 1) : r \in Nat
  BY <1>6
<1>8. log \in Seq(Nat)
  BY <1>6, <1>7
<1> QED
  BY <1>1, <1>2, <1>3, <1>4, <1>5, <1>6, <1>8

LEMMA SyncCallStep == ASSUME WALInv, SyncCall PROVE WALInv'
<1>1. ReplayIsPrefix' /\ CleanUnlessKept'
  BY SameContent DEF SyncCall, Content
<1>2. TypeOK' /\ FileShape'
  BY DEF SyncCall, WALInv, TypeOK, FileShape
<1>3. SafeOnDisk'
  BY DEF SyncCall, WALInv, SafeOnDisk
<1> QED
  BY <1>1, <1>2, <1>3 DEF WALInv

\* Nothing is in the way of what was written, once the buffer is empty.
LEMMA FlushBufferStep == ASSUME WALInv, FlushBuffer PROVE WALInv'
<1>1. /\ file' = Content /\ buffer' = <<>> /\ stage' = "sync" /\ stage = "flush"
      /\ UNCHANGED <<syncAlways, mode, synced, log, safe, kept, next, crashes>>
  BY DEF FlushBuffer, Content
<1>2. file' \in Seq(Cells) /\ Len(file) <= Len(file') /\ \A i \in 1..Len(file) : file'[i] = file[i]
  BY <1>1, WALTypes
<1>3. Content' = Content
  BY <1>1, WALTypes, ConcatEmptySeq DEF Content
<1>4. ReplayIsPrefix' /\ CleanUnlessKept'
  BY <1>1, <1>3, SameContent
<1>5. <<>> \in Seq(Cells) /\ Len(<<>>) = 0 /\ 0 <= BufferSize
  BY WALAssumption
<1>6. synced' \in 0..Len(file')
  BY <1>1, <1>2, WALTypes
<1>7. TypeOK'
  BY <1>1, <1>5, <1>6 DEF WALInv, TypeOK
<1>8. FileShape'
  BY <1>1, <1>2, <1>5 DEF WALInv, FileShape
<1>9. SafeOnDisk'
  <2>1. synced <= Len(file') /\ \A i \in 1..synced : file'[i] = file[i]
    BY <1>2, WALTypes
  <2>2. SubSeq(file', 1, synced) = SubSeq(file, 1, synced)
    BY <1>2, <2>1, WALTypes, SamePart
  <2> QED BY <1>1, <2>2 DEF WALInv, SafeOnDisk
<1> QED
  BY <1>4, <1>7, <1>8, <1>9 DEF WALInv

\* When the whole file is on disk, so is every record written: they are what a replay
\* reads, up to a frame that a recovery kept.
LEMMA AllSafe ==
    ASSUME WALInv, mode = "open", file' = Content, synced' = Len(file'),
           safe' = safe \cup Records(log), kept' = kept
    PROVE  SafeOnDisk'
<1> SUFFICES ASSUME SizesAccepted, ~kept
             PROVE  safe' \subseteq Records(Replayed(SubSeq(file', 1, synced')))
  BY DEF SafeOnDisk
<1> DEFINE c == Content
<1>1. Replayed(c) = log
  BY DEF WALInv, CleanUnlessKept, ReplayIsPrefix
<1>2. c \in Seq(Cells)
  BY WALTypes
<1>3. SubSeq(file', 1, synced') = c
  BY <1>2, SubSeqFull
<1>4. safe \subseteq Records(log)
  <2>1. safe \subseteq Records(Replayed(SubSeq(file, 1, synced)))
    BY DEF WALInv, SafeOnDisk
  <2>2. SubSeq(c, 1, synced) = SubSeq(file, 1, synced)
    BY WALTypes, SamePart
  <2>3. synced \in 0..Len(c)
    BY WALTypes
  <2>4. Records(Replayed(SubSeq(c, 1, synced))) \subseteq Records(Replayed(c))
    BY <1>2, <2>3, PartReplay
  <2> QED BY <1>1, <2>1, <2>2, <2>4
<1> HIDE DEF c
<1> QED
  BY <1>1, <1>3, <1>4

LEMMA FsyncStep == ASSUME WALInv, Fsync PROVE WALInv'
<1>1. /\ mode = "open" /\ file' = file /\ buffer = <<>>
      /\ synced' = Len(file') /\ safe' = safe \cup Records(log) /\ stage' = "idle"
      /\ UNCHANGED <<syncAlways, mode, buffer, log, kept, next, crashes>>
  BY DEF Fsync, WALInv, TypeOK, FileShape
<1>2. Content = file /\ Content' = Content
  BY <1>1, WALTypes, ConcatEmptySeq DEF Content
<1>3. ReplayIsPrefix' /\ CleanUnlessKept'
  BY <1>1, <1>2, SameContent
<1>4. SafeOnDisk'
  BY <1>1, <1>2, AllSafe
<1>5. TypeOK'
  <2>1. Records(log) \subseteq 1..(next - 1)
    BY DEF WALInv, TypeOK, Records
  <2>2. synced' \in 0..Len(file')
    BY <1>1, WALTypes
  <2> QED BY <1>1, <2>1, <2>2 DEF WALInv, TypeOK
<1>6. FileShape'
  BY <1>1 DEF WALInv, FileShape
<1> QED
  BY <1>3, <1>4, <1>5, <1>6 DEF WALInv

LEMMA CloseStep == ASSUME WALInv, Close PROVE WALInv'
<1>1. /\ mode = "open" /\ file' = Content /\ buffer' = <<>> /\ mode' = "down" /\ stage = "idle"
      /\ synced' = Len(file') /\ safe' = safe \cup Records(log)
      /\ UNCHANGED <<syncAlways, stage, log, kept, next, crashes>>
  BY DEF Close, Content
<1>2. file' \in Seq(Cells) /\ Content' = Content
  BY <1>1, WALTypes, ConcatEmptySeq DEF Content
<1>3. ReplayIsPrefix' /\ CleanUnlessKept'
  BY <1>1, <1>2, SameContent
<1>4. SafeOnDisk'
  BY <1>1, AllSafe
<1>5. <<>> \in Seq(Cells) /\ Len(<<>>) = 0 /\ 0 <= BufferSize
  BY WALAssumption
<1>6. TypeOK'
  <2>1. Records(log) \subseteq 1..(next - 1)
    BY DEF WALInv, TypeOK, Records
  <2>2. synced' \in 0..Len(file')
    BY <1>1, <1>2
  <2> QED BY <1>1, <1>5, <2>1, <2>2 DEF WALInv, TypeOK
<1>7. FileShape'
  BY <1>1, <1>2, <1>5 DEF WALInv, FileShape
<1> QED
  BY <1>3, <1>4, <1>6, <1>7 DEF WALInv
\* A crash leaves of the content a part, in which cells may be garbage, but nothing of
\* what was on disk is touched.
LEMMA DownStep ==
    ASSUME WALInv, Down, synced' = synced, file' \in Seq(Cells), Worse(file', Content),
           synced <= Len(file'), \A i \in 1..synced : file'[i] = file[i]
    PROVE  WALInv'
<1>1. /\ mode = "open" /\ mode' = "down" /\ stage' = "idle" /\ buffer' = <<>>
      /\ crashes' = crashes + 1 /\ crashes < MaxCrashes
      /\ UNCHANGED <<syncAlways, log, safe, kept, next>>
  BY DEF Down
<1>2. Content' = file' /\ 0 \in 0..Len(file')
  BY <1>1, ConcatEmptySeq DEF Content
<1>3. <<>> \in Seq(Cells) /\ Len(<<>>) = 0 /\ 0 <= BufferSize /\ crashes + 1 \in 0..MaxCrashes
  BY <1>1, WALAssumption DEF WALInv, TypeOK
<1>4. TypeOK'
  <2>1. synced' \in 0..Len(file')
    BY WALTypes
  <2> QED BY <1>1, <1>3, <2>1 DEF WALInv, TypeOK
<1>5. FileShape'
  BY <1>1, <1>3 DEF WALInv, FileShape
<1>6. ReplayIsPrefix'
  <2> DEFINE c == Content
             d == file'
  <2>1. c \in Seq(Cells) /\ d \in Seq(Cells) /\ Worse(d, c) /\ 0 \in 0..Len(d) /\ 0 \in 0..Len(c)
    BY <1>2, WALTypes
  <2> HIDE DEF c, d
  <2>2. /\ Begins(RecordsFrom(d, 0), RecordsFrom(c, 0))
        /\ RecordsFrom(d, 0) \in Seq(Nat) /\ RecordsFrom(c, 0) \in Seq(Nat)
    BY <2>1, WorseBegins, ReplayFacts
  <2>3. Replayed(d) = RecordsFrom(d, 0) /\ Replayed(c) = RecordsFrom(c, 0)
    BY <2>1, FromZero
  <2>4. Begins(Replayed(c), log) /\ log \in Seq(Nat)
    BY WALTypes DEF WALInv, ReplayIsPrefix, c
  <2>5. Begins(Replayed(d), log)
    BY <2>2, <2>3, <2>4, BeginsFacts
  <2> QED BY <1>1, <1>2, <2>5 DEF ReplayIsPrefix, d
<1>7. CleanUnlessKept'
  BY <1>1 DEF CleanUnlessKept
<1>8. SafeOnDisk'
  <2>1. SubSeq(file', 1, synced) = SubSeq(file, 1, synced)
    BY WALTypes, SamePart
  <2> QED BY <1>1, <2>1 DEF WALInv, SafeOnDisk
<1> QED
  BY <1>4, <1>5, <1>6, <1>7, <1>8 DEF WALInv

LEMMA ProcessDiesStep == ASSUME WALInv, ProcessDies PROVE WALInv'
<1>1. PICK k \in 0..(IF stage = "flush" THEN Len(buffer) ELSE 0) : file' = file \o SubSeq(buffer, 1, k)
  BY DEF ProcessDies
<1>2. file \in Seq(Cells) /\ buffer \in Seq(Cells) /\ k \in 0..Len(buffer)
  BY WALTypes
<1> DEFINE p == SubSeq(buffer, 1, k)
<1>3. p \in Seq(Cells) /\ Len(p) = k /\ \A i \in 1..k : p[i] = buffer[i]
  BY <1>2, PrefixFacts
<1> HIDE DEF p
<1>4. file' = file \o p
  BY <1>1 DEF p
<1>5. /\ file' \in Seq(Cells) /\ Len(file') = Len(file) + k
      /\ \A i \in 1..(Len(file) + k) : file'[i] = IF i <= Len(file) THEN file[i] ELSE p[i - Len(file)]
  <2>1. /\ file \o p \in Seq(Cells) /\ Len(file \o p) = Len(file) + Len(p)
        /\ \A i \in 1..(Len(file) + Len(p)) :
              (file \o p)[i] = IF i <= Len(file) THEN file[i] ELSE p[i - Len(file)]
    BY <1>2, <1>3, ConcatProperties
  <2> QED BY <1>3, <1>4, <2>1
<1>6. /\ Len(Content) = Len(file) + Len(buffer)
      /\ \A i \in 1..(Len(file) + Len(buffer)) :
            Content[i] = IF i <= Len(file) THEN file[i] ELSE buffer[i - Len(file)]
  BY <1>2, ConcatProperties DEF Content
<1>7. Len(file') <= Len(Content) /\ \A i \in 1..Len(file') : file'[i] = Content[i]
  <2>1. Len(file) \in Nat /\ Len(buffer) \in Nat /\ k \in Nat /\ k <= Len(buffer)
    BY <1>2
  <2>2. ASSUME NEW i \in 1..(Len(file) + k) PROVE file'[i] = Content[i]
    <3>1. i \in 1..(Len(file) + Len(buffer)) /\ (~(i <= Len(file)) => i - Len(file) \in 1..k)
      BY <2>1
    <3> QED BY <1>3, <1>5, <1>6, <3>1
  <2> QED BY <1>5, <1>6, <2>1, <2>2
<1>8. Worse(file', Content)
  BY <1>7 DEF Worse
<1>9. synced <= Len(file') /\ \A i \in 1..synced : file'[i] = file[i]
  <2>1. synced \in 0..Len(file) /\ k \in Nat /\ Len(file) \in Nat
    BY <1>2, WALTypes
  <2>2. \A i \in 1..synced : i \in 1..(Len(file) + k) /\ i <= Len(file)
    BY <2>1
  <2> QED BY <1>5, <2>1, <2>2
<1> QED
  BY <1>5, <1>8, <1>9, DownStep DEF ProcessDies

LEMMA PowerFailsStep == ASSUME WALInv, PowerFails PROVE WALInv'
<1>1. PICK n \in synced..Len(file) : file' = SubSeq(file, 1, n)
  BY DEF PowerFails
<1>2. file \in Seq(Cells) /\ synced \in 0..Len(file) /\ n \in 0..Len(file) /\ synced <= n
  BY WALTypes
<1>3. file' \in Seq(Cells) /\ Len(file') = n /\ \A i \in 1..n : file'[i] = file[i]
  BY <1>1, <1>2, PrefixFacts
<1>4. Worse(file', Content)
  <2>1. Len(Content) = Len(file) + Len(buffer) /\ Len(buffer) \in Nat
    BY WALTypes
  <2>2. n <= Len(Content) /\ \A i \in 1..n : i \in 1..Len(file)
    BY <1>2, <2>1
  <2> QED BY <1>3, <2>2, WALTypes DEF Worse
<1>5. synced <= Len(file') /\ \A i \in 1..synced : file'[i] = file[i]
  BY <1>2, <1>3
<1> QED
  BY <1>3, <1>4, <1>5, DownStep DEF PowerFails

LEMMA PowerGarblesStep == ASSUME WALInv, PowerGarbles PROVE WALInv'
<1>1. PICK n \in synced..Len(file), g \in GarbageLens : \E i \in (synced + 1)..n :
          file' = [SubSeq(file, 1, n) EXCEPT ![i] = Garbage(g)]
  BY DEF PowerGarbles
<1>2. PICK i \in (synced + 1)..n : file' = [SubSeq(file, 1, n) EXCEPT ![i] = Garbage(g)]
  BY <1>1
<1>3. file \in Seq(Cells) /\ synced \in 0..Len(file) /\ n \in 0..Len(file) /\ synced <= n
  BY WALTypes
<1> DEFINE p == SubSeq(file, 1, n)
<1>4. p \in Seq(Cells) /\ Len(p) = n /\ \A j \in 1..n : p[j] = file[j]
  BY <1>3, PrefixFacts
<1>5. Garbage(g) \in Cells /\ Garbage(g).at = 0
  <2>1. g \in Nat
    BY WALAssumption DEF GarbageLens
  <2> QED BY <2>1 DEF Garbage, Cells
<1> HIDE DEF p
<1>6. file' = [p EXCEPT ![i] = Garbage(g)]
  BY <1>2 DEF p
<1>7. i \in 1..n /\ ~(i <= synced)
  BY <1>3
<1>8. /\ file' \in Seq(Cells) /\ Len(file') = n
      /\ \A j \in 1..n : file'[j] = IF j = i THEN Garbage(g) ELSE p[j]
  BY <1>4, <1>5, <1>6, <1>7
<1>9. Worse(file', Content)
  <2>1. Len(Content) = Len(file) + Len(buffer) /\ Len(buffer) \in Nat
    BY WALTypes
  <2>2. n <= Len(Content) /\ \A j \in 1..n : j \in 1..Len(file)
    BY <1>3, <2>1
  <2> QED BY <1>4, <1>5, <1>8, <2>2, WALTypes DEF Worse
<1>10. synced <= Len(file') /\ \A j \in 1..synced : file'[j] = file[j]
  BY <1>3, <1>4, <1>7, <1>8
<1> QED
  BY <1>8, <1>9, <1>10, DownStep DEF PowerGarbles
\* The verdict where the replay ends decides: the file is clean, is made so, or has a
\* frame that is kept.
LEMMA RecoverStep == ASSUME WALInv, Recover PROVE WALInv'
<1> DEFINE f == file
           e == LastValid(f)
           v == Verdict(f, e)
<1>1. /\ mode = "down" /\ mode' = "open" /\ stage = "idle" /\ buffer = <<>>
      /\ file' = Truncated(file) /\ log' = Replayed(file)
      /\ synced' = IF synced <= Len(file') THEN synced ELSE Len(file')
      /\ kept' = (kept \/ v = "keep") /\ kept \in BOOLEAN
      /\ UNCHANGED <<syncAlways, buffer, stage, safe, next, crashes>>
  BY DEF Recover, WALInv, FileShape
<1>2. /\ f \in Seq(Cells) /\ 0 \in 0..Len(f) /\ synced \in 0..Len(f) /\ Len(f) \in Nat
      /\ log \in Seq(Nat) /\ next \in Nat
  BY WALTypes
<1>3. e = EndFrom(f, 0) /\ Replayed(f) = RecordsFrom(f, 0)
  BY <1>2, FromZero
<1>4. e \in 0..Len(f) /\ ~Valid(f, e) /\ Replayed(f) \in Seq(Nat)
  BY <1>2, <1>3, ReplayFacts
<1>5. v \in {"end", "truncate", "keep"} /\ (v = "end" <=> e = Len(f))
  <2>1. v # "valid" /\ (v = "end" <=> e = Len(f))
    BY <1>2, <1>4, ValidVerdict
  <2>2. v \in {"end", "truncate", "keep", "valid"}
    BY DEF Verdict
  <2> QED BY <2>1, <2>2
<1> DEFINE g == file'
<1>6. /\ g \in Seq(Cells) /\ Len(g) <= Len(f) /\ \A i \in 1..Len(g) : g[i] = f[i]
      /\ Replayed(g) = Replayed(f)
      /\ v # "keep" => LastValid(g) = Len(g)
      /\ g = f \/ (v = "truncate" /\ Len(g) = e)
  <2>1. CASE v = "truncate"
    <3>1. g = SubSeq(f, 1, e)
      BY <1>1, <2>1 DEF Truncated
    <3> HIDE DEF f, g, e
    <3>2. g \in Seq(Cells) /\ Len(g) = e /\ EndFrom(g, 0) = Len(g) /\ RecordsFrom(g, 0) = RecordsFrom(f, 0)
      BY <1>2, <1>3, <3>1, CutIsClean
    <3>3. Replayed(g) = RecordsFrom(g, 0) /\ LastValid(g) = EndFrom(g, 0)
      BY <3>2, FromZero
    <3>4. \A i \in 1..e : g[i] = f[i]
      BY <1>2, <1>4, <3>1, PrefixFacts
    <3> QED BY <1>3, <1>4, <2>1, <3>2, <3>3, <3>4
  <2>2. CASE v # "truncate"
    <3>1. g = f
      BY <1>1, <2>2 DEF Truncated
    <3> HIDE DEF g, v
    <3>2. v # "keep" => LastValid(f) = Len(f)
      BY <1>5, <2>2
    <3> HIDE DEF f
    <3> QED BY <1>2, <3>1, <3>2
  <2> QED BY <2>1, <2>2
<1>7. Content' = g
  BY <1>1, <1>6, ConcatEmptySeq DEF Content
<1>8. Begins(Replayed(f), log)
  <2>1. Content = f
    BY <1>1, <1>2, ConcatEmptySeq DEF Content
  <2> QED BY <2>1 DEF WALInv, ReplayIsPrefix
<1>9. TypeOK'
  <2>1. log' \in Seq(1..(next - 1))
    <3>1. log \in Seq(1..(next - 1)) /\ next - 1 \in Nat
      BY WALAssumption DEF WALInv, TypeOK
    <3> HIDE DEF f
    <3>2. Replayed(f) \in Seq(1..(next - 1))
      BY <1>2, <1>4, <1>8, <3>1, BeginsFacts
    <3> QED BY <1>1, <3>2 DEF f
  <2>2. synced' \in 0..Len(file')
    <3>1. Len(file') \in Nat
      BY <1>6
    <3> QED BY <1>1, <1>2, <3>1
  <2> QED BY <1>1, <2>1, <2>2 DEF WALInv, TypeOK
<1>10. FileShape'
  <2>1. kept' \in BOOLEAN
    BY <1>1
  <2> HIDE DEF v
  <2> QED BY <1>1, <1>6, <2>1 DEF WALInv, FileShape
<1>11. ReplayIsPrefix'
  <2>1. \A s : Begins(s, s)
    BY DEF Begins
  <2> QED BY <1>1, <1>6, <1>7, <2>1 DEF ReplayIsPrefix
<1>12. CleanUnlessKept'
  <2>1. ~kept' => v # "keep"
    BY <1>1
  <2> QED BY <1>6, <1>7, <2>1 DEF CleanUnlessKept, IsClean
<1>13. SafeOnDisk'
  <2> SUFFICES ASSUME SizesAccepted, ~kept'
               PROVE  safe \subseteq Records(Replayed(SubSeq(g, 1, synced')))
    BY <1>1 DEF SafeOnDisk
  <2>1. ~kept
    BY <1>1
  <2>2. safe \subseteq Records(Replayed(SubSeq(f, 1, synced)))
    BY <2>1 DEF WALInv, SafeOnDisk
  <2> HIDE DEF g, f, v, e
  <2>3. CASE synced <= Len(g)
    <3>1. synced' = synced /\ \A i \in 1..synced : g[i] = f[i]
      BY <1>1, <1>2, <1>6, <2>3 DEF g
    <3>2. SubSeq(g, 1, synced) = SubSeq(f, 1, synced)
      BY <1>2, <1>6, <2>3, <3>1, SamePart
    <3> QED BY <2>2, <3>1, <3>2
  <2>4. CASE ~(synced <= Len(g))
    <3>1. synced' = Len(g)
      BY <1>1, <2>4 DEF g
    <3>2. SubSeq(g, 1, synced') = g
      BY <1>6, <3>1, SubSeqFull
    <3>3. Records(Replayed(SubSeq(f, 1, synced))) \subseteq Records(Replayed(f))
      BY <1>2, PartReplay
    <3> QED BY <1>6, <2>2, <3>2, <3>3
  <2> QED BY <2>3, <2>4
<1> QED
  BY <1>9, <1>10, <1>11, <1>12, <1>13 DEF WALInv
-----------------------------------------------------------------------------
LEMMA NextKeepsWALInv == WALInv /\ [Next]_walVars => WALInv'
<1> SUFFICES ASSUME WALInv, [Next]_walVars PROVE WALInv'
  OBVIOUS
<1>1. ASSUME NEW n \in Sizes, Write(n) PROVE WALInv'
  BY <1>1, WriteStep
<1>2. CASE SyncCall \/ FlushBuffer \/ Fsync \/ Close
  BY <1>2, SyncCallStep, FlushBufferStep, FsyncStep, CloseStep
<1>3. CASE ProcessDies \/ PowerFails \/ PowerGarbles
  BY <1>3, ProcessDiesStep, PowerFailsStep, PowerGarblesStep
<1>4. CASE Recover
  BY <1>4, RecoverStep
<1>5. CASE UNCHANGED walVars
  BY <1>5 DEF walVars, WALInv, TypeOK, FileShape, ReplayIsPrefix, CleanUnlessKept, IsClean,
              Content, SafeOnDisk
<1> QED
  BY <1>1, <1>2, <1>3, <1>4, <1>5 DEF Next

\* The strengthened invariant is inductive, whatever is written and however it ends.
THEOREM WALInvariance == Spec => []WALInv
BY InitWALInv, NextKeepsWALInv, PTL DEF Spec

\* The buffer never holds more than bufio.Writer does, and no more is counted as synced
\* than the file has, also after a recovery has cut it.
THEOREM WALTypeCorrect == Spec => []TypeOK
<1>1. WALInv => TypeOK
  BY DEF WALInv
<1> QED BY <1>1, WALInvariance, PTL

\* If recovery accepts the lengths that are written, a record that was acknowledged as
\* synced is in reach of every later replay, unless a recovery has kept a bad frame.
THEOREM SyncedIsReadable == ASSUME SizesAccepted PROVE Spec => []SafeIsReadable
<1>1. WALInv => SafeIsReadable
  <2> SUFFICES ASSUME WALInv, ~kept PROVE safe \subseteq Records(Replayed(file))
    BY DEF SafeIsReadable
  <2>1. safe \subseteq Records(Replayed(SubSeq(file, 1, synced)))
    BY DEF WALInv, SafeOnDisk
  <2>2. Records(Replayed(SubSeq(file, 1, synced))) \subseteq Records(Replayed(file))
    BY WALTypes, PartReplay
  <2> QED BY <2>1, <2>2
<1> QED BY <1>1, WALInvariance, PTL

\* ... and as long as none was kept, nothing is appended where no replay finds it
\* (RecoverWithReport truncates before Open appends).
THEOREM AppendsAreRead == ASSUME SizesAccepted PROVE Spec => []ReadsBack
<1>1. WALInv => ReadsBack
  BY DEF WALInv, CleanUnlessKept, ReplayIsPrefix, ReadsBack, Content
<1> QED BY <1>1, WALInvariance, PTL

\* A recovery replays the first of the records written and leaves none out, also when
\* records are too long for it or it meets a bad frame in the middle.
THEOREM RecoveryLosesASuffix == Spec => RecoversPrefix
<1>1. WALInv /\ [Next]_walVars =>
          [mode = "down" /\ mode' = "open" =>
               Len(log') <= Len(log) /\ log' = SubSeq(log, 1, Len(log'))]_walVars
  <2> SUFFICES ASSUME WALInv, Next, mode = "down", mode' = "open"
               PROVE  Len(log') <= Len(log) /\ log' = SubSeq(log, 1, Len(log'))
    OBVIOUS
  <2>1. Recover
    <3>1. stage = "idle"
      BY DEF WALInv, FileShape
    <3> QED BY <3>1 DEF Next, Write, SyncCall, FlushBuffer, Fsync, Close, ProcessDies,
                        PowerFails, PowerGarbles, Down
  <2>2. log' = Replayed(Content)
    <3>1. buffer = <<>> /\ log' = Replayed(file)
      BY <2>1 DEF WALInv, FileShape, Recover
    <3> QED BY <3>1, WALTypes, ConcatEmptySeq DEF Content
  <2> DEFINE s == Replayed(Content)
  <2>3. s \in Seq(Nat) /\ log \in Seq(Nat) /\ Begins(s, log)
    BY WALTypes DEF WALInv, ReplayIsPrefix
  <2> HIDE DEF s
  <2>4. s = SubSeq(log, 1, Len(s)) /\ Len(s) <= Len(log)
    BY <2>3, BeginsFacts DEF Begins
  <2> QED BY <2>2, <2>4 DEF s
<1> QED BY <1>1, WALInvariance, PTL DEF Spec, RecoversPrefix
=============================================================================
