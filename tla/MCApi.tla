------------------------------- MODULE MCApi -------------------------------
(***************************************************************************)
(* Instances of Api for TLC.                                               *)
(***************************************************************************)
EXTENDS ApiProps, TLC

IngesterSymmetry == Permutations(Ingesters)

Rec(i, t, l, s, m) ==
    [id |-> i, ts |-> t, lvl |-> l, svc |-> s, host |-> "h", msg |-> m, fields |-> {}]

A1 == Rec("a", 1, "info", "api", "disk full")
A2 == Rec("a", 3, "", "api", "disk")           \* overwrites A1
B  == [Rec("b", 2, "ERROR", "API", "full") EXCEPT !.fields = {"k=v"}]
C  == Rec("x:a", 2, " error", "", "full")      \* its index keys lead to "a"
D  == Rec("c", 3, "", "web", "the")            \* has no terms
N  == Rec("b", 2, "ERROR", "api", "")          \* not valid

SomeRecords == {A1, A2, B, C, D, N}

Lines(recs, long) == [form |-> "lines", recs |-> recs, long |-> long]
Array(recs)       == [form |-> "array", recs |-> recs, long |-> {}]

SomeBodies == {Array(<<B, D, N, A1>>), Lines(<<A1, N>>, {}), Lines(<<A1, C>>, {}),
               Lines(<<A2, B>>, {2})}

\* Index keys that clients write: one that leads a term to a record without it, and one
\* that a record has too.
SomeKeys == {[kind |-> "term", val |-> "disk", ts |-> 2, id |-> "b"],
             [kind |-> "term", val |-> "full", ts |-> 1, id |-> "a"]}

Ask(w, l, s, a, b) == [text |-> w, lvl |-> l, svc |-> s, host |-> "", fields |-> {},
                       from |-> a, to |-> b, limit |-> 0]

SomeQueries == {Ask("disk full", "", "", 0, 0),
                Ask("", "error", "api", 2, 2), Ask("", "", "api", 0, 2),
                [Ask("the", "", "", 1, 3) EXCEPT !.limit = 1],
                [Ask("", "", "", 0, 0) EXCEPT !.fields = {"k=v"}, !.host = "H"]}

TokensOf == [m \in {"disk full", "disk", "full", "the", ""} |->
               CASE m = "disk full" -> {"disk", "full"} [] m = "disk" -> {"disk"}
                 [] m = "full" -> {"full"} [] OTHER -> {}]

UpperOf  == [l \in {"info", "ERROR", "error", " error"} |->
               CASE l = "info" -> "INFO" [] l = " error" -> " ERROR" [] OTHER -> "ERROR"]
LevelOf  == [l \in DOMAIN UpperOf |-> IF l = "info" THEN "INFO" ELSE "ERROR"]
FoldCase == [s \in {"api", "API", "web", "default", "h", "H"} |->
               CASE s \in {"api", "API"} -> "api" [] s \in {"h", "H"} -> "h" [] OTHER -> s]
AfterColon == [i \in {"a", "b", "c", "x:a"} |-> IF i = "x:a" THEN "a" ELSE i]
=============================================================================
