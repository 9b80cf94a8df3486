------------------------------- MODULE Entries -------------------------------
(***************************************************************************)
(* Log entries and memtable contents, shared by the modules of the engine. *)
(*                                                                         *)
(* An entry is a record of its key, its operation and a sequence number    *)
(* that stands for its timestamp and its value: no two writes share one.   *)
(* A memtable's contents map every key to its entry, or to NoEntry.        *)
(***************************************************************************)
EXTENDS Integers

CONSTANT Keys

OpPut    == "put"
OpDelete == "delete"
Ops      == {OpPut, OpDelete}

\* `not found'.  Its number 0 is below that of every write.
NoEntry == [seq |-> 0]

EmptyData == [k \in Keys |-> NoEntry]

\* The entry SkipList.Put leaves under key k once all of the records S have
\* been put in the order they were written: the last one.
Newest(S, k) ==
    LET R == {r \in S : r.key = k}
    IN  IF R = {} THEN NoEntry
        ELSE CHOOSE r \in R : \A q \in R : q.seq <= r.seq

\* The memtable contents recovered from a log that holds the records S.
Replay(S) == [k \in Keys |-> Newest(S, k)]
=============================================================================
