--------------------------- MODULE MergeIterator ---------------------------
(***************************************************************************)
(* core.MergedIterator: the heap that merges sorted streams into one, for  *)
(* Scan and for compactions.                                               *)
(*                                                                         *)
(* A stream maps the keys it has to operations; its number is its priority *)
(* (1 is the highest).  An iterator over it is the set of keys it has not  *)
(* passed, so it stands at the smallest one and is not valid when there is *)
(* none.  An iterator over an SSTable may also end early: Next drops the    *)
(* error of a block that it cannot load.                                   *)
(***************************************************************************)
EXTENDS Integers, Sequences, FiniteSets

CONSTANTS
    NumStreams,
    NumKeys,      \* keys are 1..NumKeys
    MaxLoadErrors \* bound on the blocks that cannot be loaded

ASSUME MergeAssumption ==
    NumStreams \in Nat /\ NumKeys \in Nat /\ MaxLoadErrors \in Nat

VARIABLES
    streams,    \* m.iters: what each of them has
    dropTombstones,
    rest,       \* iterator -> the keys it has not passed
    heap,       \* m.h: priorities of the iterators in heap order
    current,    \* [key, src] of m.current, or NoEntry when not valid
    from,       \* history: no key below this one is still to come
    errors

mergeVars == <<streams, dropTombstones, rest, heap, current, from, errors>>

Streams == 1..NumStreams
Keys    == 1..NumKeys
Ops     == {"put", "delete"}
Tables  == UNION {[S -> Ops] : S \in SUBSET Keys}
NoEntry == [key |-> 0, src |-> 0]
-----------------------------------------------------------------------------
\* The heap.  Positions count from 1 here, from 0 in the code.

KeyOf(r, i) == CHOOSE k \in r[i] : \A j \in r[i] : k <= j

\* Mutant of Less: of one key, the stream of the lowest priority is first.
LessReversed(r, a, b) ==
    \/ KeyOf(r, a) < KeyOf(r, b)
    \/ KeyOf(r, a) = KeyOf(r, b) /\ a > b

Less(r, a, b) ==
    \/ KeyOf(r, a) < KeyOf(r, b)
    \/ KeyOf(r, a) = KeyOf(r, b) /\ a < b

Swap(h, i, j) == [h EXCEPT ![i] = h[j], ![j] = h[i]]

Heaps(n) == [1..n -> Streams]

Up(r, heap0, j0) ==
    LET n == Len(heap0)
        up[s \in Heaps(n) \X (1..n)] ==
            LET h == s[1]
                j == s[2]
                i == j \div 2
            IN  IF i = 0 \/ ~Less(r, h[j], h[i]) THEN h ELSE up[<<Swap(h, i, j), i>>]
    IN  up[<<heap0, j0>>]

\* Within the first n positions.
Child(r, h, i, n) == IF 2 * i + 1 <= n /\ Less(r, h[2 * i + 1], h[2 * i]) THEN 2 * i + 1 ELSE 2 * i

Down(r, heap0, i0, n) ==
    LET down[s \in Heaps(Len(heap0)) \X (1..Len(heap0))] ==
            LET h == s[1]
                i == s[2]
                j == Child(r, h, i, n)
            IN  IF 2 * i > n \/ ~Less(r, h[j], h[i]) THEN h ELSE down[<<Swap(h, i, j), j>>]
    IN  down[<<heap0, i0>>]

Push(r, h, i) == Up(r, Append(h, i), Len(h) + 1)

\* Mutant of Pop: the new root stays where it is, behind its children or not.
PopOnly(r, h) == SubSeq(Swap(h, 1, Len(h)), 1, Len(h) - 1)

\* The root, whose iterator is not valid any more, is swapped to the end and cut off.
Pop(r, h) ==
    LET n == Len(h) - 1
    IN  SubSeq(Down(r, Swap(h, 1, n + 1), 1, n), 1, n)

\* Those of the iterators that are valid, in the order of their priority.
PushAll(r) ==
    LET push[s \in Seq(Streams) \X (1..(NumStreams + 1))] ==
            LET h == s[1]
                i == s[2]
            IN  IF i > NumStreams THEN h
                ELSE push[<<IF r[i] # {} THEN Push(r, h, i) ELSE h, i + 1>>]
    IN  push[<<<<>>, 1>>]
-----------------------------------------------------------------------------
\* The root's iterator moves on, and the heap is mended.
StepRoot(s) ==
    LET i == s.heap[1]
        r == [s.rest EXCEPT ![i] = @ \ {KeyOf(s.rest, i)}]
    IN  [rest |-> r,
         heap |-> IF r[i] # {} THEN Down(r, s.heap, 1, Len(s.heap)) ELSE Pop(r, s.heap)]

States == [rest : [Streams -> SUBSET Keys], heap : Seq(Streams)]

SkipKey(s0, k) ==
    LET skip[s \in States] ==
            IF s.heap # <<>> /\ KeyOf(s.rest, s.heap[1]) = k THEN skip[StepRoot(s)] ELSE s
    IN  skip[s0]

\* advance: the root's entry is the next one, and every other version of its key
\* is passed over.
Advance(s0) ==
    LET advance[s \in States] ==
            LET e    == [key |-> KeyOf(s.rest, s.heap[1]), src |-> s.heap[1]]
                next == SkipKey(StepRoot(s), e.key)
            IN  IF s.heap = <<>> THEN [s |-> s, current |-> NoEntry]
                ELSE IF dropTombstones /\ streams[e.src][e.key] = "delete" THEN advance[next]
                ELSE [s |-> next, current |-> e]
    IN  advance[s0]

Move(s) ==
    \E a \in {Advance(s)} :
        /\ rest' = a.s.rest
        /\ heap' = a.s.heap
        /\ current' = a.current

\* What the iterator stands on before its constructor has run.
Init ==
    /\ streams \in [Streams -> Tables]
    /\ dropTombstones \in BOOLEAN
    /\ rest = [i \in Streams |-> {}]
    /\ heap = <<>> /\ current = NoEntry
    /\ from = 0
    /\ errors = 0

At(lowest) == [i \in Streams |-> {k \in DOMAIN streams[i] : k >= lowest}]

\* The block of iterator i that begins with key k cannot be loaded: it ends there.
EndsBefore(r, i, k) == [r EXCEPT ![i] = {j \in @ : j < k}]

\* Iterators that stand at their first keys from lowest on are pushed, and the first
\* entry is shown.
Start(r) == Move([rest |-> r, heap |-> PushAll(r)])

Place(lowest) ==
    \/ Start(At(lowest)) /\ UNCHANGED errors
    \/ \E i \in Streams : \E k \in At(lowest)[i] :
         /\ errors < MaxLoadErrors /\ errors' = errors + 1
         /\ Start(EndsBefore(At(lowest), i, k))

\* NewMergedIterator over iterators that stand at their first entries.
New ==
    /\ from = 0
    /\ from' = 1
    /\ Place(1)
    /\ UNCHANGED <<streams, dropTombstones>>

Next ==
    /\ from > 0 /\ current # NoEntry
    /\ from' = current.key + 1
    /\ Move([rest |-> rest, heap |-> heap])
    /\ UNCHANGED <<streams, dropTombstones, errors>>

\* Seek positions every iterator anew and rebuilds the heap.
Seek(target) ==
    /\ from > 0
    /\ from' = target
    /\ Place(target)
    /\ UNCHANGED <<streams, dropTombstones>>

\* The block of iterator i that begins with key k, and those behind it, are gone (its
\* reader was closed by a compaction).  The iterator ends when it gets there, in
\* whichever loop, which is as if its keys ended there now.
LoadError(i) ==
    /\ errors < MaxLoadErrors /\ errors' = errors + 1
    /\ from > 0
    /\ \E k \in rest[i] : k # KeyOf(rest, i) /\ rest' = EndsBefore(rest, i, k)
    /\ UNCHANGED <<streams, dropTombstones, heap, current, from>>

NextStep ==
    \/ New \/ Next
    \/ \E t \in Keys : Seek(t)
    \/ \E i \in Streams : LoadError(i)

Spec == Init /\ [][NextStep]_mergeVars
-----------------------------------------------------------------------------
\* The heap has every iterator that is valid, once, and no parent is behind a
\* child, although the keys in it change under it whenever an iterator moves.
HeapInvariant ==
    from > 0 =>
      /\ \A i \in Streams : Cardinality({j \in 1..Len(heap) : heap[j] = i})
                              = (IF rest[i] = {} THEN 0 ELSE 1)
      /\ \A j \in 2..Len(heap) : ~Less(rest, heap[j], heap[j \div 2])

\* The stream that counts for key k is the first one that has it.
Winner(k) == CHOOSE i \in Streams :
                 k \in DOMAIN streams[i] /\ \A j \in Streams : k \in DOMAIN streams[j] => i <= j

Shown == {k \in Keys : /\ \E i \in Streams : k \in DOMAIN streams[i]
                       /\ ~(dropTombstones /\ streams[Winner(k)][k] = "delete")}

\* The iterator stands on the next key of the merge: the smallest that has not
\* been passed and that is not deleted, with the entry of the stream of highest
\* priority.  So nothing is skipped, repeated or brought back from a lower stream,
\* as long as every block can be loaded.
IsMerge ==
    from > 0 /\ errors = 0 =>
      LET Left == {k \in Shown : k >= from}
      IN  current = IF Left = {} THEN NoEntry
                    ELSE LET k == CHOOSE k \in Left : \A j \in Left : k <= j
                         IN  [key |-> k, src |-> Winner(k)]
=============================================================================
