------------------------------ MODULE SkipList ------------------------------
(***************************************************************************)
(* The skip list of a memtable: linked lists of nodes, one per height, the *)
(* higher ones skipping over nodes of the lower; Put searches from the top *)
(* and links a node of random height, or replaces the entry of its key.    *)
(*                                                                         *)
(* s.mu makes every operation atomic.  An entry is a number and a size.    *)
(***************************************************************************)
EXTENDS Integers, Sequences, FiniteSets

CONSTANTS
    NumKeys,       \* keys are 1..NumKeys
    MaxHeight,
    Sizes,         \* sizes of entries
    NodeOverhead,  \* estimated size of a node without its pointers
    MaxPuts        \* bound

Keys  == 1..NumKeys
HeadNode  == 0
Nil   == NumKeys + 1
Links == 1..MaxHeight

VARIABLES
    next,      \* level -> node -> its successor; a node is named by its key
    height,    \* levels in use
    entries,   \* key -> entry, for the keys that have a node
    heights,   \* key -> height of its node
    length, bytes,
    puts,
    model      \* history: key -> the entry last put

listVars == <<next, height, entries, heights, length, bytes, puts, model>>

PointerSize == 8

Init ==
    /\ next = [l \in Links |-> [n \in {HeadNode} |-> Nil]]
    /\ height = 1
    /\ entries = [k \in {} |-> 0] /\ heights = [k \in {} |-> 0]
    /\ length = 0 /\ bytes = 0
    /\ puts = 0
    /\ model = [k \in {} |-> 0]
-----------------------------------------------------------------------------
\* Mutant of Walk: it stops behind the node with the key.
WalkTooFar(l, n, k) ==
    LET from[c \in DOMAIN next[l]] ==
            IF next[l][c] # Nil /\ next[l][c] <= k THEN from[next[l][c]] ELSE c
    IN  from[n]

\* The last node of level l, from n on, whose key is below k.
Walk(l, n, k) ==
    LET from[c \in DOMAIN next[l]] ==
            IF next[l][c] # Nil /\ next[l][c] < k THEN from[next[l][c]] ELSE c
    IN  from[n]

\* The search path from the top: on each level in use the node before key k;
\* above them the head.
Update(k) ==
    LET Path[l \in Links] ==
            IF l > height THEN HeadNode ELSE Walk(l, IF l = MaxHeight THEN HeadNode ELSE Path[l + 1], k)
    IN  Path

Candidate(k) == next[1][Update(k)[1]]

\* Mutant of Replace: the bytes of the replaced entry still count.
ReplaceKeepsBytes(k, e) ==
    /\ entries' = [entries EXCEPT ![k] = e]
    /\ bytes' = bytes + e.size
    /\ UNCHANGED <<next, height, heights, length>>

\* The two ends of Put: the entry of a key that is there is replaced, ...
Replace(k, e) ==
    /\ entries' = [entries EXCEPT ![k] = e]
    /\ bytes' = bytes + e.size - entries[k].size
    /\ UNCHANGED <<next, height, heights, length>>

\* ... or a node of height h is linked behind those of the search path.
Insert(k, e, h) ==
    LET update == Update(k)
    IN  /\ height' = IF h > height THEN h ELSE height
        /\ next' = [l \in Links |->
              IF l > h THEN next[l]
              ELSE [n \in DOMAIN next[l] \cup {k} |->
                      IF n = k THEN next[l][update[l]]
                      ELSE IF n = update[l] THEN k
                      ELSE next[l][n]]]
        /\ entries' = [j \in DOMAIN entries \cup {k} |-> IF j = k THEN e ELSE entries[j]]
        /\ heights' = [j \in DOMAIN heights \cup {k} |-> IF j = k THEN h ELSE heights[j]]
        /\ length' = length + 1
        /\ bytes' = bytes + e.size + NodeOverhead + h * PointerSize

\* Put; the height is drawn only for a new node.
Put(k, size, h) ==
    LET e == [num |-> puts + 1, size |-> size]
    IN  /\ puts < MaxPuts
        /\ puts' = puts + 1
        /\ model' = [j \in DOMAIN model \cup {k} |-> IF j = k THEN e ELSE model[j]]
        /\ \/ Candidate(k) = k /\ h = heights[k] /\ Replace(k, e)
           \/ Candidate(k) # k /\ Insert(k, e, h)
-----------------------------------------------------------------------------
Found(k) == Candidate(k) = k

\* NewIterator: the entries of the lowest list, in its order.
Snapshot ==
    LET nodes[s \in Seq(Keys) \X (DOMAIN entries \cup {Nil})] ==
            IF s[2] = Nil THEN s[1] ELSE nodes[<<Append(s[1], s[2]), next[1][s[2]]>>]
    IN  nodes[<<<<>>, next[1][HeadNode]>>]

\* Mutant of SeekPlace: a key equal to the target is passed.
SeekPlaceAbove(keys, t) ==
    LET search[s \in Int \X Int \X Int] ==
            LET low  == s[1]
                high == s[2]
                mid  == (low + high) \div 2
            IN  IF low > high THEN s[3]
                ELSE IF keys[mid] > t THEN search[<<low, mid - 1, mid>>]
                ELSE search[<<mid + 1, high, s[3]>>]
    IN  search[<<1, Len(keys), Len(keys) + 1>>]

\* SkipListIterator.Seek: the binary search for the first place not below t.
SeekPlace(keys, t) ==
    LET search[s \in Int \X Int \X Int] ==
            LET low  == s[1]
                high == s[2]
                mid  == (low + high) \div 2
            IN  IF low > high THEN s[3]
                ELSE IF keys[mid] >= t THEN search[<<low, mid - 1, mid>>]
                ELSE search[<<mid + 1, high, s[3]>>]
    IN  search[<<1, Len(keys), Len(keys) + 1>>]
-----------------------------------------------------------------------------
TypeOK ==
    /\ next \in [Links -> UNION {[S \cup {HeadNode} -> Keys \cup {Nil}] : S \in SUBSET Keys}]
    /\ height \in Links /\ length \in 0..NumKeys /\ bytes \in Nat

\* A search finds exactly the keys that were put, with their last entry, whatever
\* heights were drawn: a node linked behind a wrong one on any level would hide
\* itself or others.
SearchFindsLast ==
    \A k \in Keys : /\ Found(k) <=> k \in DOMAIN model
                    /\ Found(k) => entries[k] = model[k]

\* The iterator's snapshot has every key once, in order, and Seek on it stands on
\* the first key that is not below its target, or past the end.
SnapshotIsSorted ==
    /\ {Snapshot[i] : i \in 1..Len(Snapshot)} = DOMAIN model
    /\ \A i \in 1..(Len(Snapshot) - 1) : Snapshot[i] < Snapshot[i + 1]
    /\ \A t \in Keys : LET p == SeekPlace(Snapshot, t)
                       IN  \A i \in 1..Len(Snapshot) : Snapshot[i] >= t <=> i >= p

\* ByteSize is the sum over the nodes, also after entries were replaced by larger
\* or smaller ones; ShouldFlush and with it every rotation depends on it.
BytesAreExact ==
    LET Sum[k \in 0..NumKeys] ==
            IF k = 0 THEN 0
            ELSE Sum[k - 1] + (IF k \in DOMAIN model
                               THEN model[k].size + NodeOverhead + heights[k] * PointerSize
                               ELSE 0)
    IN  bytes = Sum[NumKeys] /\ length = Cardinality(DOMAIN model)
=============================================================================
