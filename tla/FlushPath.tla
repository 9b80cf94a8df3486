----------------------------- MODULE FlushPath -----------------------------
(***************************************************************************)
(* The way of a memtable to disk (flushMemTableDirect): entries are put    *)
(* into a skip list, its iterator hands a sorted snapshot to the builder   *)
(* of an SSTable, and readers look keys up in the table and iterate over   *)
(* it.  Modules SkipList and SSTable, joined at the iterator.              *)
(***************************************************************************)
EXTENDS Integers, Sequences, FiniteSets

CONSTANTS
    NumKeys, MaxHeight, Sizes, NodeOverhead, MaxPuts,   \* of the list
    BlockSize, Bits, NumHashes,                         \* of the table
    HashFunctions   \* what doubleHash may be: functions from keys to pairs

ASSUME ListAssumption ==
    /\ NumKeys \in Nat \ {0} /\ MaxHeight \in Nat \ {0} /\ MaxPuts \in Nat
    /\ Sizes \subseteq Nat /\ NodeOverhead \in Nat

ASSUME TableAssumption ==
    /\ BlockSize \in Nat \ {0} /\ Bits \in Nat \ {0} /\ NumHashes \in Nat \ {0}
    /\ HashFunctions \subseteq [1..NumKeys -> Nat \X Nat]

VARIABLES
    next, height, entries, heights, length, bytes, puts, model,
    contents, input, hash, stage, currBlock, blocks, index, bits, damage, minKey, maxKey,
    iter, from

List  == INSTANCE SkipList
Table == INSTANCE SSTable

listVars  == <<next, height, entries, heights, length, bytes, puts, model>>
tableVars == <<contents, input, hash, stage, currBlock, blocks, index, bits, damage, minKey,
               maxKey, iter, from>>
vars      == <<listVars, tableVars>>

Init == List!Init /\ Table!Init

Put(k, size, h) ==
    /\ stage = "none"
    /\ List!Put(k, size, h)
    /\ UNCHANGED tableVars

\* The iterator takes a snapshot, and the builder goes through it.  (The list is
\* not looked at again: it is dropped here, the engine drops it after the flush.)
FlushMemTable(hashes) ==
    /\ length > 0
    /\ Table!NewBuilder(List!Snapshot, [k \in DOMAIN entries |-> entries[k].size], hashes)
    /\ next' = [l \in List!Links |-> [n \in {List!HeadNode} |-> List!Nil]]
    /\ height' = 1
    /\ entries' = [k \in {} |-> 0] /\ heights' = [k \in {} |-> 0]
    /\ length' = 0 /\ bytes' = 0
    /\ model' = [k \in {} |-> 0]
    /\ puts' = 0

Next ==
    \/ \E k \in List!Keys, size \in Sizes, h \in List!Links : Put(k, size, h)
    \/ \E hashes \in HashFunctions : FlushMemTable(hashes)
    \/ Table!Next /\ UNCHANGED listVars

Spec == Init /\ [][Next]_vars
-----------------------------------------------------------------------------
\* Types of the list and of the table.
TypeOK == List!TypeOK /\ Table!TypeOK

\* The memtable is the map that the puts have made, at every height that the random
\* number generator may give its nodes: a search finds exactly what was put, the
\* iterator is sorted and complete and seeks right, and the size that decides about
\* rotation is exact (module SkipList).
MemtableIsExact == List!SearchFindsLast /\ List!SnapshotIsSorted /\ List!BytesAreExact

\* A lookup in the table finds exactly the keys of the flushed list.
LookupsAreExact == Table!LookupsAreExact

\* An iterator over the table passes all of its keys in order while it is open.
IteratesWhileOpen == Table!IteratesWhileOpen
=============================================================================
