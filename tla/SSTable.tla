------------------------------- MODULE SSTable -------------------------------
(***************************************************************************)
(* One table of pkg/sstable: the builder cuts sorted entries into blocks   *)
(* and fills a sparse index and a Bloom filter; the reader answers point   *)
(* lookups through them and iterates block by block, until it is closed    *)
(* under its iterators by a compaction.  The data file is synced, the      *)
(* files of index, filter and metadata are not: a power failure may damage *)
(* them before they are read again.                                        *)
(*                                                                         *)
(* Files are not modelled byte by byte: a block is the sequence of its     *)
(* keys, and its place in the sparse index is its number; an entry of the  *)
(* index, or a bit of the filter, is one word of its file.                 *)
(***************************************************************************)
EXTENDS Integers, Sequences, FiniteSets

CONSTANTS
    NumKeys,      \* keys are 1..NumKeys
    BlockSize,    \* size at which a block is finished
    Bits,         \* bits of the Bloom filter ...
    NumHashes     \* ... and bits set per key

Keys == 1..NumKeys

VARIABLES
    contents,   \* key -> size, for the keys that go into the table
    input,      \* the keys that are still to be added, in the iterator's order
    hash,       \* key -> the two hashes that doubleHash gives
    stage,      \* "none", "building", "open", "closed", or "refused" by OpenReader
    currBlock,  \* keys of the block being filled
    blocks,     \* the blocks written
    index,      \* block number -> its first key, or 0 if it was read as zeros
    bits,       \* bits set in the filter
    damage,     \* of a power failure: "none" so far, "cut" (or none at all), "zeros"
    minKey, maxKey,
    iter,       \* [block, entry] of an iterator; block = 0 when it has none
    from        \* history: the iterator is due to stand at its first key >= from

tableVars == <<contents, input, hash, stage, currBlock, blocks, index, bits, damage, minKey,
               maxKey, iter, from>>
built     == <<contents, input, hash, currBlock, blocks, index, bits, damage, minKey, maxKey>>

NoBlock == [block |-> 0, entry |-> 0]
Has     == DOMAIN contents
-----------------------------------------------------------------------------
\* The Bloom filter

BitsOf(k) == {(hash[k][1] + i * hash[k][2]) % Bits : i \in 0..(NumHashes - 1)}

MayContain(k) == BitsOf(k) \subseteq bits

\* The binary search for the last block whose first key is not above k.
FindCandidateBlock(k) ==
    LET search[s \in Int \X Int \X Int] ==
            LET low  == s[1]
                high == s[2]
                mid  == (low + high) \div 2
            IN  IF low > high THEN s[3]
                ELSE IF index[mid] <= k THEN search[<<mid + 1, high, mid>>]
                ELSE search[<<low, mid - 1, s[3]>>]
    IN  search[<<1, Len(index), 0>>]

\* SSTableReader.Get: the range, the filter (unless bypassed), the index, the block.
Get(k, bypassBloom) ==
    /\ ~(k < minKey) /\ ~(k > maxKey)
    /\ bypassBloom \/ MayContain(k)
    /\ FindCandidateBlock(k) # 0 /\ index[FindCandidateBlock(k)] # 0
    /\ \E i \in 1..Len(blocks[FindCandidateBlock(k)]) : blocks[FindCandidateBlock(k)][i] = k

\* loadBlock fails past the last block, for an entry of zeros (it leads to a block of
\* no bytes), and always once the reader is closed.
Loads(b) == b \in 1..Len(index) /\ index[b] # 0 /\ stage = "open"

Valid(it) == it.block # 0 /\ it.entry <= Len(blocks[it.block])

KeyAt(it) == blocks[it.block][it.entry]
-----------------------------------------------------------------------------
Init ==
    /\ contents = [k \in {} |-> 0] /\ input = <<>> /\ hash = [k \in {} |-> <<0, 0>>]
    /\ stage = "none"
    /\ currBlock = <<>> /\ blocks = <<>> /\ index = <<>> /\ bits = {} /\ damage = "none"
    /\ minKey = 0 /\ maxKey = 0
    /\ iter = NoBlock /\ from = 0

Weight(s) ==
    LET Sum[i \in 0..Len(s)] == IF i = 0 THEN 0 ELSE Sum[i - 1] + contents[s[i]]
    IN  Sum[Len(s)]

\* NewBuilder, for an iterator over keys of the given sizes.
NewBuilder(keys, sizes, hashes) ==
    /\ stage = "none"
    /\ stage' = "building"
    /\ contents' = sizes /\ input' = keys /\ hash' = hashes
    /\ UNCHANGED <<currBlock, blocks, index, bits, damage, minKey, maxKey, iter, from>>

\* Add the iterator's next entry; a full block is written at once.
Add ==
    /\ stage = "building" /\ input # <<>>
    /\ LET k   == Head(input)
           blk == Append(currBlock, k)
       IN  /\ minKey' = IF minKey = 0 \/ k < minKey THEN k ELSE minKey
           /\ maxKey' = IF maxKey = 0 \/ k > maxKey THEN k ELSE maxKey
           /\ bits' = bits \cup BitsOf(k)
           /\ IF Weight(blk) >= BlockSize
              THEN /\ blocks' = Append(blocks, blk)
                   /\ index' = Append(index, blk[1])
                   /\ currBlock' = <<>>
              ELSE /\ currBlock' = blk
                   /\ UNCHANGED <<blocks, index>>
    /\ input' = Tail(input)
    /\ UNCHANGED <<contents, hash, stage, damage, iter, from>>

\* Finish writes the last block; OpenReader reads the table's files back.
Finish ==
    /\ stage = "building" /\ input = <<>>
    /\ IF currBlock # <<>>
       THEN /\ blocks' = Append(blocks, currBlock)
            /\ index' = Append(index, currBlock[1])
       ELSE UNCHANGED <<blocks, index>>
    /\ currBlock' = <<>>
    /\ stage' = "open"
    /\ UNCHANGED <<contents, input, hash, bits, damage, minKey, maxKey, iter, from>>

\* The reader's Close, called by a compaction while iterators are in use.
Close ==
    /\ stage = "open"
    /\ stage' = "closed"
    /\ UNCHANGED <<built, iter, from>>

NewIterator ==
    /\ stage = "open" /\ from = 0
    /\ index = <<>> \/ Loads(1)
    /\ iter' = IF index = <<>> THEN NoBlock ELSE [block |-> 1, entry |-> 1]
    /\ from' = 1
    /\ UNCHANGED <<built, stage>>

\* Mutant of IterNext: the next block is entered without a look at whether it loads.
IterNextBlindly ==
    /\ from # 0 /\ Valid(iter)
    /\ from' = KeyAt(iter) + 1
    /\ iter' = IF iter.entry < Len(blocks[iter.block])
               THEN [iter EXCEPT !.entry = @ + 1]
               ELSE [block |-> iter.block + 1, entry |-> 1]
    /\ UNCHANGED <<built, stage>>

\* Next: past the end of a block the next one is loaded, and an error is dropped.
IterNext ==
    /\ from # 0 /\ Valid(iter)
    /\ from' = KeyAt(iter) + 1
    /\ iter' = IF iter.entry < Len(blocks[iter.block])
               THEN [iter EXCEPT !.entry = @ + 1]
               ELSE IF Loads(iter.block + 1) THEN [block |-> iter.block + 1, entry |-> 1]
               ELSE IF iter.block = Len(index) THEN NoBlock
               ELSE [iter EXCEPT !.entry = @ + 1]
    /\ UNCHANGED <<built, stage>>

\* Where Seek begins; an entry of zeros has the offset of the first block.
SeekStart(t) ==
    LET c == FindCandidateBlock(t)
    IN  IF c = 0 THEN 1 ELSE IF index[c] = 0 THEN 1 ELSE c

\* Mutant of SeekReach: only the candidate block is searched.
SeekReachBlock(start) == {b \in {start} : Loads(b)}

\* ... and the blocks it gets to, up to the first that does not load.
SeekReach(start) == {b \in start..Len(index) : \A c \in start..b : Loads(c)}

\* Seek: from the candidate block on, the first entry that is not below t.  Scan
\* calls it under readersMu, while the reader is open.
Seek(t) ==
    LET Places == {p \in [block : SeekReach(SeekStart(t)), entry : 1..Cardinality(Has)] :
                     p.entry <= Len(blocks[p.block]) /\ KeyAt(p) >= t}
        First  == CHOOSE p \in Places : \A q \in Places :
                     p.block < q.block \/ (p.block = q.block /\ p.entry <= q.entry)
    IN  /\ from # 0 /\ stage = "open"
        /\ from' = t
        /\ iter' = IF Places # {} THEN First ELSE NoBlock
        /\ UNCHANGED <<built, stage>>
-----------------------------------------------------------------------------
\* The files that are not synced, as sequences of words: a count or length, then as
\* many entries or bits.

IndexFile  == <<Len(index)>> \o index
FilterFile == <<Bits>> \o [i \in 1..Bits |-> IF i - 1 \in bits THEN 1 ELSE 0]

\* What a power failure may leave of such a file: less of it, ...
Shorter(file) == {SubSeq(file, 1, n) : n \in 0..(Len(file) - 1)}

\* ... or all of it, of which the end was never written.
Zeroed(file) == {[i \in 1..Len(file) |-> IF i < n THEN file[i] ELSE 0] : n \in 1..Len(file)}
                  \ {file}

\* Mutant of DecodeSparseIndex: it takes the entries that there are.
DecodeWhatIsThere(file) == IF file = <<>> THEN {} ELSE {Tail(file)}

\* The index in the file, if any: an error when there are fewer entries than it says.
DecodeSparseIndex(file) ==
    IF file = <<>> \/ Len(file) < 1 + file[1] THEN {} ELSE {SubSeq(file, 2, 1 + file[1])}

\* The bits in the file, if any.  A filter of no bits lets every key pass, like one
\* with all of them set.
DecodeBloomFilter(file) ==
    IF file = <<>> \/ Len(file) < 1 + file[1] THEN {}
    ELSE IF file[1] = 0 THEN {0..(Bits - 1)}
    ELSE {{i \in 0..(Bits - 1) : file[i + 2] = 1}}

\* OpenReader: an error if one of the files cannot be decoded.  Metadata is JSON, which
\* cannot be when any of it is missing.
OpenReader(metaIsWhole, iFile, fFile) ==
    IF metaIsWhole /\ DecodeSparseIndex(iFile) # {} /\ DecodeBloomFilter(fFile) # {}
    THEN /\ stage' = "open"
         /\ index' \in DecodeSparseIndex(iFile)
         /\ bits' \in DecodeBloomFilter(fFile)
    ELSE stage' = "refused" /\ UNCHANGED <<index, bits>>

\* A power failure damages at most one of the files, and the table is opened again.
PowerFails ==
    /\ stage = "open" /\ damage = "none"
    /\ \/ /\ damage' = "cut"
          /\ \/ \E metaIsWhole \in BOOLEAN : OpenReader(metaIsWhole, IndexFile, FilterFile)
             \/ \E f \in Shorter(IndexFile) : OpenReader(TRUE, f, FilterFile)
             \/ \E f \in Shorter(FilterFile) : OpenReader(TRUE, IndexFile, f)
       \/ /\ damage' = "zeros"
          /\ \/ \E f \in Zeroed(IndexFile) : OpenReader(TRUE, f, FilterFile)
             \/ \E f \in Zeroed(FilterFile) : OpenReader(TRUE, IndexFile, f)
    /\ iter' = NoBlock /\ from' = 0
    /\ UNCHANGED <<contents, input, hash, currBlock, blocks, minKey, maxKey>>

Next ==
    \/ Add \/ Finish \/ Close
    \/ NewIterator \/ IterNext
    \/ \E t \in Keys : Seek(t)
    \/ PowerFails
-----------------------------------------------------------------------------
TypeOK ==
    /\ stage \in {"none", "building", "open", "closed", "refused"}
    /\ damage \in {"none", "cut", "zeros"}
    /\ currBlock \in Seq(Keys) /\ blocks \in Seq(Seq(Keys)) /\ index \in Seq(Keys \cup {0})
    /\ bits \subseteq 0..(Bits - 1)
    /\ iter.block \in 0..Len(blocks)

\* A lookup finds a key exactly when the table has it, whatever the filter, the
\* cuts between blocks and the gaps between keys (reader.go: `Guaranteed not in
\* this SSTable!'), also after a power failure that has cut off the end of a file: then
\* either OpenReader notices, or the table is as it was.  Of zeros in the middle of a
\* file, which has no checksum, OpenReader may know nothing, and keys may be missing:
\* but no key is found that the table does not have.
LookupsAreExact ==
    stage \in {"open", "closed"} => \A k \in Keys, bypass \in BOOLEAN :
        /\ Get(k, bypass) => k \in Has
        /\ k \in Has /\ damage # "zeros" => Get(k, bypass)

\* An iterator stands on the table's next key, and ends after the last one only
\* (reader.go: `SSTableIterator iterates through all entries in an SSTable').
IteratesAll ==
    from # 0 =>
      LET Left == {k \in Has : k >= from}
      IN  IF Left = {} THEN ~Valid(iter)
          ELSE Valid(iter) /\ KeyAt(iter) = CHOOSE k \in Left : \A j \in Left : k <= j

\* ... at least while its reader is open, and unless the index was read as zeros.
IteratesWhileOpen == [][stage' = "open" /\ damage' # "zeros" => IteratesAll']_tableVars
=============================================================================
