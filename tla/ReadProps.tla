----------------------------- MODULE ReadProps -----------------------------
(***************************************************************************)
(* What Get and Scan promise while the engine writes, flushes and compacts *)
(* (module ReadPath).                                                      *)
(***************************************************************************)
EXTENDS ReadPath

\* Key k was answered as of a moment between the write numbers lo and hi: e was its
\* newest write then, or there is none for want of writes or by a deletion.
AsOf(k, e, lo, hi) ==
    LET Between == {r \in hist : r.key = k /\ lo <= r.seq /\ r.seq <= hi}
    IN  \/ e \in Between
        \/ /\ e = NoEntry
           /\ lo = 0 \/ \E r \in Between : IsTombstone(r)

\* A Get answers with nothing older than the newest write at its first critical
\* section, whatever is flushed, installed, compacted or unlinked before its second
\* (Engine.Get releases mu in between).
GetsAreFresh ==
    reader.pc = "got" /\ reader.key \notin demoted =>
        AsOf(reader.key, reader.got, reader.floor, writes)

\* The keys of the range that a scan has answered for.
Passed ==
    {k \in reader.lo..reader.hi : k <= reader.at \/ AtEnd(reader)}

\* A scan gives every key the entry it had at some moment of the call of Scan, and
\* none that came later or was superseded before, however long its caller goes on
\* and whatever happens to its tables; only what it could not read, because a
\* compaction closed the table in the middle of it, may be missing or older.
\* (README: `newer timestamps supersede older versions, and tombstones suppress
\* deleted keys for range queries'.)
ScansAreFresh ==
    reader.pc = "scanning" =>
        \A k \in Passed \ (reader.lost \cup demoted) :
            LET e == IF k \in DOMAIN reader.out THEN reader.out[k] ELSE NoEntry
            IN  AsOf(k, e, reader.floor[k], reader.top)

\* What a reader would find now.
Found(k) == IF FindInMem(k) # NoEntry THEN FindInMem(k) ELSE Get(k)

\* Memtables, tables and compaction together are one map: at every moment, within
\* any rotation, flush or compaction, a reader that is not interrupted finds the
\* newest write of each key, or nothing when that is a deletion whose tombstone a
\* compaction has dropped at the bottom level.  (Readers change none of this, so the
\* states in which none is under way are all there is to look at.)
NewestIsFound ==
    reader = Idle => \A k \in Keys \ demoted :
        \/ Found(k) = Newest(k)
        \/ Found(k) = NoEntry /\ Newest(k).seq > 0 /\ IsTombstone(Newest(k))
=============================================================================
