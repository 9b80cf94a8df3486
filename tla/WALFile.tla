------------------------------ MODULE WALFile ------------------------------
(***************************************************************************)
(* One write-ahead log file of pkg/wal: buffered and synced writes, the    *)
(* process or the machine going down at any moment, and the replay that    *)
(* cuts off or keeps what it cannot read.                                  *)
(*                                                                         *)
(* A file is a sequence of cells.  A record's frame is a checksum cell, a  *)
(* length cell and `size' payload cells.  A cell that a power failure left *)
(* unwritten is garbage; as a length it reads as any number.               *)
(***************************************************************************)
EXTENDS Integers, Sequences, FiniteSets

CONSTANTS
    SyncPolicies,     \* of TRUE: every write is fsynced, and FALSE: only Sync does
    BufferSize,       \* cells that bufio.Writer holds
    MaxRecordPayload, \* longest payload that recovery accepts
    Sizes,            \* payload lengths of the records written
    CrashKinds,       \* "process", "torn" (a power failure cuts the unsynced
                      \* tail), "garbled" (it also leaves holes in it)
    MaxRecords, MaxCrashes   \* bounds

ASSUME WALAssumption ==
    /\ SyncPolicies \subseteq BOOLEAN
    /\ BufferSize \in Nat \ {0} /\ MaxRecordPayload \in Nat
    /\ Sizes \subseteq Nat \ {0}
    /\ MaxRecords \in Nat /\ MaxCrashes \in Nat

VARIABLES
    syncAlways, \* the policy of this log
    mode,      \* "open", or "down": the file must be recovered
    buffer,    \* cells in w.writer
    file,      \* cells that the operating system has
    synced,    \* length of the file that is on disk for certain
    stage,     \* of the holder of w.mu: "idle", "flush" or "sync"
    log,       \* the records written, less those a crash has cut off
    safe,      \* the records whose write or Sync was acknowledged as durable
    kept,      \* a recovery has left a frame in the file that it cannot read
    next, crashes

walVars == <<syncAlways, mode, buffer, file, synced, stage, log, safe, kept, next, crashes>>
-----------------------------------------------------------------------------
HeaderLen == 2

Cell(r, n, i) == [rec |-> r, size |-> n, at |-> i]
Garbage(n)    == [rec |-> 0, size |-> n, at |-> 0]
GarbageLens   == {0, 1, MaxRecordPayload + 1}

\* EncodeFrameTo: checksum, length, payload.
Frame(r, n) == [i \in 1..(HeaderLen + n) |-> Cell(r, n, i)]

\* Mutant of Spilled: the buffer takes everything.
NeverSpilled(b, cells) == 0

\* What bufio.Writer has passed on once cells were added to a buffer of b: it
\* fills the buffer and writes it out whole, a longer rest without buffering.
Spilled(b, cells) ==
    LET total == b + cells
    IN  IF total <= BufferSize THEN 0
        ELSE IF b = 0 \/ total - BufferSize > BufferSize THEN total
        ELSE BufferSize

\* The frame at offset o, its length given by its second cell.
LenAt(f, o) == f[o + 2].size

Intact(f, o) ==
    LET r == f[o + 1].rec
        n == LenAt(f, o)
    IN  SubSeq(f, o + 1, o + HeaderLen + n) = Frame(r, n)

\* RecoverWithReport at offset o: a valid frame, the clean end of the file, a
\* corruption that is cut off, or one in the middle that is left as it is.
Verdict(f, o) ==
    LET rest == Len(f) - o
        n    == LenAt(f, o)
    IN  IF rest = 0 THEN "end"
        ELSE IF rest < HeaderLen THEN "truncate"
        ELSE IF n > MaxRecordPayload \/ n > Len(f)
             THEN IF o + HeaderLen >= Len(f) THEN "truncate" ELSE "keep"
        ELSE IF rest < HeaderLen + n THEN "truncate"
        ELSE IF Intact(f, o) THEN "valid"
        ELSE IF o + HeaderLen + n >= Len(f) THEN "truncate"
        ELSE "keep"

\* lastValidOffset at the end of the replay, and the records replayed.
LastValid(f) ==
    LET From[o \in 0..Len(f)] ==
            IF Verdict(f, o) = "valid" THEN From[o + HeaderLen + LenAt(f, o)] ELSE o
    IN  From[0]

\* Mutant of Replayed: a frame with a bad checksum is skipped, not the end.
ReplayedSkipping(f) ==
    LET Bad(o) == /\ Verdict(f, o) = "keep"
                  /\ o + HeaderLen + LenAt(f, o) <= Len(f)
        From[o \in 0..Len(f)] ==
            IF Verdict(f, o) = "valid"
            THEN <<f[o + 1].rec>> \o From[o + HeaderLen + LenAt(f, o)]
            ELSE IF Bad(o) THEN From[o + HeaderLen + LenAt(f, o)]
            ELSE <<>>
    IN  From[0]

Replayed(f) ==
    LET From[o \in 0..Len(f)] ==
            IF Verdict(f, o) = "valid"
            THEN <<f[o + 1].rec>> \o From[o + HeaderLen + LenAt(f, o)] ELSE <<>>
    IN  From[0]

\* Mutants of Truncated: a torn frame stays in the file, or its header does.
NotTruncated(f) == f

TruncatedBehindHeader(f) ==
    IF Verdict(f, LastValid(f)) = "truncate"
    THEN SubSeq(f, 1, IF Len(f) < LastValid(f) + HeaderLen THEN Len(f)
                      ELSE LastValid(f) + HeaderLen)
    ELSE f

Truncated(f) ==
    IF Verdict(f, LastValid(f)) = "truncate" THEN SubSeq(f, 1, LastValid(f)) ELSE f

Records(s) == {s[i] : i \in 1..Len(s)}
-----------------------------------------------------------------------------
Init ==
    /\ syncAlways \in SyncPolicies
    /\ mode = "open"
    /\ buffer = <<>> /\ file = <<>> /\ synced = 0
    /\ stage = "idle"
    /\ log = <<>> /\ safe = {} /\ kept = FALSE
    /\ next = 1 /\ crashes = 0

\* Write puts the frame into the buffer, which may spill into the file ...
Write(n) ==
    LET all == buffer \o Frame(next, n)
        out == Spilled(Len(buffer), HeaderLen + n)
    IN  /\ mode = "open" /\ stage = "idle" /\ next <= MaxRecords
        /\ file' = file \o SubSeq(all, 1, out)
        /\ buffer' = SubSeq(all, out + 1, Len(all))
        /\ log' = Append(log, next)
        /\ next' = next + 1
        /\ stage' = IF syncAlways THEN "flush" ELSE "idle"
        /\ UNCHANGED <<syncAlways, mode, synced, safe, kept, crashes>>

\* Sync, called by periodicSyncer, Close or a user.
SyncCall ==
    /\ mode = "open" /\ stage = "idle"
    /\ synced < Len(file) + Len(buffer)
    /\ stage' = "flush"
    /\ UNCHANGED <<syncAlways, mode, buffer, file, synced, log, safe, kept, next, crashes>>

\* ... the buffer is flushed ...
FlushBuffer ==
    /\ stage = "flush"
    /\ file' = file \o buffer
    /\ buffer' = <<>>
    /\ stage' = "sync"
    /\ UNCHANGED <<syncAlways, mode, synced, log, safe, kept, next, crashes>>

\* ... and fsync makes the whole file durable.
Fsync ==
    /\ stage = "sync"
    /\ synced' = Len(file)
    /\ safe' = safe \cup Records(log)
    /\ stage' = "idle"
    /\ UNCHANGED <<syncAlways, mode, buffer, file, log, kept, next, crashes>>

\* Close flushes and syncs, and nothing is written until the next Open.
Close ==
    /\ mode = "open" /\ stage = "idle" /\ buffer # <<>>
    /\ file' = file \o buffer
    /\ synced' = Len(file')
    /\ safe' = safe \cup Records(log)
    /\ buffer' = <<>>
    /\ mode' = "down"
    /\ UNCHANGED <<syncAlways, stage, log, kept, next, crashes>>

Down ==
    /\ mode = "open" /\ crashes < MaxCrashes
    /\ crashes' = crashes + 1
    /\ mode' = "down" /\ stage' = "idle" /\ buffer' = <<>>
    /\ UNCHANGED <<syncAlways, log, safe, kept, next>>

\* The process dies: its buffer is gone, a write under way has passed on a part.
ProcessDies ==
    /\ "process" \in CrashKinds
    /\ Down
    /\ \E k \in 0..(IF stage = "flush" THEN Len(buffer) ELSE 0) :
         file' = file \o SubSeq(buffer, 1, k)
    /\ UNCHANGED synced

\* The power fails: of the unsynced tail a prefix is left, ...
PowerFails ==
    /\ "torn" \in CrashKinds
    /\ Down
    /\ \E n \in synced..Len(file) : file' = SubSeq(file, 1, n)
    /\ UNCHANGED synced

\* ... in which a cell may have reached the disk no more than its length did.
PowerGarbles ==
    /\ "garbled" \in CrashKinds
    /\ Down
    /\ \E n \in synced..Len(file), g \in GarbageLens : \E i \in (synced + 1)..n :
         file' = [SubSeq(file, 1, n) EXCEPT ![i] = Garbage(g)]
    /\ UNCHANGED synced

\* Recover replays the file and cuts off a torn tail; Open appends to the rest.
Recover ==
    /\ mode = "down"
    /\ file' = Truncated(file)
    /\ log' = Replayed(file)
    /\ synced' = IF synced <= Len(file') THEN synced ELSE Len(file')
    /\ mode' = "open"
    /\ kept' = (kept \/ Verdict(file, LastValid(file)) = "keep")
    /\ UNCHANGED <<syncAlways, buffer, stage, safe, next, crashes>>

Next ==
    \/ \E n \in Sizes : Write(n)
    \/ SyncCall \/ FlushBuffer \/ Fsync \/ Close
    \/ ProcessDies \/ PowerFails \/ PowerGarbles
    \/ Recover

Spec == Init /\ [][Next]_walVars
-----------------------------------------------------------------------------
TypeOK ==
    /\ mode \in {"open", "down"} /\ stage \in {"idle", "flush", "sync"}
    /\ next \in 1..(MaxRecords + 1) /\ crashes \in 0..MaxCrashes
    /\ synced \in 0..Len(file) /\ Len(buffer) <= BufferSize
    /\ log \in Seq(1..(next - 1)) /\ safe \subseteq 1..(next - 1)

\* A record acknowledged as durable is replayed by every later recovery, however
\* the process ends and whatever was torn off or appended since (crash_test.go:
\* `All acknowledged writes survive process crashes after WAL fsync').  Behind a
\* frame that a recovery found bad and kept, the replay does not reach it.
SafeIsReadable == kept \/ safe \subseteq Records(Replayed(file))

\* ... without that reservation, when only tails are torn off (wal.go, of Recover: `If
\* an uncompleted write is detected at the tail of the log [...] it truncates the file
\* to the last valid record').
AckedSurvive == safe \subseteq Records(Replayed(file))

\* While the log is written to, replaying what the file and the buffer hold gives
\* exactly the records written: nothing is ever appended behind a frame that
\* stops the replay, so that no later record is out of its reach.
ReadsBack == mode = "open" /\ ~kept => Replayed(file \o buffer) = log

\* A crash and its recovery lose a suffix of the records and no other: the
\* records replayed are the first ones of those written.
RecoversPrefix ==
    [][mode = "down" /\ mode' = "open" =>
         /\ Len(log') <= Len(log)
         /\ log' = SubSeq(log, 1, Len(log'))]_walVars
=============================================================================
