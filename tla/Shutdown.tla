------------------------------ MODULE Shutdown ------------------------------
(***************************************************************************)
(* How the daemon lsmd stops: the HTTP server drains its requests or gives *)
(* up after a timeout, then Engine.Close runs against the background       *)
(* workers and against the requests that are still in the engine.          *)
(*                                                                         *)
(* A request is a handler's Get, Put, Flush or Compact.  Of the store only *)
(* what Close touches is kept: a key in a table on disk that every Get     *)
(* looks for, whether the last write is synced, whether the memtables are  *)
(* so full that writers stall, and how many tables level 0 has, since the  *)
(* compaction worker goes on until these are few.  e.mu is held within     *)
(* actions only.                                                           *)
(***************************************************************************)
EXTENDS Integers

CONSTANTS
    Handlers,     \* goroutines that serve requests
    FlushWorker, CompactionWorker, NoThread,
    L0CompactionTrigger,
    MaxRequests   \* bound

Workers == {FlushWorker, CompactionWorker}

ASSUME ThreadAssumption ==
    /\ Handlers \cap Workers = {} /\ NoThread \notin Handlers \cup Workers
    /\ FlushWorker # CompactionWorker
    /\ L0CompactionTrigger \in Nat \ {0} /\ MaxRequests \in Nat

VARIABLES
    server,     \* "serving", "draining", "drained" or "abandoned"
    closing,    \* where Close is: "none", "wait", "wal", "readers", "manifest", "done"
    closed,     \* e.closed; e.closeChan is closed with it
    readers,    \* FALSE once e.readers is nil
    manifest,   \* the manifest is open
    lock,       \* holder of flushLock
    pc,         \* where each handler and worker is
    stalled,    \* the active memtable is full behind an immutable one
    signal,     \* flushChan has a signal
    unsynced,   \* an acknowledged write is not synced yet
    unflushed,  \* a memtable has entries
    tables,     \* how many tables level 0 has
    compact,    \* compactChan has a signal
    looping,    \* the compaction worker had it, and compacts until level 0 is small
    answer,     \* handler -> what its last Get returned
    panics,     \* threads that wrote to the nil map
    requests

shutVars == <<server, closing, closed, readers, manifest, lock, pc, stalled, signal,
              unsynced, unflushed, tables, compact, looping, answer, panics, requests>>

Init ==
    /\ server = "serving" /\ closing = "none" /\ closed = FALSE
    /\ readers = TRUE /\ manifest = TRUE
    /\ lock = NoThread
    /\ \E autoCompaction \in BOOLEAN :
         pc = [t \in Handlers \cup Workers |->
                 IF t = CompactionWorker /\ ~autoCompaction THEN "stopped" ELSE "idle"]
    /\ tables \in 0..L0CompactionTrigger /\ compact = FALSE /\ looping = FALSE
    /\ stalled = FALSE /\ signal = FALSE /\ unsynced = FALSE /\ unflushed = FALSE
    /\ answer = [h \in Handlers |-> "none"]
    /\ panics = {}
    /\ requests = 0

Go(t, place) == pc' = [pc EXCEPT ![t] = place]

engineState == <<readers, manifest, lock, panics>>
levelState  == <<tables, compact, looping>>
memState    == <<stalled, signal, unsynced, unflushed, levelState>>
closeState  == <<server, closing, closed>>
-----------------------------------------------------------------------------
\* Requests.  All but Compact look at e.closed first.  A handler that the server
\* has abandoned goes on: a search calls Get once for each candidate.

Request(h) ==
    /\ server \in {"serving", "abandoned"} /\ pc[h] = "idle" /\ requests < MaxRequests
    /\ requests' = requests + 1

\* Get, past the memtables.
GetCall(h) ==
    /\ Request(h)
    /\ answer' = [answer EXCEPT ![h] = IF closed THEN "closed" ELSE "none"]
    /\ Go(h, IF closed THEN "idle" ELSE "disk")
    /\ UNCHANGED <<closeState, engineState, memState>>

\* A table without a reader is passed over; with no readers at all every one is.
GetDisk(h) ==
    /\ pc[h] = "disk"
    /\ answer' = [answer EXCEPT ![h] = IF readers THEN "found" ELSE "missing"]
    /\ Go(h, "idle")
    /\ UNCHANGED <<closeState, engineState, memState, requests>>

PutCall(h) ==
    /\ Request(h)
    /\ Go(h, IF closed THEN "idle" ELSE "put")
    /\ UNCHANGED <<closeState, engineState, memState, answer>>

\* Mutant of PutWrite: the stall loop does not look at e.closed.
PutWriteStalls(h) ==
    /\ pc[h] = "put"
    /\ ~stalled
    /\ IF closed THEN UNCHANGED memState
       ELSE /\ unsynced' = TRUE /\ unflushed' = TRUE
            /\ stalled' \in BOOLEAN /\ signal' = TRUE
            /\ UNCHANGED levelState
    /\ Go(h, "idle")
    /\ UNCHANGED <<closeState, engineState, answer, requests>>

\* The stall loop, then the write.  It may fill the memtable behind another one.
PutWrite(h) ==
    /\ pc[h] = "put"
    /\ closed \/ ~stalled
    /\ IF closed THEN UNCHANGED memState
       ELSE /\ unsynced' = TRUE /\ unflushed' = TRUE
            /\ \/ stalled' \in BOOLEAN /\ signal' = TRUE
               \/ UNCHANGED <<stalled, signal>>
            /\ UNCHANGED levelState
    /\ Go(h, "idle")
    /\ UNCHANGED <<closeState, engineState, answer, requests>>

FlushCall(h) ==
    /\ Request(h)
    /\ Go(h, IF closed THEN "idle" ELSE "flush")
    /\ UNCHANGED <<closeState, engineState, memState, answer>>

CompactCall(h) ==
    /\ Request(h)
    /\ Go(h, "compact")
    /\ UNCHANGED <<closeState, engineState, memState, answer>>
-----------------------------------------------------------------------------
\* Flushes and compactions, of handlers and of the workers.

FlushSignal(w) ==
    /\ w = FlushWorker /\ signal
    /\ signal' = FALSE /\ Go(w, "flush") /\ UNCHANGED <<compact, looping>>

CompactSignal(w) ==
    /\ w = CompactionWorker /\ compact
    /\ compact' = FALSE /\ looping' = TRUE /\ Go(w, "compact") /\ UNCHANGED signal

Tick(w) ==
    /\ w = CompactionWorker
    /\ Go(w, "compact") /\ UNCHANGED <<signal, compact, looping>>

\* Mutant of WorkerWake: the compaction worker does not listen to closeChan.
WorkerWakeDeaf(w) ==
    /\ pc[w] = "idle"
    /\ \/ FlushSignal(w)
       \/ CompactSignal(w) \/ Tick(w)
       \/ w = FlushWorker /\ closed /\ Go(w, "stopped") /\ UNCHANGED <<signal, compact, looping>>
    /\ UNCHANGED <<closeState, engineState, stalled, unsynced, unflushed, tables, answer, requests>>

\* The workers' select: whichever of a signal, a tick and closeChan is ready.
WorkerWake(w) ==
    /\ pc[w] = "idle"
    /\ \/ FlushSignal(w)
       \/ CompactSignal(w) \/ Tick(w)
       \/ closed /\ Go(w, "stopped") /\ UNCHANGED <<signal, compact, looping>>
    /\ UNCHANGED <<closeState, engineState, stalled, unsynced, unflushed, tables, answer, requests>>

\* Flush or Compact returns.  The compaction worker, in its loop, looks at level 0 then,
\* unless there was an error.
Return(t, error) ==
    /\ looping' = IF t = CompactionWorker THEN looping /\ ~error ELSE looping
    /\ Go(t, IF t = CompactionWorker /\ looping' THEN "count" ELSE "idle")

\* Mutant of CountLevel0: one table more is let be.
CountLevel0Less(w) ==
    /\ pc[w] = "count"
    /\ looping' = (tables >= L0CompactionTrigger - 1)
    /\ Go(w, IF looping' THEN "compact" ELSE "idle")
    /\ UNCHANGED <<closeState, engineState, stalled, signal, unsynced, unflushed, tables, compact,
                   answer, requests>>

\* ... It does not look at closeChan here: a flush may have come in between.
CountLevel0(w) ==
    /\ pc[w] = "count"
    /\ looping' = (tables >= L0CompactionTrigger)
    /\ Go(w, IF looping' THEN "compact" ELSE "idle")
    /\ UNCHANGED <<closeState, engineState, stalled, signal, unsynced, unflushed, tables, compact,
                   answer, requests>>

\* Compact fails, for want of a reader or at a file, or there is nothing to do.
CompactsNothing(t) ==
    /\ pc[t] = "compact"
    /\ \/ Return(t, TRUE)
       \/ tables < L0CompactionTrigger /\ Return(t, FALSE)

\* The tables of level 0 when t commits: a compaction takes all of them, once they are
\* enough, or else works on a higher level.
TablesAfter(t) ==
    IF pc[t] = "build" THEN tables + 1
    ELSE IF tables < L0CompactionTrigger THEN tables ELSE 0

\* flushLock.  A flush may find no immutable memtable.
TakeLock(t) ==
    /\ pc[t] \in {"flush", "compact"}
    /\ lock = NoThread
    /\ \/ /\ \/ pc[t] = "flush" /\ unflushed /\ Go(t, "build")
             \/ pc[t] = "compact" /\ readers /\ Go(t, "merge")
          /\ lock' = t /\ UNCHANGED looping
       \/ /\ \/ pc[t] = "flush" /\ ~stalled /\ Return(t, FALSE)
             \/ CompactsNothing(t)
          /\ UNCHANGED lock
    /\ UNCHANGED <<closeState, readers, manifest, panics, stalled, signal, unsynced, unflushed,
                   tables, compact, answer, requests>>

\* Mutant of Commit: flushLock stays locked when it fails.
CommitKeepsLock(t) ==
    /\ pc[t] \in {"build", "merge"}
    /\ IF manifest
       THEN /\ Go(t, IF pc[t] = "build" THEN "installFlush" ELSE "install")
            /\ tables' = TablesAfter(t) /\ UNCHANGED looping
       ELSE Return(t, TRUE) /\ UNCHANGED tables
    /\ UNCHANGED <<closeState, engineState, stalled, signal, unsynced, unflushed, compact,
                   answer, requests>>

\* LogAndApply, which needs an open manifest.
Commit(t) ==
    /\ pc[t] \in {"build", "merge"}
    /\ IF manifest
       THEN /\ Go(t, IF pc[t] = "build" THEN "installFlush" ELSE "install")
            /\ tables' = TablesAfter(t) /\ UNCHANGED <<lock, looping>>
       ELSE Return(t, TRUE) /\ lock' = NoThread /\ UNCHANGED tables
    /\ UNCHANGED <<closeState, readers, manifest, panics, stalled, signal, unsynced, unflushed,
                   compact, answer, requests>>

\* What flushImmutable does with the memtables: an active one that is full becomes
\* immutable, with a signal for the worker; else the entries left, if any, are its own.
MemFlushed ==
    /\ stalled' = FALSE
    /\ IF stalled THEN signal' = TRUE /\ UNCHANGED unflushed
       ELSE unflushed' \in {unflushed, FALSE} /\ UNCHANGED signal

\* The new readers go into the map e.readers: the thread panics if it is nil.
Install(t) ==
    /\ pc[t] \in {"install", "installFlush"}
    /\ panics' = IF readers THEN panics ELSE panics \cup {t}
    /\ IF pc[t] = "installFlush" /\ readers
       THEN MemFlushed /\ compact' = TRUE
       ELSE UNCHANGED <<stalled, unflushed, signal, compact>>
    /\ lock' = NoThread
    /\ Return(t, FALSE)
    /\ UNCHANGED <<closeState, readers, manifest, unsynced, tables, answer, requests>>
-----------------------------------------------------------------------------
\* main after a signal, or after the server's listener has failed: the server takes
\* no more requests, ...
ShutdownServer ==
    /\ server = "serving"
    /\ server' = "draining"
    /\ UNCHANGED <<closing, closed, engineState, pc, memState, answer, requests>>

\* ... waits for those it has, or for its timeout, ...
Drained ==
    /\ server = "draining"
    /\ \/ server' = "drained" /\ \A h \in Handlers : pc[h] = "idle"
       \/ server' = "abandoned" /\ \E h \in Handlers : pc[h] # "idle"
    /\ UNCHANGED <<closing, closed, engineState, pc, memState, answer, requests>>

\* Mutant of CloseCall: the engine is closed while the server is still draining.
CloseCallEarly ==
    /\ server # "serving" /\ closing = "none"
    /\ closed' = TRUE
    /\ closing' = "wait"
    /\ UNCHANGED <<server, engineState, pc, memState, answer, requests>>

\* ... and closes the engine.
CloseCall ==
    /\ server \in {"drained", "abandoned"} /\ closing = "none"
    /\ closed' = TRUE
    /\ closing' = "wait"
    /\ UNCHANGED <<server, engineState, pc, memState, answer, requests>>

\* Mutant of CloseWait: the compaction worker is not in the wait group.
CloseWaitForFlush ==
    /\ closing = "wait"
    /\ pc[FlushWorker] = "stopped"
    /\ closing' = "wal"
    /\ UNCHANGED <<server, closed, engineState, pc, memState, answer, requests>>

CloseWait ==
    /\ closing = "wait"
    /\ \A w \in Workers : pc[w] = "stopped"
    /\ closing' = "wal"
    /\ UNCHANGED <<server, closed, engineState, pc, memState, answer, requests>>

\* Mutant of CloseWAL: it is closed without being flushed and synced.
CloseWALUnsynced ==
    /\ closing = "wal"
    /\ closing' = "readers"
    /\ UNCHANGED <<server, closed, engineState, pc, memState, answer, requests>>

CloseWAL ==
    /\ closing = "wal"
    /\ unsynced' = FALSE
    /\ closing' = "readers"
    /\ UNCHANGED <<server, closed, engineState, pc, stalled, signal, unflushed, levelState,
                   answer, requests>>

CloseReaders ==
    /\ closing = "readers"
    /\ readers' = FALSE
    /\ closing' = "manifest"
    /\ UNCHANGED <<server, closed, manifest, lock, panics, pc, memState, answer, requests>>

CloseManifest ==
    /\ closing = "manifest"
    /\ manifest' = FALSE
    /\ closing' = "done"
    /\ UNCHANGED <<server, closed, readers, lock, panics, pc, memState, answer, requests>>

Stopping == Drained \/ CloseCall \/ CloseWait \/ CloseWAL \/ CloseReaders \/ CloseManifest

Flushing(t) == TakeLock(t) \/ Commit(t) \/ Install(t)

Next ==
    \/ \E h \in Handlers :
         GetCall(h) \/ GetDisk(h) \/ PutCall(h) \/ PutWrite(h) \/ FlushCall(h) \/ CompactCall(h)
    \/ \E w \in Workers : WorkerWake(w) \/ CountLevel0(w)
    \/ \E t \in Handlers \cup Workers : Flushing(t)
    \/ ShutdownServer \/ Stopping

Spec == Init /\ [][Next]_shutVars

\* What Close and a stalled writer need of the scheduler, no more: a goroutine that can
\* go on does, a mutex is handed to a worker in the end, and a select whose closeChan
\* stays ready does not take its other cases for ever.  Handlers need not end.
FairSpec ==
    /\ Spec
    /\ \A h \in Handlers : WF_shutVars(PutWrite(h))
    /\ \A w \in Workers : SF_shutVars(WorkerWake(w) /\ pc'[w] = "stopped") /\ SF_shutVars(TakeLock(w))
    /\ \A t \in Handlers \cup Workers : WF_shutVars(Commit(t) \/ Install(t))
    /\ WF_shutVars(CountLevel0(CompactionWorker))
    /\ WF_shutVars(Stopping)
-----------------------------------------------------------------------------
Critical == {"build", "merge", "install", "installFlush"}

TypeOK ==
    /\ server \in {"serving", "draining", "drained", "abandoned"}
    /\ panics \subseteq Handlers \cup Workers
    /\ pc \in [Handlers \cup Workers ->
                 {"idle", "disk", "put", "flush", "compact", "count", "stopped"} \cup Critical]
    /\ tables \in Nat
    /\ \A t \in Handlers \cup Workers : pc[t] \in Critical <=> lock = t

\* A worker is never at work on an engine whose files are closed.
WorkersOutlived == ~readers \/ ~manifest => \A w \in Workers : pc[w] = "stopped"

\* Once the server has waited for its requests, none of them meets an engine that
\* Close is taking apart: nobody registers a table's reader in the map that Close has
\* set to nil, which would end the process, and no Get reports a key that is in a
\* table on disk as missing, it finds it or says that the database is closed.
\* (A request that the server has abandoned can do both, although server.go:96 calls
\* its Shutdown graceful.)
DrainedMeansDone ==
    server # "abandoned" => /\ panics = {}
                            /\ \A h \in Handlers : answer[h] # "missing"

\* Every write that was acknowledged is synced when Close has closed the log,
\* whatever the sync policy: no writer that Close let pass writes after that.
AckedIsSynced == closing \in {"readers", "manifest", "done"} => ~unsynced

\* Close comes to an end, however many requests are in the engine, and although the
\* compaction worker may begin to compact after it and goes on as long as flushes fill
\* level 0, without looking at closeChan.
CloseEnds == closed ~> closing = "done"

\* A writer that waits for a flush gets through, or is told that the database is
\* closed, also when the worker stopped before it flushed.
StalledPutReturns == \A h \in Handlers : pc[h] = "put" /\ server # "serving" ~> pc[h] = "idle"
=============================================================================
