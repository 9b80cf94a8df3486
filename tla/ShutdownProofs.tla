--------------------------- MODULE ShutdownProofs ---------------------------
(***************************************************************************)
(* The safety properties of module Shutdown, for any handlers, any number  *)
(* of requests, and a signal at any moment: Close outlives the workers,    *)
(* syncs what was acknowledged, and after a drained server nobody meets    *)
(* what it takes apart.                                                    *)
(***************************************************************************)
EXTENDS Shutdown, TLAPS

Thread == Handlers \cup Workers

\* What the actions say of the variables that TypeOK leaves out.
Flags ==
    /\ closing \in {"none", "wait", "wal", "readers", "manifest", "done"}
    /\ closed \in BOOLEAN /\ readers \in BOOLEAN /\ manifest \in BOOLEAN
    /\ unsynced \in BOOLEAN
    /\ lock \in Thread \cup {NoThread}
    /\ DOMAIN answer = Handlers

\* Close comes after the server, and takes things away in its order: the workers are
\* gone before the first of them.
CloseInOrder ==
    /\ closed <=> closing # "none"
    /\ closed => server \in {"drained", "abandoned"}
    /\ closing \in {"wal", "readers", "manifest", "done"} => \A w \in Workers : pc[w] = "stopped"
    /\ ~readers => closing \in {"manifest", "done"}
    /\ ~manifest => closing = "done"

\* A server that has drained its requests has none, and gets no more.
DrainedIsIdle == server = "drained" => \A h \in Handlers : pc[h] = "idle"

\* The inductive invariant: neither AckedIsSynced nor DrainedMeansDone is inductive
\* without the order of Close and the quiet of a drained server.
ShutInv == TypeOK /\ Flags /\ CloseInOrder /\ DrainedIsIdle /\ AckedIsSynced /\ DrainedMeansDone
-----------------------------------------------------------------------------
LEMMA InitShutInv == Init => ShutInv
<1> SUFFICES ASSUME Init PROVE ShutInv
  OBVIOUS
<1>1. /\ pc \in [Thread -> {"idle", "stopped"}] /\ \A h \in Handlers : pc[h] = "idle"
      /\ tables \in Nat
  BY ThreadAssumption DEF Init, Thread, Workers
<1>2. /\ server = "serving" /\ closing = "none" /\ closed = FALSE /\ readers = TRUE /\ manifest = TRUE
      /\ lock = NoThread /\ unsynced = FALSE /\ panics = {} /\ answer = [h \in Handlers |-> "none"]
  BY DEF Init
<1> QED BY <1>1, <1>2, ThreadAssumption
           DEF ShutInv, TypeOK, Critical, Flags, Thread, CloseInOrder, DrainedIsIdle,
               AckedIsSynced, DrainedMeansDone

\* A handler that begins a request does so at a server that takes it, or has given
\* up waiting: it disturbs neither a drained server nor the holder of flushLock.
LEMMA RequestStep ==
    ASSUME ShutInv, NEW h \in Handlers,
           GetCall(h) \/ PutCall(h) \/ FlushCall(h) \/ CompactCall(h)
    PROVE  ShutInv'
<1>1. /\ server \in {"serving", "abandoned"} /\ pc[h] = "idle"
      /\ \E p \in {"idle", "disk", "put", "flush", "compact"} : pc' = [pc EXCEPT ![h] = p]
      /\ \E a \in {"closed", "none"} : answer' \in {answer, [answer EXCEPT ![h] = a]}
      /\ UNCHANGED <<closeState, engineState, memState>>
  BY DEF GetCall, PutCall, FlushCall, CompactCall, Request, Go
<1>2. UNCHANGED <<server, closing, closed, readers, manifest, lock, panics, unsynced, tables>>
  BY <1>1 DEF closeState, engineState, memState, levelState
<1> QED
  BY <1>1, <1>2, ThreadAssumption
     DEF ShutInv, TypeOK, Critical, Flags, Thread, Workers, CloseInOrder, DrainedIsIdle,
         AckedIsSynced, DrainedMeansDone

\* A Get past the memtables misses its table only when the readers are gone, and then
\* this handler is one that the server has abandoned.
LEMMA GetDiskStep == ASSUME ShutInv, NEW h \in Handlers, GetDisk(h) PROVE ShutInv'
<1>1. /\ pc[h] = "disk" /\ pc' = [pc EXCEPT ![h] = "idle"]
      /\ answer' = [answer EXCEPT ![h] = IF readers THEN "found" ELSE "missing"]
      /\ UNCHANGED <<server, closing, closed, readers, manifest, lock, panics, unsynced, tables>>
  BY DEF GetDisk, Go, closeState, engineState, memState, levelState
<1>2. readers \/ server = "abandoned"
  BY <1>1 DEF ShutInv, Flags, CloseInOrder, DrainedIsIdle
<1>3. DrainedMeansDone'
  BY <1>1, <1>2 DEF ShutInv, Flags, DrainedMeansDone
<1> QED
  BY <1>1, <1>3, ThreadAssumption
     DEF ShutInv, TypeOK, Critical, Flags, Thread, Workers, CloseInOrder, DrainedIsIdle,
         AckedIsSynced

\* A write is acknowledged only while the engine is not closed, and then the WAL is
\* still open.
LEMMA PutWriteStep == ASSUME ShutInv, NEW h \in Handlers, PutWrite(h) PROVE ShutInv'
<1>1. /\ pc[h] = "put" /\ pc' = [pc EXCEPT ![h] = "idle"]
      /\ IF closed THEN unsynced' = unsynced ELSE unsynced' = TRUE
      /\ UNCHANGED <<server, closing, closed, readers, manifest, lock, panics, tables, answer>>
  BY DEF PutWrite, Go, closeState, engineState, memState, levelState
<1>2. AckedIsSynced' /\ unsynced' \in BOOLEAN
  <2>1. CASE closed
    BY <2>1, <1>1 DEF ShutInv, Flags, AckedIsSynced
  <2>2. CASE ~closed
    BY <2>2, <1>1 DEF ShutInv, CloseInOrder, AckedIsSynced
  <2> QED BY <2>1, <2>2
<1> QED
  BY <1>1, <1>2, ThreadAssumption
     DEF ShutInv, TypeOK, Critical, Flags, Thread, Workers, CloseInOrder, DrainedIsIdle,
         DrainedMeansDone
-----------------------------------------------------------------------------
\* The compaction worker moves between its places without the lock.
LEMMA WorkerWakeStep ==
    ASSUME ShutInv, NEW w \in Workers, WorkerWake(w) \/ CountLevel0(w)
    PROVE  ShutInv'
<1>1. /\ pc[w] \in {"idle", "count"}
      /\ \E p \in {"flush", "compact", "stopped", "idle"} : pc' = [pc EXCEPT ![w] = p]
      /\ UNCHANGED <<server, closing, closed, readers, manifest, lock, panics, unsynced, tables, answer>>
  BY DEF WorkerWake, FlushSignal, CompactSignal, Tick, CountLevel0, Go, closeState, engineState
<1> QED
  BY <1>1, ThreadAssumption
     DEF ShutInv, TypeOK, Critical, Flags, Thread, Workers, CloseInOrder, DrainedIsIdle,
         AckedIsSynced, DrainedMeansDone

\* flushLock: the place of a thread and the holder of the lock change together.
LEMMA LockStep ==
    ASSUME ShutInv, NEW t \in Handlers \cup Workers, TakeLock(t) \/ Commit(t)
    PROVE  ShutInv'
<1>1. /\ pc[t] \in {"flush", "compact", "build", "merge"}
      /\ UNCHANGED <<server, closing, closed, readers, manifest, panics, unsynced, answer>>
  BY DEF TakeLock, Commit, closeState
<1>0. tables' \in Nat
  <2>1. tables \in Nat
    BY DEF ShutInv, TypeOK
  <2>2. TablesAfter(t) \in Nat
    BY <2>1 DEF TablesAfter
  <2>3. tables' = tables \/ tables' = TablesAfter(t)
    BY DEF TakeLock, Commit
  <2> QED BY <2>1, <2>2, <2>3
<1>2. \E p \in {"build", "merge", "install", "installFlush", "count", "idle"} :
         /\ pc' = [pc EXCEPT ![t] = p]
         /\ lock \in {t, NoThread}
         /\ lock' = IF p \in {"count", "idle"} THEN NoThread ELSE t
  <2>1. CASE TakeLock(t)
    BY <2>1 DEF TakeLock, CompactsNothing, Return, Go
  <2>2. CASE Commit(t)
    <3>1. lock = t
      BY <2>2 DEF Commit, ShutInv, TypeOK, Critical
    <3> QED BY <2>2, <3>1 DEF Commit, Return, Go
  <2> QED BY <2>1, <2>2
<1>3. TypeOK'
  BY <1>0, <1>1, <1>2, ThreadAssumption DEF ShutInv, TypeOK, Critical
<1>4. Flags'
  BY <1>1, <1>2 DEF ShutInv, Flags, Thread
<1>5. CloseInOrder' /\ DrainedIsIdle'
  BY <1>1, <1>2, ThreadAssumption DEF ShutInv, TypeOK, CloseInOrder, DrainedIsIdle, Workers
<1>6. AckedIsSynced' /\ DrainedMeansDone'
  BY <1>1 DEF ShutInv, AckedIsSynced, DrainedMeansDone
<1> QED BY <1>3, <1>4, <1>5, <1>6 DEF ShutInv

\* A thread that installs its tables panics only when the readers are gone: it is no
\* worker then, and no handler of a server that has drained.
LEMMA InstallStep ==
    ASSUME ShutInv, NEW t \in Handlers \cup Workers, Install(t)
    PROVE  ShutInv'
<1>1. /\ pc[t] \in {"install", "installFlush"}
      /\ \E p \in {"count", "idle"} : pc' = [pc EXCEPT ![t] = p]
      /\ lock' = NoThread /\ lock = t
      /\ panics' = IF readers THEN panics ELSE panics \cup {t}
      /\ UNCHANGED <<server, closing, closed, readers, manifest, unsynced, tables, answer>>
  BY DEF Install, Return, Go, closeState, ShutInv, TypeOK, Critical
<1>2. readers \/ server = "abandoned"
  BY <1>1 DEF ShutInv, Flags, CloseInOrder, DrainedIsIdle
<1>3. DrainedMeansDone'
  BY <1>1, <1>2 DEF ShutInv, DrainedMeansDone
<1>4. TypeOK'
  BY <1>1, ThreadAssumption DEF ShutInv, TypeOK, Critical
<1>5. Flags' /\ AckedIsSynced'
  BY <1>1 DEF ShutInv, Flags, Thread, AckedIsSynced
<1>6. CloseInOrder' /\ DrainedIsIdle'
  BY <1>1, ThreadAssumption DEF ShutInv, TypeOK, CloseInOrder, DrainedIsIdle, Workers
<1> QED BY <1>3, <1>4, <1>5, <1>6 DEF ShutInv
-----------------------------------------------------------------------------
\* The server stops taking requests, and drains those it has or abandons them.
LEMMA ServerStep == ASSUME ShutInv, ShutdownServer \/ Drained PROVE ShutInv'
<1>1. /\ server \in {"serving", "draining"}
      /\ server' \in {"draining", "drained", "abandoned"}
      /\ server' = "drained" => \A h \in Handlers : pc[h] = "idle"
      /\ UNCHANGED <<closing, closed, readers, manifest, lock, panics, unsynced, tables, answer, pc>>
  BY DEF ShutdownServer, Drained, engineState, memState, levelState
<1>2. ~closed
  BY <1>1 DEF ShutInv, CloseInOrder
<1> QED
  BY <1>1, <1>2
     DEF ShutInv, TypeOK, Critical, Flags, CloseInOrder, DrainedIsIdle, AckedIsSynced,
         DrainedMeansDone

\* Close, in its order.
LEMMA CloseStep ==
    ASSUME ShutInv, CloseCall \/ CloseWait \/ CloseWAL \/ CloseReaders \/ CloseManifest
    PROVE  ShutInv'
<1>1. UNCHANGED <<server, lock, panics, pc, tables, answer>>
  BY DEF CloseCall, CloseWait, CloseWAL, CloseReaders, CloseManifest, engineState, memState, levelState
<1>2. /\ unsynced' \in {unsynced, FALSE}
      /\ closing = "wal" => ~unsynced'
  BY DEF CloseCall, CloseWait, CloseWAL, CloseReaders, CloseManifest, memState
<1>3. Flags'
  BY <1>1, <1>2 DEF CloseCall, CloseWait, CloseWAL, CloseReaders, CloseManifest, engineState,
                    ShutInv, Flags
<1>4. CloseInOrder'
  BY <1>1 DEF CloseCall, CloseWait, CloseWAL, CloseReaders, CloseManifest, engineState,
              ShutInv, Flags, CloseInOrder
<1>5. AckedIsSynced'
  BY <1>2 DEF CloseCall, CloseWait, CloseWAL, CloseReaders, CloseManifest, ShutInv, AckedIsSynced
<1>6. TypeOK' /\ DrainedIsIdle' /\ DrainedMeansDone'
  BY <1>1 DEF ShutInv, TypeOK, DrainedIsIdle, DrainedMeansDone
<1> QED BY <1>3, <1>4, <1>5, <1>6 DEF ShutInv
-----------------------------------------------------------------------------
LEMMA NextKeepsShutInv == ShutInv /\ [Next]_shutVars => ShutInv'
<1> SUFFICES ASSUME ShutInv, [Next]_shutVars PROVE ShutInv'
  OBVIOUS
<1>1. ASSUME NEW h \in Handlers,
             GetCall(h) \/ GetDisk(h) \/ PutCall(h) \/ PutWrite(h) \/ FlushCall(h) \/ CompactCall(h)
      PROVE  ShutInv'
  BY <1>1, RequestStep, GetDiskStep, PutWriteStep
<1>2. ASSUME NEW t \in Handlers \cup Workers, Flushing(t) PROVE ShutInv'
  BY <1>2, LockStep, InstallStep DEF Flushing
<1>3. CASE ShutdownServer \/ Stopping
  BY <1>3, ServerStep, CloseStep DEF Stopping
<1>4. CASE UNCHANGED shutVars
  BY <1>4 DEF shutVars, ShutInv, TypeOK, Critical, Flags, CloseInOrder, DrainedIsIdle,
              AckedIsSynced, DrainedMeansDone
<1> QED BY <1>1, <1>2, <1>3, <1>4, WorkerWakeStep DEF Next

\* The strengthened invariant is inductive.
THEOREM ShutInvariance == Spec => []ShutInv
BY InitShutInv, NextKeepsShutInv, PTL DEF Spec

\* flushLock is held by exactly the thread that is between its steps (flushLock.Lock
\* and its deferred Unlock, on every path of Flush and Compact).
THEOREM LockIsExclusive == Spec => []TypeOK
<1>1. ShutInv => TypeOK
  BY DEF ShutInv
<1> QED BY <1>1, ShutInvariance, PTL

\* No background worker is at work on an engine whose files Close has taken away
\* (e.wg.Wait in Engine.Close).
THEOREM WorkersAreOutlived == Spec => []WorkersOutlived
<1>1. ShutInv => WorkersOutlived
  BY DEF ShutInv, CloseInOrder, WorkersOutlived
<1> QED BY <1>1, ShutInvariance, PTL

\* After a drained server no thread writes to the nil map and no Get misses a key that
\* is in a table.
THEOREM DrainedServerIsDone == Spec => []DrainedMeansDone
<1>1. ShutInv => DrainedMeansDone
  BY DEF ShutInv
<1> QED BY <1>1, ShutInvariance, PTL

\* What was acknowledged is synced when Close has closed the log, also by writers that
\* the server has abandoned.
THEOREM AcknowledgedIsSynced == Spec => []AckedIsSynced
<1>1. ShutInv => AckedIsSynced
  BY DEF ShutInv
<1> QED BY <1>1, ShutInvariance, PTL
=============================================================================
