------------------------------- MODULE Engine -------------------------------
(***************************************************************************)
(* The storage engine of pkg/lsm: clients that Put, Delete and Get, the    *)
(* background flush worker, callers of Flush, and Open's recovery of the   *)
(* write-ahead logs after a crash.  Level 0 only: compaction is a module   *)
(* of its own.                                                             *)
(*                                                                         *)
(* A WAL file is the set of its records; the numbers of the records give   *)
(* their order.  WAL file w belongs to the memtable with id w.             *)
(*                                                                         *)
(* e.mu is held from one action to another only by a writer that is about  *)
(* to rotate, so it is free when no client is at "rotate".  e.flushLock is *)
(* held by `flusher'.                                                      *)
(***************************************************************************)
EXTENDS Entries, FiniteSets, Sequences

CONSTANTS
    Clients,        \* goroutines that call Put, Delete and Get
    Flushers,       \* goroutines that call Flush
    Worker,         \* the goroutine flushWorker
    Opener,         \* the goroutine that runs Open
    NoThread,
    MemTableSize,   \* distinct keys that fill a memtable
    SyncAlways,     \* TRUE: the WAL is fsynced by every write
    FaultKinds,     \* what may fail: "build" an SSTable, "open" a WAL, "remove" one
    MaxWrites, MaxFlushes, MaxCrashes, MaxFaults   \* bounds

Threads == Clients \cup Flushers \cup {Worker, Opener}

ASSUME KeysAssumption == IsFiniteSet(Keys)
ASSUME ThreadsAssumption ==
    /\ Clients \cap Flushers = {}
    /\ Worker \notin Clients \cup Flushers
    /\ Opener \notin Clients \cup Flushers \cup {Worker}
    /\ NoThread \notin Threads
ASSUME SizeAssumption == MemTableSize \in Nat \ {0}
ASSUME PolicyAssumption == SyncAlways \in BOOLEAN
ASSUME BoundsAssumption ==
    /\ MaxWrites \in Nat /\ MaxFlushes \in Nat
    /\ MaxCrashes \in Nat /\ MaxFaults \in Nat

VARIABLES
    \* on disk
    walFiles,    \* WAL id -> its records
    sst,         \* SSTable id -> its contents
    l0,          \* the manifest's level 0, oldest table first
    nextID,      \* the manifest's id counter
    \* in memory
    mode,        \* "down", "opening" (in Open) or "open"
    replayed,    \* id of the last WAL that recoverWAL has dealt with
    activeMem, immMem,
    walOpen,     \* FALSE when e.activeWAL is a closed WAL
    levelTables, \* the level 0 that readers search
    flushChan,   \* a signal is waiting in the channel
    flusher,     \* the thread in flushImmutable or flushMemTableDirect
    stage,       \* where it is
    job,         \* the memtable it flushes
    sstID,       \* the table it writes
    more,        \* hasMoreToFlush
    pc,          \* where every thread is
    get,         \* client -> its Get in progress
    \* history
    hist,        \* the writes that no crash has cut off
    writes,      \* number of the last write
    durable,     \* writes up to this one are known to be on disk
    flushes, crashes, faults

disk    == <<walFiles, sst, l0, nextID>>
tables  == <<sst, l0, levelTables>>
mems    == <<activeMem, immMem, walOpen>>
flush   == <<flusher, stage, job, sstID, more>>
history == <<hist, writes, durable>>
bounds  == <<flushes, crashes, faults>>
vars    == <<disk, mode, replayed, mems, levelTables, flushChan, flush, pc, get,
             history, bounds>>
-----------------------------------------------------------------------------
Mem(id, data) == [id |-> id, data |-> data]
NoMem         == Mem(0, EmptyData)

Count(mem)       == Cardinality({k \in Keys : mem.data[k] # NoEntry})
ShouldFlush(mem) == Count(mem) >= MemTableSize

\* The write stall of Put and Delete.
Stalled == ShouldFlush(activeMem) /\ immMem # NoMem

MuFree == \A c \in Clients : pc[c] # "rotate"

\* What a reader that searches the tables ts newest first finds for key k.
FindInL0(ts, k) ==
    LET Hits == {i \in 1..Len(ts) : sst[ts[i]][k] # NoEntry}
    IN  IF Hits = {} THEN NoEntry
        ELSE sst[ts[CHOOSE i \in Hits : \A j \in Hits : j <= i]][k]

FindInMem(k) ==
    IF activeMem.data[k] # NoEntry THEN activeMem.data[k] ELSE immMem.data[k]

Fault(kind) ==
    /\ kind \in FaultKinds
    /\ faults < MaxFaults
    /\ faults' = faults + 1

NoGet == [floor |-> 0, got |-> NoEntry]

Init ==
    /\ walFiles = [w \in {} |-> {}]
    /\ sst = [t \in {} |-> EmptyData]
    /\ l0 = <<>>
    /\ nextID = 1
    /\ mode = "down"
    /\ replayed = 0
    /\ activeMem = NoMem /\ immMem = NoMem /\ walOpen = FALSE
    /\ levelTables = <<>>
    /\ flushChan = FALSE
    /\ flusher = NoThread /\ stage = "none" /\ job = NoMem /\ sstID = 0 /\ more = FALSE
    /\ pc = [t \in Threads |-> "idle"]
    /\ get = [c \in Clients |-> NoGet]
    /\ hist = {} /\ writes = 0 /\ durable = 0
    /\ flushes = 0 /\ crashes = 0 /\ faults = 0
-----------------------------------------------------------------------------
\* Writers

\* Mutants of RotateMemTable: the old WAL is closed without an fsync ...
RotateWithoutSync ==
    /\ immMem' = activeMem
    /\ activeMem' = Mem(nextID, EmptyData)
    /\ walOpen' = TRUE
    /\ walFiles' = [w \in DOMAIN walFiles \cup {nextID} |->
                      IF w = nextID THEN {} ELSE walFiles[w]]
    /\ nextID' = nextID + 1
    /\ UNCHANGED <<durable, faults>>

\* ... or the active memtable's WAL stays open when the new one cannot be opened.
RotateKeepingWAL ==
    /\ immMem' = activeMem
    /\ durable' = writes
    /\ nextID' = nextID + 1
    /\ \/ /\ activeMem' = Mem(nextID, EmptyData)
          /\ walFiles' = [w \in DOMAIN walFiles \cup {nextID} |->
                            IF w = nextID THEN {} ELSE walFiles[w]]
          /\ UNCHANGED faults
       \/ Fault("open") /\ UNCHANGED <<activeMem, walFiles>>
    /\ walOpen' = TRUE

\* rotateMemTable, its caller in the critical section of e.mu.  The old WAL
\* is fsynced by its Close.  When the new one cannot be opened, the memtable
\* is active and immutable at once and its WAL is closed.
RotateMemTable ==
    /\ immMem' = activeMem
    /\ durable' = writes
    /\ nextID' = nextID + 1
    /\ \/ /\ activeMem' = Mem(nextID, EmptyData)
          /\ walOpen' = TRUE
          /\ walFiles' = [w \in DOMAIN walFiles \cup {nextID} |->
                            IF w = nextID THEN {} ELSE walFiles[w]]
          /\ UNCHANGED faults
       \/ /\ Fault("open")
          /\ walOpen' = FALSE
          /\ UNCHANGED <<activeMem, walFiles>>

\* Put and Delete up to the capacity check: the record goes to the WAL and to
\* the active memtable in one critical section, after the stall.  (With a
\* closed WAL they fail and change nothing.)
Write(c, k, op) ==
    LET e == [key |-> k, seq |-> writes + 1, op |-> op]
    IN  /\ mode = "open"
        /\ pc[c] = "idle"
        /\ MuFree
        /\ ~Stalled
        /\ walOpen
        /\ writes < MaxWrites
        /\ walFiles' = [walFiles EXCEPT ![activeMem.id] = @ \cup {e}]
        /\ activeMem' = [activeMem EXCEPT !.data[k] = e]
        /\ hist' = hist \cup {e}
        /\ writes' = writes + 1
        /\ durable' = IF SyncAlways THEN writes + 1 ELSE durable
        /\ pc' = [pc EXCEPT ![c] = IF ~ShouldFlush(activeMem') THEN "idle"
                                   ELSE IF immMem = NoMem THEN "rotate"
                                   ELSE "trigger"]
        /\ UNCHANGED <<tables, nextID, mode, replayed, immMem, walOpen, flushChan,
                       flush, get, bounds>>

Put(c, k)    == Write(c, k, OpPut)
Delete(c, k) == Write(c, k, OpDelete)

\* The writer that filled the memtable rotates it, still holding e.mu.
Rotate(c) ==
    /\ pc[c] = "rotate"
    /\ RotateMemTable
    /\ pc' = [pc EXCEPT ![c] = "trigger"]
    /\ UNCHANGED <<tables, mode, replayed, flushChan, flush, get, hist, writes,
                   flushes, crashes>>

\* Mutant of TriggerFlush: the channel has no buffer, so that a signal is lost
\* when the worker does not wait for it.
TriggerFlushUnbuffered(c) ==
    /\ pc[c] = "trigger"
    /\ flushChan' = (flushChan \/ pc[Worker] = "idle")
    /\ pc' = [pc EXCEPT ![c] = "idle"]
    /\ UNCHANGED <<disk, mode, replayed, mems, levelTables, flush, get, history, bounds>>

\* ... and signals the flush worker once e.mu is released.
TriggerFlush(c) ==
    /\ pc[c] = "trigger"
    /\ flushChan' = TRUE
    /\ pc' = [pc EXCEPT ![c] = "idle"]
    /\ UNCHANGED <<disk, mode, replayed, mems, levelTables, flush, get, history, bounds>>

\* periodicSyncer, when writes do not sync themselves.
PeriodicSync ==
    /\ mode = "open"
    /\ ~SyncAlways
    /\ walOpen
    /\ durable # writes
    /\ durable' = writes
    /\ UNCHANGED <<disk, mode, replayed, mems, levelTables, flushChan, flush, pc, get,
                   hist, writes, bounds>>
-----------------------------------------------------------------------------
\* Readers

\* Get's critical section of e.mu: the two memtables.
GetFromMem(c, k) ==
    LET e == FindInMem(k)
    IN  /\ mode = "open"
        /\ pc[c] = "idle"
        /\ MuFree
        /\ get' = [get EXCEPT ![c] = [key |-> k, floor |-> Newest(hist, k).seq, got |-> e]]
        /\ pc' = [pc EXCEPT ![c] = IF e # NoEntry THEN "got" ELSE "disk"]
        /\ UNCHANGED <<disk, mode, replayed, mems, levelTables, flushChan, flush,
                       history, bounds>>

\* Get's critical section of e.readersMu: the level 0 tables, newest first.
GetFromDisk(c) ==
    /\ pc[c] = "disk"
    /\ get' = [get EXCEPT ![c].got = FindInL0(levelTables, get[c].key)]
    /\ pc' = [pc EXCEPT ![c] = "got"]
    /\ UNCHANGED <<disk, mode, replayed, mems, levelTables, flushChan, flush,
                   history, bounds>>

GetReturn(c) ==
    /\ pc[c] = "got"
    /\ get' = [get EXCEPT ![c] = NoGet]
    /\ pc' = [pc EXCEPT ![c] = "idle"]
    /\ UNCHANGED <<disk, mode, replayed, mems, levelTables, flushChan, flush,
                   history, bounds>>
-----------------------------------------------------------------------------
\* Flushing.  The worker is at "call" in flushImmutable; a caller of Flush is
\* there at "first" (an earlier immutable memtable) and at "last" (its own).

WorkerWake ==
    /\ mode = "open"
    /\ pc[Worker] = "idle"
    /\ flushChan
    /\ flushChan' = FALSE
    /\ pc' = [pc EXCEPT ![Worker] = "call"]
    /\ UNCHANGED <<disk, mode, replayed, mems, levelTables, flush, get, history, bounds>>

\* Flush, up to its first call of flushImmutable.
FlushCall(f) ==
    /\ mode = "open"
    /\ pc[f] = "idle"
    /\ MuFree
    /\ flushes < MaxFlushes
    /\ flushes' = flushes + 1
    /\ \/ /\ immMem # NoMem
          /\ pc' = [pc EXCEPT ![f] = "first"]
          /\ UNCHANGED <<activeMem, immMem, walOpen, walFiles, nextID, durable, faults>>
       \/ /\ immMem = NoMem
          /\ Count(activeMem) > 0
          /\ RotateMemTable
          /\ pc' = [pc EXCEPT ![f] = "last"]
    /\ UNCHANGED <<tables, mode, replayed, flushChan, flush, get, hist, writes, crashes>>

\* Flush rotates after the first flush without looking at immMem again.
FlushRerotate(f) ==
    /\ pc[f] = "again"
    /\ MuFree
    /\ RotateMemTable
    /\ pc' = [pc EXCEPT ![f] = "last"]
    /\ UNCHANGED <<tables, mode, replayed, flushChan, flush, get, hist, writes,
                   flushes, crashes>>

\* Where a thread is when flushImmutable has returned nil to it.
Returned(t) == IF pc[t] = "first" THEN "again" ELSE "idle"

\* flushImmutable takes flushLock and reads immMem.
FlushLock(t) ==
    /\ pc[t] \in {"call", "first", "last"}
    /\ flusher = NoThread
    /\ MuFree
    /\ IF immMem = NoMem
       THEN /\ pc' = [pc EXCEPT ![t] = Returned(t)]
            /\ UNCHANGED flush
       ELSE /\ flusher' = t
            /\ job' = immMem
            /\ stage' = IF Count(immMem) = 0 THEN "clear" ELSE "build"
            /\ UNCHANGED <<sstID, more, pc>>
    /\ UNCHANGED <<disk, mode, replayed, mems, levelTables, flushChan, get, history, bounds>>

\* flushMemTableDirect writes the table and opens a reader for it ...
FlushBuild ==
    /\ stage = "build"
    /\ nextID' = nextID + 1
    /\ sst' = [t \in DOMAIN sst \cup {nextID} |->
                 IF t = nextID THEN job.data ELSE sst[t]]
    /\ sstID' = nextID
    /\ stage' = "commit"
    /\ UNCHANGED <<walFiles, l0, mode, replayed, mems, levelTables, flushChan, flusher,
                   job, more, pc, get, history, bounds>>

\* ... commits it to the manifest ...
FlushCommit ==
    /\ stage = "commit"
    /\ l0' = Append(l0, sstID)
    /\ stage' = "install"
    /\ UNCHANGED <<walFiles, sst, nextID, mode, replayed, mems, levelTables, flushChan,
                   flusher, job, sstID, more, pc, get, history, bounds>>

\* Mutant of FlushInstall: the readers' levels are not updated.
FlushInstallForgets ==
    /\ stage = "install"
    /\ stage' = IF flusher = Opener THEN "unlink" ELSE "clear"
    /\ UNCHANGED <<disk, mode, replayed, mems, levelTables, flushChan, flusher, job, sstID,
                   more, pc, get, history, bounds>>

\* ... and shows it to the readers.
FlushInstall ==
    /\ stage = "install"
    /\ levelTables' = l0
    /\ stage' = IF flusher = Opener THEN "unlink" ELSE "clear"
    /\ UNCHANGED <<disk, mode, replayed, mems, flushChan, flusher, job, sstID, more,
                   pc, get, history, bounds>>

ReleaseFlushLock ==
    /\ flusher' = NoThread
    /\ stage' = "none"
    /\ job' = NoMem
    /\ sstID' = 0
    /\ more' = FALSE

\* Mutant of BuildFails: the WAL is removed although its memtable was not flushed.
BuildFailsUnlinks ==
    /\ stage \in {"build", "commit"}
    /\ Fault("build")
    /\ nextID' = IF stage = "build" THEN nextID + 1 ELSE nextID
    /\ walFiles' = [w \in DOMAIN walFiles \ {job.id} |-> walFiles[w]]
    /\ ReleaseFlushLock
    /\ UNCHANGED <<sst, l0, mems, flushChan, get, history, flushes, crashes>>

\* One of the steps of flushMemTableDirect fails ...
BuildFails ==
    /\ stage \in {"build", "commit"}
    /\ Fault("build")
    /\ nextID' = IF stage = "build" THEN nextID + 1 ELSE nextID
    /\ ReleaseFlushLock
    /\ UNCHANGED <<walFiles, sst, l0, mems, flushChan, get, history, flushes, crashes>>

\* ... and flushImmutable gives up: the memtable stays immutable.
FlushFail ==
    /\ flusher # Opener
    /\ BuildFails
    /\ pc' = [pc EXCEPT ![flusher] = "idle"]
    /\ UNCHANGED <<mode, replayed, levelTables>>

\* ... or, in recovery, Open gives up.
OpenFail ==
    /\ flusher = Opener
    /\ BuildFails
    /\ mode' = "down"
    /\ replayed' = 0
    /\ levelTables' = <<>>
    /\ UNCHANGED pc

\* flushImmutable drops the immutable memtable and rotates a full active one.
FlushClear ==
    /\ stage = "clear"
    /\ MuFree
    /\ stage' = "unlink"
    /\ IF ShouldFlush(activeMem)
       THEN /\ RotateMemTable
            /\ more' = TRUE
       ELSE /\ immMem' = NoMem
            /\ UNCHANGED <<activeMem, walOpen, walFiles, nextID, durable, faults, more>>
    /\ UNCHANGED <<tables, mode, replayed, flushChan, flusher, job, sstID, pc, get,
                   hist, writes, flushes, crashes>>

\* Mutant of FlushUnlink: the worker is not signalled when there is more to flush.
FlushUnlinkQuietly ==
    /\ stage = "unlink"
    /\ walFiles' = [w \in DOMAIN walFiles \ {job.id} |-> walFiles[w]]
    /\ pc' = [pc EXCEPT ![flusher] = Returned(flusher)]
    /\ replayed' = IF flusher = Opener THEN job.id ELSE replayed
    /\ ReleaseFlushLock
    /\ UNCHANGED <<tables, nextID, mode, mems, flushChan, get, history, bounds>>

\* The WAL of the flushed memtable is removed (a failure goes unnoticed), the
\* worker signalled if there is more, flushLock released.
FlushUnlink ==
    /\ stage = "unlink"
    /\ \/ /\ walFiles' = [w \in DOMAIN walFiles \ {job.id} |-> walFiles[w]]
          /\ UNCHANGED faults
       \/ /\ Fault("remove")
          /\ UNCHANGED walFiles
    /\ flushChan' = (flushChan \/ more)
    /\ pc' = [pc EXCEPT ![flusher] = Returned(flusher)]
    /\ replayed' = IF flusher = Opener THEN job.id ELSE replayed
    /\ ReleaseFlushLock
    /\ UNCHANGED <<tables, nextID, mode, mems, get, history, flushes, crashes>>
-----------------------------------------------------------------------------
\* Crash and recovery

\* The process ends.  Records that were not synced may be lost, the newest first.
Crash ==
    /\ mode # "down"
    /\ crashes < MaxCrashes
    /\ crashes' = crashes + 1
    /\ \E m \in durable..writes :
         /\ walFiles' = [w \in DOMAIN walFiles |-> {r \in walFiles[w] : r.seq <= m}]
         /\ hist' = {r \in hist : r.seq <= m}
         /\ durable' = IF SyncAlways THEN durable ELSE m
    /\ mode' = "down"
    /\ replayed' = 0
    /\ activeMem' = NoMem /\ immMem' = NoMem /\ walOpen' = FALSE
    /\ levelTables' = <<>>
    /\ flushChan' = FALSE
    /\ ReleaseFlushLock
    /\ pc' = [t \in Threads |-> "idle"]
    /\ get' = [c \in Clients |-> NoGet]
    /\ UNCHANGED <<sst, l0, nextID, writes, flushes, faults>>

\* Open loads the manifest and opens a reader for each of its tables.
OpenStart ==
    /\ mode = "down"
    /\ mode' = "opening"
    /\ levelTables' = l0
    /\ UNCHANGED <<disk, replayed, mems, flushChan, flush, pc, get, history, bounds>>

\* The WAL files that recoverWAL has still to replay, and the first of them.
Pending  == {w \in DOMAIN walFiles : w > replayed}
FirstWAL == CHOOSE w \in Pending : \A v \in Pending : w <= v

\* A WAL that is not the last is replayed and flushed, or removed if empty.
ReplayWAL ==
    /\ mode = "opening"
    /\ flusher = NoThread
    /\ \E v, w \in Pending : v # w
    /\ LET mem == Mem(FirstWAL, Replay(walFiles[FirstWAL]))
       IN  IF Count(mem) > 0
           THEN /\ flusher' = Opener
                /\ job' = mem
                /\ stage' = "build"
                /\ UNCHANGED <<walFiles, replayed, sstID, more>>
           ELSE /\ walFiles' = [w \in DOMAIN walFiles \ {mem.id} |-> walFiles[w]]
                /\ replayed' = mem.id
                /\ UNCHANGED flush
    /\ UNCHANGED <<tables, nextID, mode, mems, flushChan, pc, get, history, bounds>>

\* Mutant of KeepLastWAL: an empty log is left to OpenFresh, which is not for it.
KeepLastWALIfWritten ==
    /\ mode = "opening"
    /\ flusher = NoThread
    /\ Pending # {}
    /\ \A w \in Pending : w = FirstWAL
    /\ Count(Mem(FirstWAL, Replay(walFiles[FirstWAL]))) > 0
    /\ activeMem' = Mem(FirstWAL, Replay(walFiles[FirstWAL]))
    /\ walOpen' = TRUE
    /\ mode' = "open"
    /\ replayed' = 0
    /\ UNCHANGED <<disk, immMem, levelTables, flushChan, flush, pc, get, history, bounds>>

\* The last WAL is replayed and stays the active one.
KeepLastWAL ==
    /\ mode = "opening"
    /\ flusher = NoThread
    /\ Pending # {}
    /\ \A w \in Pending : w = FirstWAL
    /\ activeMem' = Mem(FirstWAL, Replay(walFiles[FirstWAL]))
    /\ walOpen' = TRUE
    /\ mode' = "open"
    /\ replayed' = 0
    /\ UNCHANGED <<disk, immMem, levelTables, flushChan, flush, pc, get, history, bounds>>

\* There is no WAL: Open starts an empty one.
OpenFresh ==
    /\ mode = "opening"
    /\ flusher = NoThread
    /\ Pending = {}
    /\ nextID' = nextID + 1
    /\ activeMem' = Mem(nextID, EmptyData)
    /\ walOpen' = TRUE
    /\ walFiles' = [w \in DOMAIN walFiles \cup {nextID} |->
                      IF w = nextID THEN {} ELSE walFiles[w]]
    /\ mode' = "open"
    /\ replayed' = 0
    /\ UNCHANGED <<tables, immMem, flushChan, flush, pc, get, history, bounds>>
-----------------------------------------------------------------------------
FlushStep == \/ FlushBuild \/ FlushCommit \/ FlushInstall \/ FlushClear \/ FlushUnlink
             \/ FlushFail \/ OpenFail
Recover   == OpenStart \/ ReplayWAL \/ KeepLastWAL \/ OpenFresh

Next ==
    \/ \E c \in Clients, k \in Keys : Put(c, k) \/ Delete(c, k) \/ GetFromMem(c, k)
    \/ \E c \in Clients : Rotate(c) \/ TriggerFlush(c) \/ GetFromDisk(c) \/ GetReturn(c)
    \/ PeriodicSync
    \/ WorkerWake
    \/ \E f \in Flushers : FlushCall(f) \/ FlushRerotate(f)
    \/ \E t \in Flushers \cup {Worker} : FlushLock(t)
    \/ FlushStep
    \/ Crash
    \/ Recover

Spec == Init /\ [][Next]_vars

\* A goroutine that can run does run, and so does the flush that holds
\* flushLock.  Clients need not call anything, but finish what they began.
\* A Go mutex is starvation free: a thread that waits for flushLock gets it.
Fairness ==
    /\ \A c \in Clients : WF_vars(Rotate(c) \/ TriggerFlush(c))
    /\ WF_vars(WorkerWake)
    /\ SF_vars(FlushLock(Worker))
    /\ WF_vars(FlushStep)
    /\ WF_vars(Recover)

FairSpec == Spec /\ Fairness
=============================================================================
