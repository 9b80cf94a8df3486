---------------------------- MODULE EngineProofs ----------------------------
(***************************************************************************)
(* No write is ever lost: EveryWriteOnDisk holds of every state of module  *)
(* Engine, for all keys, clients, callers of Flush, sizes, policies,       *)
(* faults and bounds.  IInv of module EngineProps is inductive and implies *)
(* it.                                                                     *)
(*                                                                         *)
(* The engine without calls of Flush, and whose removals of WAL files do   *)
(* not fail, implements the abstract store; and a Get answers with nothing *)
(* older than what was newest when it began (from RInv on).                *)
(***************************************************************************)
EXTENDS EngineProps, FiniteSetTheorems, SequenceTheorems, NatLemmas, TLAPS

-----------------------------------------------------------------------------
\* Newest returns an entry of the records, for the key asked for, that none of
\* the records of that key exceeds; NoEntry only if there is none.
LEMMA NewestFacts ==
    ASSUME NEW b \in Nat, NEW k \in Keys,
           NEW S, S \subseteq [key : Keys, seq : 1..b, op : Ops]
    PROVE  /\ Newest(S, k) \in [key : Keys, seq : 1..b, op : Ops] \cup {NoEntry}
           /\ \A r \in S : r.key = k => Newest(S, k).seq >= r.seq
<1> DEFINE R == {r \in S : r.key = k}
           N == {r.seq : r \in R}
<1>1. CASE R = {}
  BY <1>1 DEF Newest
<1>2. CASE R # {}
  <2>1. N \in SUBSET Nat /\ N # {} /\ \A n \in N : n <= b
    BY <1>2
  <2>2. PICK m \in N : \A n \in N : n <= m
    <3> HIDE DEF N
    <3> QED BY <2>1, MaxExists
  <2>3. \E r \in R : \A q \in R : q.seq <= r.seq
    BY <2>2
  <2>4. /\ Newest(S, k) \in R
        /\ \A q \in R : q.seq <= Newest(S, k).seq
    BY <1>2, <2>3 DEF Newest
  <2> QED BY <2>4
<1> QED BY <1>1, <1>2

\* The memtable contents recovered from a WAL are well formed and cover it.
LEMMA ReplayFacts ==
    ASSUME writes \in Nat, NEW S, S \subseteq EntryTypes
    PROVE  /\ Replay(S) \in DataType
           /\ \A r \in S : Replay(S)[r.key].seq >= r.seq
<1>1. ASSUME NEW k \in Keys
      PROVE  /\ Newest(S, k) \in EntryTypes \cup {NoEntry}
             /\ \A r \in S : r.key = k => Newest(S, k).seq >= r.seq
  BY NewestFacts DEF EntryTypes
<1>2. \A r \in S : r.key \in Keys
  BY DEF EntryTypes
<1> QED BY <1>1, <1>2 DEF Replay, DataType

\* A memtable that counts no entry has none.
LEMMA CountZero ==
    ASSUME NEW mem, mem.data \in DataType, ~(Count(mem) > 0)
    PROVE  mem.data = EmptyData
<1> DEFINE Used == {k \in Keys : mem.data[k] # NoEntry}
<1>1. IsFiniteSet(Used)
  BY KeysAssumption, FS_Subset
<1>2. Cardinality(Used) \in Nat /\ (Cardinality(Used) = 0 <=> Used = {})
  BY <1>1, FS_CardinalityType, FS_EmptySet
<1>3. Used = {}
  BY <1>2 DEF Count
<1> QED BY <1>3 DEF DataType, EmptyData

\* The first WAL that is pending is a pending one.
LEMMA FirstWALPending ==
    ASSUME nextID \in Nat, DOMAIN walFiles \subseteq 1..(nextID - 1), Pending # {}
    PROVE  FirstWAL \in Pending
<1>1. Pending \in SUBSET Nat
  BY DEF Pending
<1> QED BY <1>1, MinExists DEF FirstWAL

\* What is well typed stays so while the counters grow.
LEMMA TypesGrow ==
    ASSUME writes \in Nat, writes' \in Nat, writes <= writes',
           nextID \in Nat, nextID' \in Nat, nextID <= nextID'
    PROVE  /\ EntryTypes \subseteq EntryTypes'
           /\ DataType \subseteq DataType'
           /\ MemType \subseteq MemType'
<1>1. EntryTypes \subseteq EntryTypes'
  BY DEF EntryTypes
<1>2. DataType \subseteq DataType'
  BY <1>1 DEF DataType
<1> QED BY <1>1, <1>2 DEF MemType

LEMMA EmptyTypes == EmptyData \in DataType /\ (nextID \in Nat \ {0} => NoMem \in MemType)
BY DEF EmptyData, DataType, NoMem, Mem, MemType
-----------------------------------------------------------------------------
\* The initial state satisfies the inductive invariant.
LEMMA InitIInv == Init => IInv
<1> SUFFICES ASSUME Init PROVE IInv
  OBVIOUS
<1> USE DEF Init
<1>1. DiskTypes
  <2>1. /\ DOMAIN walFiles = {} /\ walFiles \in [DOMAIN walFiles -> SUBSET EntryTypes]
        /\ DOMAIN sst = {} /\ sst \in [DOMAIN sst -> DataType]
    OBVIOUS
  <2> QED BY <2>1 DEF DiskTypes
<1>2. MemoryTypes
  BY EmptyTypes DEF MemoryTypes
<1>3. FlushTypes
  BY EmptyTypes DEF FlushTypes, StageType
<1>4. ThreadTypes
  BY DEF ThreadTypes, PlaceType
<1>5. FlagTypes
  BY DEF FlagTypes
<1>6. HistoryTypes
  BY DEF HistoryTypes
<1>7. MemsCoverLogs /\ LogOwned /\ BeforeOpen /\ JobInTables /\ EveryWriteOnDisk
  BY DEF MemsCoverLogs, Covers, LogOwned, BeforeOpen, JobInTables, EveryWriteOnDisk
<1> QED BY <1>1, <1>2, <1>3, <1>4, <1>5, <1>6, <1>7 DEF IInv, TypeOK
-----------------------------------------------------------------------------
\* Steps that touch neither the files nor the memtables nor a flush: signals,
\* the periodic sync and readers.
LEMMA QuietStep ==
    ASSUME IInv, UNCHANGED <<disk, mode, replayed, mems, levelTables, flush, hist, writes,
                             crashes, faults>>,
           mode = "open", ThreadTypes', flushes' \in Nat, flushChan' \in BOOLEAN, durable' \in 0..writes
    PROVE  IInv'
<1> USE DEF disk, mems, flush
<1>1. EntryTypes' = EntryTypes /\ DataType' = DataType /\ MemType' = MemType
  BY DEF EntryTypes, DataType, MemType
<1>2. DiskTypes' /\ MemoryTypes' /\ FlushTypes' /\ FlagTypes' /\ HistoryTypes'
  BY <1>1 DEF IInv, TypeOK, DiskTypes, MemoryTypes, FlushTypes, FlagTypes, HistoryTypes
<1>3. MemsCoverLogs' /\ LogOwned' /\ BeforeOpen' /\ JobInTables' /\ EveryWriteOnDisk'
  BY DEF IInv, MemsCoverLogs, Covers, LogOwned, BeforeOpen, JobInTables, EveryWriteOnDisk
<1> QED BY <1>2, <1>3 DEF IInv, TypeOK

LEMMA TriggerFlushStep == ASSUME IInv, NEW c \in Clients, TriggerFlush(c) PROVE IInv'
<1>1. ThreadTypes' /\ flushChan' \in BOOLEAN /\ durable' \in 0..writes /\ flushes' \in Nat
  BY DEF TriggerFlush, IInv, TypeOK, ThreadTypes, PlaceType, HistoryTypes, history, bounds
<1>2. mode = "open"
  BY DEF TriggerFlush, IInv, BeforeOpen, Threads
<1> QED BY <1>1, <1>2, QuietStep DEF TriggerFlush, history, bounds

LEMMA PeriodicSyncStep == ASSUME IInv, PeriodicSync PROVE IInv'
<1>1. ThreadTypes' /\ flushChan' \in BOOLEAN /\ durable' \in 0..writes /\ flushes' \in Nat
  BY DEF PeriodicSync, IInv, TypeOK, ThreadTypes, FlagTypes, HistoryTypes, bounds
<1> QED BY <1>1, QuietStep DEF PeriodicSync, bounds

LEMMA GetStep ==
    ASSUME IInv, NEW c \in Clients,
           (\E k \in Keys : GetFromMem(c, k)) \/ GetFromDisk(c) \/ GetReturn(c)
    PROVE  IInv'
<1>1. ThreadTypes' /\ flushChan' \in BOOLEAN /\ durable' \in 0..writes /\ flushes' \in Nat
  BY DEF GetFromMem, GetFromDisk, GetReturn, IInv, TypeOK, ThreadTypes, PlaceType, FlagTypes,
         HistoryTypes, history, bounds
<1>2. mode = "open"
  BY DEF GetFromMem, GetFromDisk, GetReturn, IInv, BeforeOpen, Threads
<1> QED BY <1>1, <1>2, QuietStep DEF GetFromMem, GetFromDisk, GetReturn, history, bounds

LEMMA WorkerWakeStep == ASSUME IInv, WorkerWake PROVE IInv'
<1>1. ThreadTypes' /\ flushChan' \in BOOLEAN /\ durable' \in 0..writes /\ flushes' \in Nat
  BY DEF WorkerWake, IInv, TypeOK, ThreadTypes, PlaceType, FlagTypes, HistoryTypes, history, bounds
<1> QED BY <1>1, QuietStep DEF WorkerWake, history, bounds
-----------------------------------------------------------------------------
\* Put and Delete: the record enters the active memtable and its WAL, which is
\* the WAL of no other memtable.
LEMMA WriteStep ==
    ASSUME IInv, NEW c \in Clients, NEW k \in Keys, NEW op \in Ops, Write(c, k, op)
    PROVE  IInv'
<1> DEFINE e == [key |-> k, seq |-> writes + 1, op |-> op]
<1>1. /\ mode = "open" /\ walOpen
      /\ walFiles' = [walFiles EXCEPT ![activeMem.id] = @ \cup {e}]
      /\ activeMem' = [activeMem EXCEPT !.data[k] = e]
      /\ hist' = hist \cup {e}
      /\ writes' = writes + 1
      /\ durable' \in {durable, writes + 1}
      /\ UNCHANGED <<sst, l0, levelTables, nextID, mode, replayed, immMem, walOpen, flushChan,
                     flusher, stage, job, sstID, more, flushes, crashes, faults>>
  BY DEF Write, tables, flush, bounds
<1>2. /\ activeMem.id \in DOMAIN walFiles
      /\ immMem.id # activeMem.id /\ job.id # activeMem.id
  BY <1>1 DEF IInv, LogOwned
<1>3. writes \in Nat /\ nextID \in Nat \ {0}
  BY DEF IInv, TypeOK, DiskTypes, HistoryTypes
<1>4. /\ e \in EntryTypes'
      /\ EntryTypes \subseteq EntryTypes' /\ DataType \subseteq DataType' /\ MemType \subseteq MemType'
  BY <1>1, <1>3, TypesGrow DEF EntryTypes
<1>5. DiskTypes'
  BY <1>1, <1>2, <1>4 DEF IInv, TypeOK, DiskTypes
<1>6. /\ activeMem \in MemType
      /\ activeMem' \in MemType'
      /\ activeMem'.id = activeMem.id
      /\ activeMem'.data = [activeMem.data EXCEPT ![k] = e]
  <2>1. activeMem \in MemType
    BY DEF IInv, TypeOK, MemoryTypes
  <2>2. [activeMem.data EXCEPT ![k] = e] \in DataType'
    BY <2>1, <1>4 DEF MemType, DataType
  <2> QED BY <2>1, <2>2, <1>1 DEF MemType
<1>7. MemoryTypes'
  BY <1>1, <1>4, <1>6 DEF IInv, TypeOK, MemoryTypes
<1>8. FlushTypes' /\ FlagTypes'
  BY <1>1, <1>4 DEF IInv, TypeOK, FlushTypes, FlagTypes
<1>9. ThreadTypes'
  BY DEF Write, IInv, TypeOK, ThreadTypes, PlaceType
<1>10. HistoryTypes'
  BY <1>1, <1>3, <1>4 DEF IInv, TypeOK, HistoryTypes
<1>11. Covers(activeMem)'
  <2>1. ASSUME NEW r \in walFiles'[activeMem.id] PROVE activeMem'.data[r.key].seq >= r.seq
    <3>1. CASE r = e
      BY <3>1, <1>6, <1>3 DEF MemType, DataType
    <3>2. CASE r # e
      <4>1. r \in walFiles[activeMem.id] /\ r \in EntryTypes
        BY <3>2, <1>1, <1>2 DEF IInv, TypeOK, DiskTypes
      <4>2. activeMem.data[r.key].seq >= r.seq /\ r.seq <= writes
        BY <4>1, <1>2, <1>3 DEF IInv, MemsCoverLogs, Covers, EntryTypes
      <4> QED BY <4>1, <4>2, <1>3, <1>6 DEF MemType, DataType, EntryTypes
    <3> QED BY <3>1, <3>2
  <2> QED BY <2>1, <1>6 DEF Covers
<1>12. Covers(immMem)' /\ Covers(job)'
  BY <1>1, <1>2 DEF IInv, MemsCoverLogs, Covers
<1>13. LogOwned' /\ BeforeOpen' /\ JobInTables'
  <2>1. LogOwned'
    BY <1>1, <1>6 DEF IInv, LogOwned
  <2> QED BY <2>1, <1>1 DEF IInv, BeforeOpen, JobInTables
<1>14. EveryWriteOnDisk'
  <2>1. \A w \in DOMAIN walFiles : w \in DOMAIN walFiles' /\ walFiles[w] \subseteq walFiles'[w]
    BY <1>1 DEF IInv, TypeOK, DiskTypes
  <2>2. e \in walFiles'[activeMem.id] /\ activeMem.id \in DOMAIN walFiles'
    BY <1>1, <1>2
  <2> QED BY <2>1, <2>2, <1>1 DEF IInv, EveryWriteOnDisk
<1> QED BY <1>5, <1>7, <1>8, <1>9, <1>10, <1>11, <1>12, <1>13, <1>14
        DEF IInv, TypeOK, MemsCoverLogs
-----------------------------------------------------------------------------
\* rotateMemTable, whoever calls it: the new memtable and its WAL have an id that
\* nothing else has; if there is no new WAL, nothing can be written to the old.
LEMMA RotateKeeps ==
    ASSUME IInv, RotateMemTable, mode = "open",
           UNCHANGED <<tables, mode, replayed, flushChan, flusher, job, sstID, hist, writes, crashes>>,
           stage' = stage \/ (stage = "clear" /\ stage' = "unlink"),
           ThreadTypes', more' \in BOOLEAN, flushes' \in Nat
    PROVE  IInv'
<1> USE DEF tables
<1>1. /\ immMem' = activeMem /\ durable' = writes /\ nextID' = nextID + 1
      /\ faults' \in {faults, faults + 1}
      /\ \/ /\ activeMem' = Mem(nextID, EmptyData) /\ walOpen' = TRUE
            /\ walFiles' = [w \in DOMAIN walFiles \cup {nextID} |->
                              IF w = nextID THEN {} ELSE walFiles[w]]
         \/ /\ walOpen' = FALSE /\ UNCHANGED <<activeMem, walFiles>>
  BY DEF RotateMemTable, Fault
<1>2. /\ writes \in Nat /\ nextID \in Nat \ {0}
      /\ DOMAIN walFiles \subseteq 1..(nextID - 1)
      /\ activeMem \in MemType /\ immMem \in MemType /\ job \in MemType
  BY DEF IInv, TypeOK, DiskTypes, MemoryTypes, FlushTypes, HistoryTypes
<1>3. EntryTypes' = EntryTypes /\ DataType' = DataType /\ MemType \subseteq MemType'
  BY <1>1, <1>2, TypesGrow DEF EntryTypes, DataType
<1>4. /\ \A w \in DOMAIN walFiles : w \in DOMAIN walFiles' /\ walFiles'[w] = walFiles[w]
      /\ \A w \in DOMAIN walFiles' \ DOMAIN walFiles : w = nextID /\ walFiles'[w] = {}
  BY <1>1, <1>2
<1>5. DiskTypes'
  <2>1. DOMAIN walFiles' \subseteq 1..(nextID' - 1) /\ nextID' \in Nat \ {0}
    BY <1>1, <1>2
  <2>2. walFiles' \in [DOMAIN walFiles' -> SUBSET EntryTypes']
    BY <1>1, <1>3 DEF IInv, TypeOK, DiskTypes
  <2>3. DOMAIN sst' \subseteq 1..(nextID' - 1)
    BY <1>1, <1>2 DEF IInv, TypeOK, DiskTypes
  <2> QED BY <2>1, <2>2, <2>3, <1>3 DEF IInv, TypeOK, DiskTypes
<1>6. MemoryTypes'
  <2>1. activeMem' \in MemType' /\ immMem' \in MemType'
    BY <1>1, <1>2, <1>3, EmptyTypes DEF Mem, MemType
  <2> QED BY <2>1, <1>1, <1>2 DEF IInv, TypeOK, MemoryTypes
<1>7. FlushTypes'
  BY <1>1, <1>2, <1>3 DEF IInv, TypeOK, FlushTypes, StageType
<1>8. FlagTypes'
  BY <1>1 DEF IInv, TypeOK, FlagTypes
<1>9. HistoryTypes'
  BY <1>1, <1>2, <1>3 DEF IInv, TypeOK, HistoryTypes
<1>10. MemsCoverLogs'
  <2>1. ASSUME NEW mem \in {activeMem, immMem, job}
        PROVE  mem.id \in DOMAIN walFiles' =>
                 \A r \in walFiles'[mem.id] : mem.data[r.key].seq >= r.seq
    BY <2>1, <1>4 DEF IInv, MemsCoverLogs, Covers
  <2>2. Covers(immMem)' /\ Covers(job)'
    BY <2>1, <1>1 DEF Covers
  <2>3. Covers(activeMem)'
    <3>1. CASE activeMem' = activeMem
      BY <3>1, <2>1 DEF Covers
    <3>2. CASE activeMem' = Mem(nextID, EmptyData)
      BY <3>2, <1>2, <1>4 DEF Covers, Mem
    <3> QED BY <3>1, <3>2, <1>1
  <2> QED BY <2>2, <2>3 DEF MemsCoverLogs
<1>11. LogOwned'
  <2>1. CASE walOpen'
    <3>1. activeMem'.id = nextID /\ nextID \in DOMAIN walFiles'
      BY <2>1, <1>1 DEF Mem
    <3>2. immMem'.id # nextID /\ job'.id # nextID
      BY <1>1, <1>2 DEF MemType
    <3> QED BY <3>1, <3>2 DEF LogOwned
  <2> QED BY <2>1 DEF LogOwned
<1>12. BeforeOpen' /\ JobInTables'
  BY DEF IInv, BeforeOpen, JobInTables
<1>13. EveryWriteOnDisk'
  BY <1>4 DEF IInv, EveryWriteOnDisk
<1> QED BY <1>5, <1>6, <1>7, <1>8, <1>9, <1>10, <1>11, <1>12, <1>13 DEF IInv, TypeOK

LEMMA RotateStep == ASSUME IInv, NEW c \in Clients, Rotate(c) PROVE IInv'
<1>1. mode = "open"
  BY DEF Rotate, IInv, BeforeOpen, Threads
<1>2. ThreadTypes' /\ more' \in BOOLEAN /\ flushes' \in Nat
  BY DEF Rotate, flush, IInv, TypeOK, ThreadTypes, PlaceType, FlagTypes, HistoryTypes
<1> QED BY <1>1, <1>2, RotateKeeps DEF Rotate, flush

LEMMA FlushCallStep == ASSUME IInv, NEW f \in Flushers, FlushCall(f) PROVE IInv'
<1>1. ThreadTypes'
  BY DEF FlushCall, IInv, TypeOK, ThreadTypes, PlaceType
<1>2. more' \in BOOLEAN /\ flushChan' \in BOOLEAN
  BY DEF FlushCall, flush, IInv, TypeOK, FlagTypes
<1>3. flushes' \in Nat
  BY DEF FlushCall, IInv, TypeOK, HistoryTypes
<1>4. CASE RotateMemTable
  BY <1>1, <1>2, <1>3, <1>4, RotateKeeps DEF FlushCall, flush
<1>5. CASE UNCHANGED <<activeMem, immMem, walOpen, walFiles, nextID, durable, faults>>
  <2>1. UNCHANGED <<disk, mode, replayed, mems, levelTables, flush, hist, writes, durable,
                    crashes, faults>>
    BY <1>5 DEF FlushCall, disk, mems, tables
  <2>2. durable' \in 0..writes
    BY <2>1 DEF IInv, TypeOK, HistoryTypes
  <2> QED BY <2>1, <2>2, <1>1, <1>2, <1>3, QuietStep DEF FlushCall
<1> QED BY <1>4, <1>5 DEF FlushCall

LEMMA FlushRerotateStep == ASSUME IInv, NEW f \in Flushers, FlushRerotate(f) PROVE IInv'
<1>1. mode = "open"
  BY DEF FlushRerotate, IInv, BeforeOpen, Threads
<1>2. ThreadTypes' /\ more' \in BOOLEAN /\ flushes' \in Nat
  BY DEF FlushRerotate, flush, IInv, TypeOK, ThreadTypes, PlaceType, FlagTypes, HistoryTypes
<1> QED BY <1>1, <1>2, RotateKeeps DEF FlushRerotate, flush
-----------------------------------------------------------------------------
\* flushImmutable takes the lock: the memtable it is about to flush is immutable,
\* and an empty one needs no table.
LEMMA FlushLockStep ==
    ASSUME IInv, NEW t \in Flushers \cup {Worker}, FlushLock(t)
    PROVE  IInv'
<1> USE DEF disk, mems, history, bounds
<1>1. mode = "open" /\ t # Opener /\ t \in Threads /\ t # NoThread
  BY ThreadsAssumption DEF FlushLock, IInv, BeforeOpen, Threads
<1>2. /\ ThreadTypes' /\ flushChan' \in BOOLEAN
      /\ durable' \in 0..writes /\ flushes' \in Nat
  BY DEF FlushLock, IInv, TypeOK, ThreadTypes, PlaceType, FlagTypes, HistoryTypes, Returned
<1>3. CASE immMem = NoMem
  BY <1>1, <1>2, <1>3, QuietStep DEF FlushLock
<1>4. CASE immMem # NoMem
  <2>1. /\ flusher' = t /\ job' = immMem
        /\ stage' = IF Count(immMem) = 0 THEN "clear" ELSE "build"
        /\ UNCHANGED <<disk, mode, replayed, mems, levelTables, flushChan, sstID, more, pc, get,
                       history, bounds>>
    BY <1>4 DEF FlushLock
  <2>2. EntryTypes' = EntryTypes /\ DataType' = DataType /\ MemType' = MemType
    BY <2>1 DEF EntryTypes, DataType, MemType
  <2>3. DiskTypes' /\ MemoryTypes' /\ FlagTypes' /\ HistoryTypes'
    BY <2>1, <2>2 DEF IInv, TypeOK, DiskTypes, MemoryTypes, FlagTypes, HistoryTypes
  <2>4. FlushTypes'
    BY <2>1, <2>2, <1>1 DEF IInv, TypeOK, MemoryTypes, FlushTypes, StageType
  <2>5. MemsCoverLogs' /\ LogOwned'
    BY <2>1 DEF IInv, MemsCoverLogs, Covers, LogOwned
  <2>6. BeforeOpen' /\ EveryWriteOnDisk'
    BY <2>1, <1>1 DEF IInv, BeforeOpen, EveryWriteOnDisk
  <2>7. JobInTables'
    <3>1. stage' = "clear" => job'.data = EmptyData
      BY <2>1, CountZero DEF IInv, TypeOK, MemoryTypes, MemType
    <3> QED BY <3>1, <2>1, <1>1 DEF JobInTables
  <2> QED BY <2>3, <2>4, <2>5, <2>6, <2>7, <1>2 DEF IInv, TypeOK
<1> QED BY <1>3, <1>4

\* The table is written, with an id that no other table has.
LEMMA FlushBuildStep == ASSUME IInv, FlushBuild PROVE IInv'
<1> USE DEF mems, history, bounds
<1>1. /\ nextID' = nextID + 1 /\ sstID' = nextID
      /\ sst' = [t \in DOMAIN sst \cup {nextID} |-> IF t = nextID THEN job.data ELSE sst[t]]
      /\ stage = "build" /\ stage' = "commit"
      /\ UNCHANGED <<walFiles, l0, mode, replayed, mems, levelTables, flushChan, flusher,
                     job, more, pc, get, history, bounds>>
  BY DEF FlushBuild
<1>2. /\ writes \in Nat /\ nextID \in Nat \ {0}
      /\ DOMAIN sst \subseteq 1..(nextID - 1) /\ job \in MemType
  BY DEF IInv, TypeOK, DiskTypes, FlushTypes, HistoryTypes
<1>3. EntryTypes' = EntryTypes /\ DataType' = DataType /\ MemType \subseteq MemType'
  BY <1>1, <1>2, TypesGrow DEF EntryTypes, DataType
<1>4. /\ DOMAIN sst \subseteq DOMAIN sst'
      /\ \A t \in DOMAIN sst : sst'[t] = sst[t]
      /\ sstID' \in DOMAIN sst' /\ sst'[sstID'] = job.data
  BY <1>1, <1>2
<1>5. Seq(DOMAIN sst) \subseteq Seq(DOMAIN sst')
  BY <1>4
<1>6. DiskTypes'
  <2>1. DOMAIN sst' \subseteq 1..(nextID' - 1) /\ nextID' \in Nat \ {0}
        /\ DOMAIN walFiles' \subseteq 1..(nextID' - 1)
    BY <1>1, <1>2 DEF IInv, TypeOK, DiskTypes
  <2>2. sst' \in [DOMAIN sst' -> DataType']
    BY <1>1, <1>2, <1>3 DEF IInv, TypeOK, DiskTypes, MemType
  <2> QED BY <2>1, <2>2, <1>1, <1>3, <1>5 DEF IInv, TypeOK, DiskTypes
<1>7. MemoryTypes' /\ FlagTypes' /\ HistoryTypes'
  BY <1>1, <1>2, <1>3, <1>5 DEF IInv, TypeOK, MemoryTypes, FlagTypes, HistoryTypes
<1>8. FlushTypes' /\ ThreadTypes'
  BY <1>1, <1>2, <1>3 DEF IInv, TypeOK, FlushTypes, StageType, ThreadTypes
<1>9. MemsCoverLogs' /\ LogOwned'
  BY <1>1 DEF IInv, MemsCoverLogs, Covers, LogOwned
<1>10. BeforeOpen' /\ JobInTables'
  BY <1>1, <1>4 DEF IInv, BeforeOpen, JobInTables
<1>11. EveryWriteOnDisk'
  <2>1. \A i \in 1..Len(l0) : l0[i] \in DOMAIN sst
    BY DEF IInv, TypeOK, DiskTypes
  <2> QED BY <2>1, <1>1, <1>4 DEF IInv, EveryWriteOnDisk
<1> QED BY <1>6, <1>7, <1>8, <1>9, <1>10, <1>11 DEF IInv, TypeOK

\* The table enters level 0 of the manifest, in front of nothing that was there.
LEMMA FlushCommitStep == ASSUME IInv, FlushCommit PROVE IInv'
<1> USE DEF mems, history, bounds
<1>1. /\ l0' = Append(l0, sstID) /\ stage = "commit" /\ stage' = "install"
      /\ UNCHANGED <<walFiles, sst, nextID, mode, replayed, mems, levelTables, flushChan,
                     flusher, job, sstID, more, pc, get, history, bounds>>
  BY DEF FlushCommit
<1>2. l0 \in Seq(DOMAIN sst) /\ sstID \in DOMAIN sst /\ sst[sstID] = job.data
  BY <1>1 DEF IInv, TypeOK, DiskTypes, JobInTables
<1>3. /\ l0' \in Seq(DOMAIN sst) /\ Len(l0') = Len(l0) + 1
      /\ \A i \in 1..Len(l0) : l0'[i] = l0[i]
      /\ l0'[Len(l0) + 1] = sstID
  BY <1>1, <1>2
<1>4. EntryTypes' = EntryTypes /\ DataType' = DataType /\ MemType' = MemType
  BY <1>1 DEF EntryTypes, DataType, MemType
<1>5. DiskTypes' /\ MemoryTypes' /\ FlagTypes' /\ HistoryTypes'
  BY <1>1, <1>3, <1>4 DEF IInv, TypeOK, DiskTypes, MemoryTypes, FlagTypes, HistoryTypes
<1>6. FlushTypes' /\ ThreadTypes'
  BY <1>1, <1>4 DEF IInv, TypeOK, FlushTypes, StageType, ThreadTypes
<1>7. MemsCoverLogs' /\ LogOwned' /\ BeforeOpen'
  BY <1>1 DEF IInv, MemsCoverLogs, Covers, LogOwned, BeforeOpen
<1>8. JobInTables'
  <2>1. Len(l0) + 1 \in 1..Len(l0') /\ sst'[l0'[Len(l0) + 1]] = job'.data
    BY <1>1, <1>2, <1>3
  <2> QED BY <2>1, <1>1 DEF IInv, JobInTables
<1>9. EveryWriteOnDisk'
  <2>1. 1..Len(l0) \subseteq 1..Len(l0')
    BY <1>2, <1>3
  <2> QED BY <2>1, <1>1, <1>3 DEF IInv, EveryWriteOnDisk
<1> QED BY <1>5, <1>6, <1>7, <1>8, <1>9 DEF IInv, TypeOK

LEMMA FlushInstallStep == ASSUME IInv, FlushInstall PROVE IInv'
<1> USE DEF disk, mems, history, bounds
<1>1. /\ levelTables' = l0 /\ stage = "install"
      /\ stage' = IF flusher = Opener THEN "unlink" ELSE "clear"
      /\ UNCHANGED <<disk, mode, replayed, mems, flushChan, flusher, job, sstID, more,
                     pc, get, history, bounds>>
  BY DEF FlushInstall
<1>2. EntryTypes' = EntryTypes /\ DataType' = DataType /\ MemType' = MemType
  BY <1>1 DEF EntryTypes, DataType, MemType
<1>3. DiskTypes' /\ MemoryTypes' /\ FlagTypes' /\ HistoryTypes'
  BY <1>1, <1>2 DEF IInv, TypeOK, DiskTypes, MemoryTypes, FlagTypes, HistoryTypes
<1>4. FlushTypes' /\ ThreadTypes'
  BY <1>1, <1>2 DEF IInv, TypeOK, FlushTypes, StageType, ThreadTypes
<1>5. MemsCoverLogs' /\ LogOwned' /\ EveryWriteOnDisk'
  BY <1>1 DEF IInv, MemsCoverLogs, Covers, LogOwned, EveryWriteOnDisk
<1>6. BeforeOpen' /\ JobInTables'
  BY <1>1 DEF IInv, BeforeOpen, JobInTables
<1> QED BY <1>3, <1>4, <1>5, <1>6 DEF IInv, TypeOK

\* A flush that fails forgets its memtable, not the engine.
LEMMA BuildFailsStep ==
    ASSUME IInv, BuildFails, MemoryTypes', ThreadTypes', BeforeOpen',
           mode' = mode \/ mode' = "down"
    PROVE  IInv'
<1> USE DEF mems, history
<1>1. /\ nextID' \in {nextID, nextID + 1} /\ faults' = faults + 1
      /\ flusher' = NoThread /\ stage' = "none" /\ job' = NoMem /\ sstID' = 0 /\ more' = FALSE
      /\ stage \in {"build", "commit"}
      /\ UNCHANGED <<walFiles, sst, l0, mems, flushChan, get, history, flushes, crashes>>
  BY DEF BuildFails, ReleaseFlushLock, Fault
<1>2. writes \in Nat /\ nextID \in Nat \ {0} /\ nextID' \in Nat \ {0} /\ nextID <= nextID'
  BY <1>1 DEF IInv, TypeOK, DiskTypes, HistoryTypes
<1>3. EntryTypes' = EntryTypes /\ DataType' = DataType /\ MemType \subseteq MemType'
  BY <1>1, <1>2, TypesGrow DEF EntryTypes, DataType
<1>4. NoMem \in MemType
  BY <1>2, EmptyTypes
<1>5. DiskTypes'
  <2>1. \A n \in 1..(nextID - 1) : n \in 1..(nextID' - 1)
    <3>1. CASE nextID' = nextID
      BY <3>1
    <3>2. CASE nextID' = nextID + 1
      BY <3>2, <1>2
    <3> QED BY <3>1, <3>2, <1>1
  <2>2. DOMAIN walFiles' \subseteq 1..(nextID' - 1) /\ DOMAIN sst' \subseteq 1..(nextID' - 1)
    BY <2>1, <1>1 DEF IInv, TypeOK, DiskTypes
  <2> QED BY <2>2, <1>1, <1>2, <1>3 DEF IInv, TypeOK, DiskTypes
<1>6. MemoryTypes'
  OBVIOUS
<1>7. FlushTypes' /\ FlagTypes' /\ HistoryTypes'
  <2>1. FlushTypes'
    <3>1. CASE nextID' = nextID
      BY <3>1, <1>1, <1>2, <1>3, <1>4 DEF FlushTypes, StageType
    <3>2. CASE nextID' = nextID + 1
      BY <3>2, <1>1, <1>2, <1>3, <1>4 DEF FlushTypes, StageType
    <3> QED BY <3>1, <3>2, <1>1
  <2>2. FlagTypes'
    BY <1>1 DEF IInv, TypeOK, FlagTypes
  <2>3. HistoryTypes'
    BY <1>1, <1>3 DEF IInv, TypeOK, HistoryTypes
  <2> QED BY <2>1, <2>2, <2>3
<1>8. 0 \notin DOMAIN walFiles
  BY DEF IInv, TypeOK, DiskTypes
<1>9. MemsCoverLogs'
  BY <1>1, <1>8 DEF IInv, MemsCoverLogs, Covers, NoMem, Mem
<1>10. LogOwned'
  <2>1. CASE mode' = mode
    BY <2>1, <1>1, <1>8 DEF IInv, LogOwned, NoMem, Mem
  <2>2. CASE mode' = "down"
    <3>1. ASSUME walOpen' PROVE FALSE
      <4>1. activeMem.id \in DOMAIN walFiles
        BY <3>1, <1>1 DEF IInv, LogOwned
      <4> QED BY <4>1, <1>1, <1>8, <2>2 DEF BeforeOpen, NoMem, Mem
    <3> QED BY <3>1 DEF LogOwned
  <2> QED BY <2>1, <2>2
<1>11. JobInTables' /\ EveryWriteOnDisk'
  BY <1>1 DEF IInv, JobInTables, EveryWriteOnDisk
<1> QED BY <1>5, <1>6, <1>7, <1>9, <1>10, <1>11 DEF IInv, TypeOK

\* What BuildFails leaves alone is still well typed.
LEMMA BuildFailsTypes ==
    ASSUME IInv, BuildFails
    PROVE  /\ activeMem' \in MemType' /\ immMem' \in MemType'
           /\ DOMAIN sst' = DOMAIN sst
           /\ 0 \in 0..(nextID' - 1) /\ (replayed' = replayed => replayed' \in 0..(nextID' - 1))
<1>1. /\ nextID' \in {nextID, nextID + 1}
      /\ UNCHANGED <<sst, activeMem, immMem, writes>>
  BY DEF BuildFails, mems, history
<1>2. writes \in Nat /\ nextID \in Nat \ {0}
  BY DEF IInv, TypeOK, DiskTypes, HistoryTypes
<1>3. MemType \subseteq MemType'
  BY <1>1, <1>2, TypesGrow
<1>4. 0 \in 0..(nextID' - 1) /\ \A n \in 0..(nextID - 1) : n \in 0..(nextID' - 1)
  <2>1. CASE nextID' = nextID
    BY <2>1, <1>2
  <2>2. CASE nextID' = nextID + 1
    BY <2>2, <1>2
  <2> QED BY <2>1, <2>2, <1>1
<1> QED BY <1>1, <1>3, <1>4 DEF IInv, TypeOK, MemoryTypes

LEMMA FlushFailStep == ASSUME IInv, FlushFail PROVE IInv'
<1>1. ThreadTypes'
  BY DEF FlushFail, BuildFails, IInv, TypeOK, ThreadTypes, PlaceType
<1>2. BeforeOpen'
  <2>1. /\ mode' = mode /\ activeMem' = activeMem /\ immMem' = immMem /\ flusher' = NoThread
        /\ pc' = [pc EXCEPT ![flusher] = "idle"]
    BY DEF FlushFail, BuildFails, ReleaseFlushLock, mems
  <2> QED BY <2>1, ThreadsAssumption DEF IInv, TypeOK, ThreadTypes, BeforeOpen, Threads
<1>3. MemoryTypes'
  <2>1. mode' = mode /\ replayed' = replayed /\ levelTables' = levelTables /\ BuildFails
    BY DEF FlushFail
  <2>2. mode \in {"down", "opening", "open"} /\ levelTables \in Seq(DOMAIN sst)
    BY DEF IInv, TypeOK, MemoryTypes
  <2> QED BY <2>1, <2>2, BuildFailsTypes DEF MemoryTypes
<1> QED BY <1>1, <1>2, <1>3, BuildFailsStep DEF FlushFail

LEMMA OpenFailStep == ASSUME IInv, OpenFail PROVE IInv'
<1>1. ThreadTypes'
  BY DEF OpenFail, BuildFails, IInv, TypeOK, ThreadTypes
<1>2. activeMem = NoMem /\ immMem = NoMem /\ \A t \in Threads : pc[t] = "idle"
  BY DEF OpenFail, IInv, BeforeOpen
<1>3. BeforeOpen'
  BY <1>2 DEF OpenFail, BuildFails, ReleaseFlushLock, mems, BeforeOpen
<1>4. MemoryTypes'
  <2>1. mode' = "down" /\ replayed' = 0 /\ levelTables' = <<>> /\ BuildFails
    BY DEF OpenFail
  <2>2. <<>> \in Seq(DOMAIN sst')
    OBVIOUS
  <2> QED BY <2>1, <2>2, BuildFailsTypes DEF MemoryTypes
<1> QED BY <1>1, <1>3, <1>4, BuildFailsStep DEF OpenFail

\* flushImmutable drops the memtable it has flushed.
LEMMA FlushClearStep == ASSUME IInv, FlushClear PROVE IInv'
<1>1. /\ stage = "clear" /\ stage' = "unlink"
      /\ UNCHANGED <<sst, l0, levelTables, mode, replayed, flushChan, flusher, job, sstID, pc, get,
                     hist, writes, flushes, crashes>>
  BY DEF FlushClear, tables
<1>2. mode = "open"
  BY <1>1, ThreadsAssumption DEF IInv, BeforeOpen, JobInTables, Threads
<1>3. ThreadTypes' /\ flushes' \in Nat
  BY <1>1 DEF IInv, TypeOK, ThreadTypes, HistoryTypes
<1>4. CASE ShouldFlush(activeMem)
  <2>1. RotateMemTable /\ more' = TRUE /\ sstID' = sstID
    BY <1>4 DEF FlushClear
  <2> QED BY <1>1, <1>2, <1>3, <2>1, RotateKeeps DEF tables
<1>5. CASE ~ShouldFlush(activeMem)
  <2>1. /\ immMem' = NoMem
        /\ UNCHANGED <<activeMem, walOpen, walFiles, nextID, durable, faults, more>>
    BY <1>5 DEF FlushClear
  <2>2. EntryTypes' = EntryTypes /\ DataType' = DataType /\ MemType' = MemType
    BY <1>1, <2>1 DEF EntryTypes, DataType, MemType
  <2>3. NoMem \in MemType /\ 0 \notin DOMAIN walFiles
    BY EmptyTypes DEF IInv, TypeOK, DiskTypes
  <2>4. DiskTypes' /\ FlagTypes' /\ HistoryTypes'
    BY <1>1, <2>1, <2>2 DEF IInv, TypeOK, DiskTypes, FlagTypes, HistoryTypes
  <2>5. MemoryTypes' /\ FlushTypes'
    BY <1>1, <2>1, <2>2, <2>3 DEF IInv, TypeOK, MemoryTypes, FlushTypes, StageType
  <2>6. MemsCoverLogs' /\ LogOwned'
    BY <1>1, <2>1, <2>3 DEF IInv, MemsCoverLogs, Covers, LogOwned, NoMem, Mem
  <2>7. BeforeOpen' /\ JobInTables' /\ EveryWriteOnDisk'
    BY <1>1, <1>2, <2>1 DEF IInv, BeforeOpen, JobInTables, EveryWriteOnDisk
  <2> QED BY <2>4, <2>5, <2>6, <2>7, <1>3 DEF IInv, TypeOK
<1> QED BY <1>4, <1>5

\* The WAL file that is removed holds nothing that level 0 does not have.
LEMMA FlushUnlinkStep == ASSUME IInv, FlushUnlink PROVE IInv'
<1>1. /\ stage = "unlink"
      /\ DOMAIN walFiles' \subseteq DOMAIN walFiles
      /\ DOMAIN walFiles \subseteq DOMAIN walFiles' \cup {job.id}
      /\ \A w \in DOMAIN walFiles' : walFiles'[w] = walFiles[w]
      /\ flushChan' = (flushChan \/ more)
      /\ pc' = [pc EXCEPT ![flusher] = Returned(flusher)]
      /\ replayed' \in {replayed, job.id}
      /\ faults' \in {faults, faults + 1}
      /\ flusher' = NoThread /\ stage' = "none" /\ job' = NoMem /\ sstID' = 0 /\ more' = FALSE
      /\ UNCHANGED <<sst, l0, levelTables, nextID, mode, activeMem, immMem, walOpen, get,
                     hist, writes, durable, flushes, crashes>>
  BY DEF FlushUnlink, ReleaseFlushLock, Fault, tables, mems, history
<1>2. EntryTypes' = EntryTypes /\ DataType' = DataType /\ MemType' = MemType
  BY <1>1 DEF EntryTypes, DataType, MemType
<1>3. NoMem \in MemType /\ job \in MemType /\ 0 \notin DOMAIN walFiles
  BY EmptyTypes DEF IInv, TypeOK, DiskTypes, FlushTypes
<1>4. DiskTypes'
  <2>1. walFiles' = [w \in DOMAIN walFiles' |-> walFiles'[w]]
    BY DEF FlushUnlink, IInv, TypeOK, DiskTypes
  <2>2. walFiles' \in [DOMAIN walFiles' -> SUBSET EntryTypes']
    BY <2>1, <1>1, <1>2 DEF IInv, TypeOK, DiskTypes
  <2> QED BY <2>2, <1>1, <1>2 DEF IInv, TypeOK, DiskTypes
<1>5. MemoryTypes'
  BY <1>1, <1>2, <1>3 DEF IInv, TypeOK, MemoryTypes, MemType
<1>6. FlushTypes'
  BY <1>1, <1>2, <1>3 DEF IInv, TypeOK, DiskTypes, FlushTypes, StageType
<1>7. ThreadTypes'
  BY <1>1 DEF IInv, TypeOK, ThreadTypes, PlaceType, Returned
<1>8. FlagTypes' /\ HistoryTypes'
  <2>1. FlagTypes'
    BY <1>1, Zenon DEF IInv, TypeOK, FlagTypes
  <2>2. HistoryTypes'
    BY <1>1, <1>2 DEF IInv, TypeOK, HistoryTypes
  <2> QED BY <2>1, <2>2
<1>9. MemsCoverLogs' /\ LogOwned'
  BY <1>1, <1>3 DEF IInv, MemsCoverLogs, Covers, LogOwned, NoMem, Mem
<1>10. BeforeOpen'
  <2>1. ASSUME mode # "open", NEW t \in Threads PROVE pc'[t] = "idle"
    BY <2>1, <1>1 DEF IInv, TypeOK, ThreadTypes, BeforeOpen, Returned
  <2> QED BY <2>1, <1>1, ThreadsAssumption DEF IInv, BeforeOpen, Threads
<1>11. JobInTables'
  BY <1>1 DEF JobInTables
<1>12. EveryWriteOnDisk'
  <2> SUFFICES ASSUME NEW r \in hist, \A w \in DOMAIN walFiles' : r \notin walFiles'[w]
               PROVE  \E i \in 1..Len(l0) : sst[l0[i]][r.key].seq >= r.seq
    BY <1>1 DEF EveryWriteOnDisk
  <2>1. CASE \E i \in 1..Len(l0) : sst[l0[i]][r.key].seq >= r.seq
    BY <2>1
  <2>2. CASE \E w \in DOMAIN walFiles : r \in walFiles[w]
    <3>1. job.id \in DOMAIN walFiles /\ r \in walFiles[job.id]
      BY <2>2, <1>1
    <3>2. job.data[r.key].seq >= r.seq
      BY <3>1 DEF IInv, MemsCoverLogs, Covers
    <3>3. r \in EntryTypes /\ writes \in Nat
      BY DEF IInv, TypeOK, HistoryTypes
    <3>4. job.data # EmptyData
      BY <3>2, <3>3 DEF EmptyData, NoEntry, EntryTypes
    <3> QED BY <3>2, <3>4, <1>1 DEF IInv, JobInTables
  <2> QED BY <2>1, <2>2 DEF IInv, EveryWriteOnDisk
<1> QED BY <1>4, <1>5, <1>6, <1>7, <1>8, <1>9, <1>10, <1>11, <1>12 DEF IInv, TypeOK
-----------------------------------------------------------------------------
\* A crash cuts the same writes off the files and off the history.
LEMMA CrashStep == ASSUME IInv, Crash PROVE IInv'
<1>1. PICK m \in durable..writes :
        /\ walFiles' = [w \in DOMAIN walFiles |-> {r \in walFiles[w] : r.seq <= m}]
        /\ hist' = {r \in hist : r.seq <= m}
        /\ durable' = IF SyncAlways THEN durable ELSE m
  BY DEF Crash
<1>2. /\ mode' = "down" /\ replayed' = 0 /\ levelTables' = <<>> /\ flushChan' = FALSE
      /\ activeMem' = NoMem /\ immMem' = NoMem /\ walOpen' = FALSE
      /\ flusher' = NoThread /\ stage' = "none" /\ job' = NoMem /\ sstID' = 0 /\ more' = FALSE
      /\ pc' = [t \in Threads |-> "idle"] /\ get' = [c \in Clients |-> NoGet]
      /\ crashes' = crashes + 1
      /\ UNCHANGED <<sst, l0, nextID, writes, flushes, faults>>
  BY DEF Crash, ReleaseFlushLock
<1>3. EntryTypes' = EntryTypes /\ DataType' = DataType /\ MemType' = MemType
  BY <1>2 DEF EntryTypes, DataType, MemType
<1>4. NoMem \in MemType /\ 0 \notin DOMAIN walFiles
  BY EmptyTypes DEF IInv, TypeOK, DiskTypes
<1>5. DiskTypes'
  <2>1. DOMAIN walFiles' = DOMAIN walFiles /\ walFiles' \in [DOMAIN walFiles' -> SUBSET EntryTypes']
    BY <1>1, <1>3 DEF IInv, TypeOK, DiskTypes
  <2> QED BY <2>1, <1>2, <1>3 DEF IInv, TypeOK, DiskTypes
<1>6. MemoryTypes'
  <2>1. <<>> \in Seq(DOMAIN sst') /\ 0 \in 0..(nextID' - 1)
    BY <1>2 DEF IInv, TypeOK, DiskTypes
  <2> QED BY <2>1, <1>2, <1>3, <1>4 DEF MemoryTypes
<1>7. FlushTypes'
  <2>1. 0 \in 0..(nextID' - 1)
    BY <1>2 DEF IInv, TypeOK, DiskTypes
  <2> QED BY <2>1, <1>2, <1>3, <1>4 DEF FlushTypes, StageType
<1>8. ThreadTypes'
  BY <1>2 DEF ThreadTypes, PlaceType
<1>9. FlagTypes'
  BY <1>2 DEF FlagTypes
<1>10. HistoryTypes'
  BY <1>1, <1>2, <1>3, PolicyAssumption DEF IInv, TypeOK, HistoryTypes
<1>11. MemsCoverLogs' /\ LogOwned'
  BY <1>1, <1>2, <1>4 DEF MemsCoverLogs, Covers, LogOwned, NoMem, Mem
<1>12. BeforeOpen' /\ JobInTables'
  BY <1>2, ThreadsAssumption DEF BeforeOpen, JobInTables, Threads
<1>13. EveryWriteOnDisk'
  <2> SUFFICES ASSUME NEW r \in hist'
               PROVE  \/ \E w \in DOMAIN walFiles' : r \in walFiles'[w]
                      \/ \E i \in 1..Len(l0) : sst[l0[i]][r.key].seq >= r.seq
    BY <1>2 DEF EveryWriteOnDisk
  <2>1. r \in hist /\ r.seq <= m
    BY <1>1
  <2>2. CASE \E w \in DOMAIN walFiles : r \in walFiles[w]
    BY <2>1, <2>2, <1>1
  <2> QED BY <2>1, <2>2 DEF IInv, EveryWriteOnDisk
<1> QED BY <1>5, <1>6, <1>7, <1>8, <1>9, <1>10, <1>11, <1>12, <1>13 DEF IInv, TypeOK

LEMMA OpenStartStep == ASSUME IInv, OpenStart PROVE IInv'
<1> USE DEF disk, mems, flush, history, bounds
<1>1. /\ mode = "down" /\ mode' = "opening" /\ levelTables' = l0
      /\ UNCHANGED <<disk, replayed, mems, flushChan, flush, pc, get, history, bounds>>
  BY DEF OpenStart
<1>2. EntryTypes' = EntryTypes /\ DataType' = DataType /\ MemType' = MemType
  BY <1>1 DEF EntryTypes, DataType, MemType
<1>3. DiskTypes' /\ MemoryTypes' /\ FlushTypes' /\ ThreadTypes' /\ FlagTypes' /\ HistoryTypes'
  BY <1>1, <1>2 DEF IInv, TypeOK, DiskTypes, MemoryTypes, FlushTypes, ThreadTypes, FlagTypes,
                    HistoryTypes
<1>4. MemsCoverLogs' /\ LogOwned' /\ BeforeOpen' /\ JobInTables' /\ EveryWriteOnDisk'
  BY <1>1 DEF IInv, MemsCoverLogs, Covers, LogOwned, BeforeOpen, JobInTables, EveryWriteOnDisk
<1> QED BY <1>3, <1>4 DEF IInv, TypeOK

\* The memtable that recoverWAL rebuilds from a WAL file.
LEMMA RecoveredMem ==
    ASSUME IInv, Pending # {}
    PROVE  /\ FirstWAL \in DOMAIN walFiles
           /\ Mem(FirstWAL, Replay(walFiles[FirstWAL])) \in MemType
           /\ \A r \in walFiles[FirstWAL] : Replay(walFiles[FirstWAL])[r.key].seq >= r.seq
<1>1. FirstWAL \in DOMAIN walFiles /\ FirstWAL \in 1..(nextID - 1)
  BY FirstWALPending DEF Pending, IInv, TypeOK, DiskTypes
<1>2. walFiles[FirstWAL] \subseteq EntryTypes /\ writes \in Nat
  BY <1>1 DEF IInv, TypeOK, DiskTypes, HistoryTypes
<1>3. Replay(walFiles[FirstWAL]) \in DataType
  BY <1>2, ReplayFacts
<1>4. \A r \in walFiles[FirstWAL] : Replay(walFiles[FirstWAL])[r.key].seq >= r.seq
  BY <1>2, ReplayFacts
<1>5. Mem(FirstWAL, Replay(walFiles[FirstWAL])) \in MemType
  BY <1>1, <1>3 DEF Mem, MemType
<1> QED BY <1>1, <1>4, <1>5

\* recoverWAL, a file that is not the last.
LEMMA ReplayWALStep == ASSUME IInv, ReplayWAL PROVE IInv'
<1> DEFINE mem == Mem(FirstWAL, Replay(walFiles[FirstWAL]))
<1>1. /\ mode = "opening" /\ flusher = NoThread /\ Pending # {}
      /\ UNCHANGED <<sst, l0, levelTables, nextID, mode, activeMem, immMem, walOpen, flushChan,
                     pc, get, hist, writes, durable, flushes, crashes, faults>>
  BY DEF ReplayWAL, tables, mems, history, bounds
<1>2. /\ FirstWAL \in DOMAIN walFiles /\ mem \in MemType
      /\ mem.id = FirstWAL /\ mem.data = Replay(walFiles[FirstWAL])
      /\ \A r \in walFiles[FirstWAL] : mem.data[r.key].seq >= r.seq
  BY <1>1, RecoveredMem DEF Mem
<1>3. EntryTypes' = EntryTypes /\ DataType' = DataType /\ MemType' = MemType
  BY <1>1 DEF EntryTypes, DataType, MemType
<1>4. ThreadTypes' /\ HistoryTypes'
  BY <1>1, <1>3 DEF IInv, TypeOK, ThreadTypes, HistoryTypes
<1> HIDE DEF mem
<1>5. CASE Count(mem) > 0
  <2>1. /\ flusher' = Opener /\ job' = mem /\ stage' = "build"
        /\ UNCHANGED <<walFiles, replayed, sstID, more>>
    BY <1>5 DEF ReplayWAL, mem
  <2>2. DiskTypes' /\ MemoryTypes' /\ FlagTypes'
    BY <1>1, <1>3, <2>1 DEF IInv, TypeOK, DiskTypes, MemoryTypes, FlagTypes
  <2>3. FlushTypes'
    BY <1>1, <1>2, <1>3, <2>1 DEF IInv, TypeOK, FlushTypes, StageType, Threads
  <2>4. MemsCoverLogs'
    BY <1>1, <1>2, <2>1 DEF IInv, MemsCoverLogs, Covers
  <2>5. LogOwned' /\ EveryWriteOnDisk'
    BY <1>1, <2>1 DEF IInv, LogOwned, EveryWriteOnDisk
  <2>6. BeforeOpen' /\ JobInTables'
    BY <1>1, <2>1, ThreadsAssumption DEF IInv, BeforeOpen, JobInTables, Threads
  <2> QED BY <2>2, <2>3, <2>4, <2>5, <2>6, <1>4 DEF IInv, TypeOK
<1>6. CASE ~(Count(mem) > 0)
  <2>1. /\ walFiles' = [w \in DOMAIN walFiles \ {mem.id} |-> walFiles[w]]
        /\ replayed' = mem.id
        /\ UNCHANGED <<flusher, stage, job, sstID, more>>
    BY <1>6 DEF ReplayWAL, flush, mem
  <2>2. DiskTypes'
    <3>1. DOMAIN walFiles' \subseteq DOMAIN walFiles
      BY <2>1
    <3>2. walFiles' \in [DOMAIN walFiles' -> SUBSET EntryTypes]
      BY <2>1 DEF IInv, TypeOK, DiskTypes
    <3> QED BY <3>1, <3>2, <1>1, <1>3 DEF IInv, TypeOK, DiskTypes
  <2>3. MemoryTypes'
    BY <1>1, <1>2, <1>3, <2>1 DEF IInv, TypeOK, MemoryTypes, MemType
  <2>4. FlushTypes' /\ FlagTypes'
    BY <1>1, <1>3, <2>1 DEF IInv, TypeOK, FlushTypes, FlagTypes
  <2>5. MemsCoverLogs'
    BY <1>1, <2>1 DEF IInv, MemsCoverLogs, Covers
  <2>6. BeforeOpen' /\ JobInTables'
    BY <1>1, <2>1 DEF IInv, BeforeOpen, JobInTables
  <2>7. LogOwned'
    BY <1>1 DEF IInv, LogOwned
  <2>8. EveryWriteOnDisk'
    <3>1. mem.data = EmptyData
      BY <1>2, <1>6, CountZero DEF MemType
    <3>2. walFiles[mem.id] = {}
      <4>1. ASSUME NEW r \in walFiles[mem.id] PROVE FALSE
        <5>1. r \in EntryTypes /\ writes \in Nat
          BY <1>2 DEF IInv, TypeOK, DiskTypes, HistoryTypes
        <5>2. 0 >= r.seq
          BY <1>2, <3>1, <5>1 DEF EmptyData, NoEntry, EntryTypes
        <5> QED BY <5>1, <5>2 DEF EntryTypes
      <4> QED BY <4>1
    <3>3. \A w \in DOMAIN walFiles : walFiles[w] # {} => w \in DOMAIN walFiles' /\ walFiles'[w] = walFiles[w]
      BY <2>1, <3>2
    <3> QED BY <3>3, <1>1 DEF IInv, EveryWriteOnDisk
  <2> QED BY <2>2, <2>3, <2>4, <2>5, <2>6, <2>7, <2>8, <1>4 DEF IInv, TypeOK
<1> QED BY <1>5, <1>6

\* recoverWAL, the last file, and Open without one: the active memtable is the
\* only memtable, and its WAL is open.
LEMMA KeepLastWALStep == ASSUME IInv, KeepLastWAL PROVE IInv'
<1> DEFINE mem == Mem(FirstWAL, Replay(walFiles[FirstWAL]))
<1>1. /\ mode = "opening" /\ mode' = "open" /\ flusher = NoThread /\ Pending # {}
      /\ activeMem' = mem /\ walOpen' = TRUE /\ replayed' = 0
      /\ UNCHANGED <<walFiles, sst, l0, nextID, immMem, levelTables, flushChan,
                     flusher, stage, job, sstID, more, pc, get, hist, writes, durable,
                     flushes, crashes, faults>>
  BY DEF KeepLastWAL, disk, flush, history, bounds
<1>2. /\ FirstWAL \in DOMAIN walFiles /\ mem \in MemType
      /\ mem.id = FirstWAL /\ mem.data = Replay(walFiles[FirstWAL])
      /\ \A r \in walFiles[FirstWAL] : mem.data[r.key].seq >= r.seq
  BY <1>1, RecoveredMem DEF Mem
<1>3. EntryTypes' = EntryTypes /\ DataType' = DataType /\ MemType' = MemType
  BY <1>1 DEF EntryTypes, DataType, MemType
<1> HIDE DEF mem
<1>4. /\ immMem.id = 0 /\ job.id = 0 /\ FirstWAL # 0
  BY <1>1, <1>2 DEF IInv, TypeOK, DiskTypes, BeforeOpen, JobInTables, NoMem, Mem
<1>5. DiskTypes' /\ FlushTypes' /\ ThreadTypes' /\ HistoryTypes'
  BY <1>1, <1>3 DEF IInv, TypeOK, DiskTypes, FlushTypes, ThreadTypes, HistoryTypes
<1>6. MemoryTypes'
  <2>1. 0 \in 0..(nextID - 1)
    BY DEF IInv, TypeOK, DiskTypes
  <2> QED BY <2>1, <1>1, <1>2, <1>3 DEF IInv, TypeOK, MemoryTypes
<1>7. FlagTypes'
  BY <1>1 DEF IInv, TypeOK, FlagTypes
<1>8. MemsCoverLogs' /\ LogOwned'
  BY <1>1, <1>2, <1>4 DEF IInv, MemsCoverLogs, Covers, LogOwned
<1>9. BeforeOpen' /\ JobInTables' /\ EveryWriteOnDisk'
  BY <1>1, ThreadsAssumption DEF IInv, BeforeOpen, JobInTables, EveryWriteOnDisk, Threads
<1> QED BY <1>5, <1>6, <1>7, <1>8, <1>9 DEF IInv, TypeOK

LEMMA OpenFreshStep == ASSUME IInv, OpenFresh PROVE IInv'
<1>1. /\ mode = "opening" /\ mode' = "open" /\ flusher = NoThread
      /\ nextID' = nextID + 1
      /\ activeMem' = Mem(nextID, EmptyData) /\ walOpen' = TRUE /\ replayed' = 0
      /\ walFiles' = [w \in DOMAIN walFiles \cup {nextID} |->
                        IF w = nextID THEN {} ELSE walFiles[w]]
      /\ UNCHANGED <<sst, l0, immMem, levelTables, flushChan, flusher, stage, job, sstID, more,
                     pc, get, hist, writes, durable, flushes, crashes, faults>>
  BY DEF OpenFresh, tables, flush, history, bounds
<1>2. /\ writes \in Nat /\ nextID \in Nat \ {0}
      /\ DOMAIN walFiles \subseteq 1..(nextID - 1)
  BY DEF IInv, TypeOK, DiskTypes, HistoryTypes
<1>3. EntryTypes' = EntryTypes /\ DataType' = DataType /\ MemType \subseteq MemType'
  BY <1>1, <1>2, TypesGrow DEF EntryTypes, DataType
<1>4. immMem = NoMem /\ job = NoMem /\ NoMem.id = 0 /\ 0 \notin DOMAIN walFiles'
  BY <1>1, <1>2 DEF IInv, BeforeOpen, JobInTables, NoMem, Mem
<1>5. DiskTypes'
  <2>1. DOMAIN walFiles' \subseteq 1..(nextID' - 1) /\ nextID' \in Nat \ {0}
    BY <1>1, <1>2
  <2>2. walFiles' \in [DOMAIN walFiles' -> SUBSET EntryTypes']
    BY <1>1, <1>3 DEF IInv, TypeOK, DiskTypes
  <2>3. DOMAIN sst' \subseteq 1..(nextID' - 1)
    BY <1>1, <1>2 DEF IInv, TypeOK, DiskTypes
  <2> QED BY <2>1, <2>2, <2>3, <1>1, <1>3 DEF IInv, TypeOK, DiskTypes
<1>6. MemoryTypes'
  <2>1. activeMem' \in MemType'
    BY <1>1, <1>2, <1>3, EmptyTypes DEF Mem, MemType
  <2> QED BY <2>1, <1>1, <1>2, <1>3 DEF IInv, TypeOK, MemoryTypes
<1>7. FlushTypes' /\ ThreadTypes' /\ HistoryTypes'
  BY <1>1, <1>2, <1>3 DEF IInv, TypeOK, FlushTypes, ThreadTypes, HistoryTypes
<1>8. FlagTypes'
  BY <1>1 DEF IInv, TypeOK, FlagTypes
<1>9. MemsCoverLogs' /\ LogOwned'
  <2>1. activeMem'.id = nextID /\ walFiles'[nextID] = {} /\ nextID \in DOMAIN walFiles'
    BY <1>1 DEF Mem
  <2> QED BY <2>1, <1>1, <1>2, <1>4 DEF MemsCoverLogs, Covers, LogOwned
<1>10. BeforeOpen' /\ JobInTables'
  BY <1>1, ThreadsAssumption DEF IInv, BeforeOpen, JobInTables, Threads
<1>11. EveryWriteOnDisk'
  <2>1. \A w \in DOMAIN walFiles : w \in DOMAIN walFiles' /\ walFiles'[w] = walFiles[w]
    BY <1>1, <1>2
  <2> QED BY <2>1, <1>1 DEF IInv, EveryWriteOnDisk
<1> QED BY <1>5, <1>6, <1>7, <1>8, <1>9, <1>10, <1>11 DEF IInv, TypeOK
-----------------------------------------------------------------------------
LEMMA StutterStep == ASSUME IInv, UNCHANGED vars PROVE IInv'
<1> USE DEF vars, disk, mems, flush, history, bounds
<1>1. EntryTypes' = EntryTypes /\ DataType' = DataType /\ MemType' = MemType
  BY DEF EntryTypes, DataType, MemType
<1>2. DiskTypes' /\ MemoryTypes' /\ FlushTypes' /\ ThreadTypes' /\ FlagTypes' /\ HistoryTypes'
  BY <1>1 DEF IInv, TypeOK, DiskTypes, MemoryTypes, FlushTypes, ThreadTypes, FlagTypes,
              HistoryTypes
<1>3. MemsCoverLogs' /\ LogOwned' /\ BeforeOpen' /\ JobInTables' /\ EveryWriteOnDisk'
  BY DEF IInv, MemsCoverLogs, Covers, LogOwned, BeforeOpen, JobInTables, EveryWriteOnDisk
<1> QED BY <1>2, <1>3 DEF IInv, TypeOK

\* Every step preserves the inductive invariant.
LEMMA NextKeepsIInv == IInv /\ [Next]_vars => IInv'
<1> SUFFICES ASSUME IInv, [Next]_vars PROVE IInv'
  OBVIOUS
<1>1. CASE UNCHANGED vars
  BY <1>1, StutterStep
<1>2. ASSUME NEW c \in Clients, NEW k \in Keys,
             Put(c, k) \/ Delete(c, k) \/ GetFromMem(c, k)
      PROVE  IInv'
  BY <1>2, WriteStep, GetStep DEF Put, Delete, Ops
<1>3. ASSUME NEW c \in Clients, Rotate(c) \/ TriggerFlush(c) PROVE IInv'
  BY <1>3, RotateStep, TriggerFlushStep
<1>4. ASSUME NEW c \in Clients, GetFromDisk(c) \/ GetReturn(c) PROVE IInv'
  BY <1>4, GetStep
<1>5. CASE PeriodicSync \/ WorkerWake
  BY <1>5, PeriodicSyncStep, WorkerWakeStep
<1>6. ASSUME NEW f \in Flushers, FlushCall(f) \/ FlushRerotate(f) PROVE IInv'
  BY <1>6, FlushCallStep, FlushRerotateStep
<1>7. ASSUME NEW t \in Flushers \cup {Worker}, FlushLock(t) PROVE IInv'
  BY <1>7, FlushLockStep
<1>8. CASE FlushStep
  BY <1>8, FlushBuildStep, FlushCommitStep, FlushInstallStep, FlushClearStep, FlushUnlinkStep,
     FlushFailStep, OpenFailStep DEF FlushStep
<1>9. CASE Crash
  BY <1>9, CrashStep
<1>10. CASE Recover
  BY <1>10, OpenStartStep, ReplayWALStep, KeepLastWALStep, OpenFreshStep DEF Recover
<1> QED
  BY <1>1, <1>2, <1>3, <1>4, <1>5, <1>6, <1>7, <1>8, <1>9, <1>10 DEF Next

\* The inductive invariant holds of every reachable state.
THEOREM Invariance == Spec => []IInv
<1>1. Init => IInv
  BY InitIInv
<1>2. IInv /\ [Next]_vars => IInv'
  BY NextKeepsIInv
<1> QED BY <1>1, <1>2, PTL DEF Spec

\* Every variable keeps its type, and no id is used that was not issued.
THEOREM TypeCorrect == Spec => []TypeOK
<1>1. IInv => TypeOK
  BY DEF IInv
<1> QED BY <1>1, Invariance, PTL

\* No write is ever lost from the disk: whatever is flushed, fails, crashes or
\* is recovered, a WAL file is removed (engine.go:214, 568) only when level 0
\* has each of its writes or a newer one of the same key.
THEOREM NoWriteLost == Spec => []EveryWriteOnDisk
<1>1. IInv => EveryWriteOnDisk
  BY DEF IInv
<1> QED BY <1>1, Invariance, PTL
-----------------------------------------------------------------------------
\* From the moment Open has loaded the manifest, readers search its level 0.
TablesLoaded == mode # "down" /\ stage # "install" => levelTables = l0

LEMMA NextKeepsTables ==
    ASSUME IInv, TablesLoaded, [Next]_vars
    PROVE  TablesLoaded'
<1> USE DEF TablesLoaded
<1>1. CASE UNCHANGED vars
  BY <1>1 DEF vars, disk, flush
<1>2. ASSUME NEW c \in Clients, NEW k \in Keys,
             Put(c, k) \/ Delete(c, k) \/ GetFromMem(c, k)
      PROVE  TablesLoaded'
  BY <1>2 DEF Put, Delete, Write, GetFromMem, tables, disk, flush
<1>3. ASSUME NEW c \in Clients,
             Rotate(c) \/ TriggerFlush(c) \/ GetFromDisk(c) \/ GetReturn(c)
      PROVE  TablesLoaded'
  BY <1>3 DEF Rotate, TriggerFlush, GetFromDisk, GetReturn, tables, disk, flush
<1>4. CASE PeriodicSync \/ WorkerWake
  BY <1>4 DEF PeriodicSync, WorkerWake, disk, flush
<1>5. ASSUME NEW f \in Flushers, FlushCall(f) \/ FlushRerotate(f)
      PROVE  TablesLoaded'
  BY <1>5 DEF FlushCall, FlushRerotate, tables, flush
<1>6. ASSUME NEW t \in Flushers \cup {Worker}, FlushLock(t) PROVE TablesLoaded'
  <2>1. stage = "none" /\ UNCHANGED <<l0, levelTables, mode>>
    BY <1>6 DEF FlushLock, disk, IInv, JobInTables
  <2> QED BY <2>1
<1>7. CASE FlushBuild \/ FlushCommit \/ FlushInstall \/ FlushClear \/ FlushUnlink
  BY <1>7 DEF FlushBuild, FlushCommit, FlushInstall, FlushClear, FlushUnlink, tables, disk,
              ReleaseFlushLock
<1>8. CASE FlushFail \/ OpenFail
  BY <1>8 DEF FlushFail, OpenFail, BuildFails
<1>9. CASE Crash
  BY <1>9 DEF Crash
<1>10. CASE Recover
  BY <1>10 DEF Recover, OpenStart, ReplayWAL, KeepLastWAL, OpenFresh, tables, disk, flush,
     IInv, JobInTables
<1> QED
  BY <1>1, <1>2, <1>3, <1>4, <1>5, <1>6, <1>7, <1>8, <1>9, <1>10 DEF Next, FlushStep

\* Readers search exactly the tables that the manifest has committed, but for the one
\* that is being installed, whoever flushes and whatever fails (engine.go: the manifest
\* is changed under its own lock, the readers' levels under readersMu).
THEOREM TablesMatch == Spec => []TablesMatchManifest
<1>1. Init => TablesLoaded
  BY DEF Init, TablesLoaded
<1>2. IInv /\ TablesLoaded /\ [Next]_vars => TablesLoaded'
  BY NextKeepsTables
<1>3. TablesLoaded => TablesMatchManifest
  BY DEF TablesLoaded, TablesMatchManifest
<1> QED BY <1>1, <1>2, <1>3, Invariance, PTL DEF Spec
-----------------------------------------------------------------------------
\* Flush rotates without looking at the immutable memtable again, and a WAL that stays
\* is replayed on top of newer tables: neither is covered here, since the engine does
\* not implement the store then (see EngineFlushLoses).
NoFlushes     == Flushers = {}
LogsAreRemoved == "remove" \notin FaultKinds
-----------------------------------------------------------------------------
\* Whatever is kept anywhere is a write that no crash has cut off, ...
InHist(data) == \A k \in Keys : data[k] # NoEntry => data[k] \in hist /\ data[k].key = k

AllInHist ==
    /\ \A r, q \in hist : r.seq = q.seq => r = q
    /\ \A w \in DOMAIN walFiles : walFiles[w] \subseteq hist
    /\ InHist(activeMem.data) /\ InHist(immMem.data) /\ InHist(job.data)
    /\ \A i \in 1..Len(l0) : InHist(sst[l0[i]])

\* ... and no crash can cut off what is immutable or in a table.
OnDisk(data) == \A k \in Keys : data[k].seq <= durable

SafeFromCrash ==
    /\ OnDisk(immMem.data) /\ OnDisk(job.data)
    /\ \A i \in 1..Len(l0) : OnDisk(sst[l0[i]])
    /\ mode # "open" => \A r \in hist : r.seq <= durable
    /\ SyncAlways => durable = writes

\* A memtable has only what its log has, if that is there.
HasLogged(mem) ==
    mem.id \in DOMAIN walFiles =>
        \A k \in Keys : mem.data[k] # NoEntry => mem.data[k] \in walFiles[mem.id]

MemsAreLogged == HasLogged(activeMem) /\ HasLogged(immMem) /\ HasLogged(job)

\* The order of writes is that of the logs, ...
LogsInOrder ==
    \A v, w \in DOMAIN walFiles : v < w =>
        \A r \in walFiles[v], q \in walFiles[w] : r.seq < q.seq

\* ... of the tables of level 0, ...
Below(data, above) ==
    \A k \in Keys : above[k] # NoEntry => data[k].seq <= above[k].seq

TablesInOrder == \A j \in 1..Len(l0) : \A i \in 1..j : Below(sst[l0[i]], sst[l0[j]])

\* ... of tables and logs, unless the table has been made of the log, ...
TablesBelowLogs ==
    \A i \in 1..Len(l0), w \in DOMAIN walFiles : \A r \in walFiles[w] :
        sst[l0[i]][r.key].seq >= r.seq => sst[l0[i]][r.key] \in walFiles[w]

\* ... of tables and memtables, and of the memtables with their logs.
MemsInOrder ==
    /\ Below(immMem.data, activeMem.data)
    /\ \A i \in 1..Len(l0) : /\ Below(sst[l0[i]], activeMem.data)
                             /\ Below(sst[l0[i]], immMem.data)
    /\ activeMem.id # immMem.id /\ activeMem.id \in DOMAIN walFiles =>
         \A k \in Keys, r \in walFiles[activeMem.id] : immMem.data[k].seq < r.seq

\* Once Open is done there is a log for each memtable and no other, but for the one
\* that is about to be removed; the one that is written to is the last.
LogsOfMems ==
    /\ mode = "open" => \A w \in DOMAIN walFiles :
         w \in {activeMem.id, immMem.id} \/ (stage = "unlink" /\ w = job.id)
    /\ walOpen => \A w \in DOMAIN walFiles : w <= activeMem.id

\* What the worker flushes is the immutable memtable, until it clears it; a writer that
\* is about to rotate has seen that there is none, and still holds mu.
FlushesImm ==
    /\ flusher \in {NoThread, Worker, Opener}
    /\ flusher = Worker /\ stage # "unlink" => immMem = job /\ job # NoMem
    /\ \A c \in Clients : pc[c] = "rotate" =>
         immMem = NoMem /\ \A d \in Clients : pc[d] = "rotate" => d = c

\* Recovery goes through the logs from the first to the last.
RecoversInOrder ==
    /\ \A w \in DOMAIN walFiles : replayed < w
    /\ flusher = Opener => /\ mode = "opening"
                           /\ job.id \in DOMAIN walFiles
                           /\ \A w \in DOMAIN walFiles : job.id <= w
    /\ mode # "opening" => replayed = 0

\* Readers search the tables of the manifest but for the one that is being installed.
TablesShown ==
    mode # "down" => IF stage = "install" THEN l0 = Append(levelTables, sstID)
                                          ELSE levelTables = l0

\* While the engine is open nothing is found on disk only in a log.
AllInView ==
    mode = "open" => \A r \in hist :
        \/ activeMem.data[r.key].seq >= r.seq
        \/ immMem.data[r.key].seq >= r.seq
        \/ \E i \in 1..Len(levelTables) : sst[levelTables[i]][r.key].seq >= r.seq

\* A Get that has missed its key in the memtables finds it in the tables, whatever is
\* flushed until it looks there.
GetsWait ==
    \A c \in Clients : pc[c] = "disk" =>
        /\ get[c] \in [key : Keys, floor : 0..writes, got : {NoEntry}]
        /\ FindInL0(levelTables, get[c].key).seq >= get[c].floor

\* The inductive invariant, together with IInv.
RInv ==
    /\ AllInHist /\ SafeFromCrash /\ MemsAreLogged
    /\ LogsInOrder /\ TablesInOrder /\ TablesBelowLogs /\ MemsInOrder
    /\ LogsOfMems /\ FlushesImm /\ RecoversInOrder /\ TablesShown
    /\ AllInView /\ GetsWait /\ GetsAreFresh
    /\ writes <= MaxWrites

\* What a reader finds, or recovery rebuilds, is the newest write of each key.
ViewIsNewest == \A k \in Keys : View[k] = Newest(hist, k)
-----------------------------------------------------------------------------
\* The newest of a set of writes is the one that no other of its key exceeds.
LEMMA NewestIs ==
    ASSUME NEW S, \A r \in S : r.seq \in Nat, \A r, q \in S : r.seq = q.seq => r = q,
           NEW e \in S, \A r \in S : r.key = e.key => r.seq <= e.seq
    PROVE  Newest(S, e.key) = e
<1> DEFINE R == {r \in S : r.key = e.key}
           n == CHOOSE r \in R : \A q \in R : q.seq <= r.seq
<1>1. e \in R /\ \A q \in R : q.seq <= e.seq
  OBVIOUS
<1>2. n \in R /\ \A q \in R : q.seq <= n.seq
  BY <1>1
<1>3. n \in S /\ n.seq <= e.seq /\ e.seq <= n.seq /\ n.seq \in Nat /\ e.seq \in Nat
  BY <1>1, <1>2
<1>4. n = e
  BY <1>3
<1> QED BY <1>1, <1>4 DEF Newest

\* ... and there is none if no write has the key.
LEMMA NewestIsNone ==
    ASSUME NEW S, NEW k, \A r \in S : r.key # k
    PROVE  Newest(S, k) = NoEntry
BY DEF Newest

\* What the types say, where the proofs below need it.
LEMMA TypeFacts ==
    ASSUME IInv
    PROVE  /\ writes \in Nat /\ nextID \in Nat \ {0} /\ hist \subseteq EntryTypes
           /\ durable \in 0..writes /\ MaxWrites \in Nat /\ SyncAlways \in BOOLEAN
           /\ DOMAIN walFiles \subseteq 1..(nextID - 1) /\ replayed \in 0..(nextID - 1)
           /\ walFiles \in [DOMAIN walFiles -> SUBSET EntryTypes]
           /\ activeMem \in MemType /\ immMem \in MemType /\ job \in MemType
           /\ sst \in [DOMAIN sst -> DataType]
           /\ l0 \in Seq(DOMAIN sst) /\ levelTables \in Seq(DOMAIN sst)
           /\ \A i \in 1..Len(l0) : sst[l0[i]] \in DataType
           /\ \A i \in 1..Len(levelTables) : sst[levelTables[i]] \in DataType
<1>1. /\ writes \in Nat /\ nextID \in Nat \ {0} /\ hist \subseteq EntryTypes
      /\ durable \in 0..writes /\ MaxWrites \in Nat /\ SyncAlways \in BOOLEAN
  BY BoundsAssumption, PolicyAssumption DEF IInv, TypeOK, DiskTypes, HistoryTypes
<1>2. /\ DOMAIN walFiles \subseteq 1..(nextID - 1) /\ replayed \in 0..(nextID - 1)
      /\ walFiles \in [DOMAIN walFiles -> SUBSET EntryTypes]
      /\ activeMem \in MemType /\ immMem \in MemType /\ job \in MemType
  BY DEF IInv, TypeOK, DiskTypes, MemoryTypes, FlushTypes
<1>3. /\ sst \in [DOMAIN sst -> DataType]
      /\ l0 \in Seq(DOMAIN sst) /\ levelTables \in Seq(DOMAIN sst)
  BY DEF IInv, TypeOK, DiskTypes, MemoryTypes
<1> QED BY <1>1, <1>2, <1>3

\* A search of tables finds the entry of the last one that has the key.
LEMMA FindInL0Facts ==
    ASSUME NEW ts \in Seq(DOMAIN sst), NEW k
    PROVE  \/ /\ FindInL0(ts, k) = NoEntry
              /\ \A i \in 1..Len(ts) : sst[ts[i]][k] = NoEntry
           \/ \E m \in 1..Len(ts) :
                 /\ FindInL0(ts, k) = sst[ts[m]][k] /\ sst[ts[m]][k] # NoEntry
                 /\ \A i \in 1..Len(ts) : sst[ts[i]][k] # NoEntry => i <= m
<1> DEFINE Hits == {i \in 1..Len(ts) : sst[ts[i]][k] # NoEntry}
<1>1. CASE Hits = {}
  BY <1>1 DEF FindInL0
<1>2. CASE Hits # {}
  <2>1. Hits \in SUBSET Nat /\ Len(ts) \in Nat /\ \A i \in Hits : i <= Len(ts)
    OBVIOUS
  <2>2. \E m \in Hits : \A i \in Hits : i <= m
    <3> HIDE DEF Hits
    <3> QED BY <1>2, <2>1, MaxExists
  <2>3. /\ (CHOOSE i \in Hits : \A j \in Hits : j <= i) \in Hits
        /\ \A j \in Hits : j <= (CHOOSE i \in Hits : \A j2 \in Hits : j2 <= i)
    BY <2>2
  <2> QED BY <1>2, <2>3 DEF FindInL0
<1> QED BY <1>1, <1>2

\* Entries of well-typed contents.
LEMMA DataFacts ==
    ASSUME writes \in Nat, NEW data \in DataType, NEW k \in Keys
    PROVE  /\ data[k] \in EntryTypes \cup {NoEntry} /\ data[k].seq \in 0..writes
           /\ data[k] = NoEntry <=> data[k].seq = 0
BY DEF DataType, EntryTypes, NoEntry
-----------------------------------------------------------------------------
\* The tables have the newest write of a key if none is anywhere else.
LEMMA NewestInTables ==
    ASSUME IInv, RInv, NEW k \in Keys,
           NEW ts \in Seq(DOMAIN sst), Len(ts) <= Len(l0), \A i \in 1..Len(ts) : ts[i] = l0[i],
           \A r \in hist : r.key = k => \E i \in 1..Len(ts) : sst[ts[i]][k].seq >= r.seq
    PROVE  FindInL0(ts, k) = Newest(hist, k)
<1>1. /\ writes \in Nat /\ hist \subseteq EntryTypes /\ Len(l0) \in Nat /\ Len(ts) \in Nat
      /\ sst \in [DOMAIN sst -> DataType]
  BY DEF IInv, TypeOK, DiskTypes, HistoryTypes
<1>2. /\ \A i \in 1..Len(ts) : InHist(sst[ts[i]])
      /\ \A r, q \in hist : r.seq = q.seq => r = q
  BY <1>1 DEF RInv, AllInHist
<1>3. \A i \in 1..Len(ts) : sst[ts[i]] \in DataType
  BY <1>1
<1>4. \A i \in 1..Len(ts) :
         sst[ts[i]][k].seq \in Nat /\ (sst[ts[i]][k] = NoEntry => sst[ts[i]][k].seq = 0)
  BY <1>1, <1>3, DataFacts
<1>5. \A r \in hist : r.seq \in Nat /\ r.seq > 0
  BY <1>1 DEF EntryTypes
<1>6. CASE /\ FindInL0(ts, k) = NoEntry
           /\ \A i \in 1..Len(ts) : sst[ts[i]][k] = NoEntry
  <2>1. \A r \in hist : r.key # k
    BY <1>4, <1>5, <1>6
  <2> QED BY <1>6, <2>1, NewestIsNone
<1>7. ASSUME NEW m \in 1..Len(ts),
             FindInL0(ts, k) = sst[ts[m]][k], sst[ts[m]][k] # NoEntry,
             \A i \in 1..Len(ts) : sst[ts[i]][k] # NoEntry => i <= m
      PROVE  FindInL0(ts, k) = Newest(hist, k)
  <2> DEFINE e == sst[ts[m]][k]
  <2>1. e \in hist /\ e.key = k /\ e.seq \in Nat
    BY <1>2, <1>4, <1>7 DEF InHist
  <2>2. ASSUME NEW i \in 1..Len(ts) PROVE sst[ts[i]][k].seq <= e.seq
    <3>1. CASE i <= m
      BY <1>1, <1>7, <3>1, SMTT(30) DEF RInv, TablesInOrder, Below
    <3>2. CASE ~(i <= m)
      BY <1>4, <1>7, <2>1, <3>2
    <3> QED BY <3>1, <3>2
  <2>3. ASSUME NEW r \in hist, r.key = k PROVE r.seq <= e.seq
    BY <1>4, <1>5, <2>1, <2>2, <2>3
  <2>4. Newest(hist, e.key) = e
    <3> HIDE DEF e
    <3> QED BY <1>2, <1>5, <2>1, <2>3, NewestIs
  <2> QED BY <1>7, <2>1, <2>4
<1> QED BY <1>6, <1>7, FindInL0Facts

\* A reader finds the newest write.
LEMMA FoundIsNewest ==
    ASSUME IInv, RInv, mode = "open", NEW k \in Keys
    PROVE  Found(k) = Newest(hist, k)
<1>1. /\ writes \in Nat /\ hist \subseteq EntryTypes
      /\ activeMem.data \in DataType /\ immMem.data \in DataType
      /\ sst \in [DOMAIN sst -> DataType] /\ levelTables \in Seq(DOMAIN sst) /\ l0 \in Seq(DOMAIN sst)
  BY DEF IInv, TypeOK, DiskTypes, MemoryTypes, HistoryTypes, MemType
<1>2. /\ InHist(activeMem.data) /\ InHist(immMem.data)
      /\ \A i \in 1..Len(l0) : InHist(sst[l0[i]])
      /\ \A r, q \in hist : r.seq = q.seq => r = q
  BY DEF RInv, AllInHist
<1>3. Len(levelTables) \in Nat /\ Len(levelTables) <= Len(l0) /\ \A i \in 1..Len(levelTables) : levelTables[i] = l0[i]
  BY <1>1 DEF RInv, TablesShown, FlushTypes, IInv, TypeOK
<1>4. \A i \in 1..Len(levelTables) : sst[levelTables[i]] \in DataType
  BY <1>1
<1>5. ASSUME NEW r \in hist, r.key = k
      PROVE  \/ activeMem.data[k].seq >= r.seq
             \/ immMem.data[k].seq >= r.seq
             \/ \E i \in 1..Len(levelTables) : sst[levelTables[i]][k].seq >= r.seq
  BY <1>5 DEF RInv, AllInView
<1>6. \A r \in hist : r.seq \in 1..writes
  BY <1>1 DEF EntryTypes
<1>7. ASSUME NEW d \in DataType
      PROVE  d[k].seq \in Nat /\ (d[k] = NoEntry => d[k].seq = 0)
  BY <1>1, <1>7, DataFacts
<1>8. ASSUME NEW e \in hist, e.key = k, \A r \in hist : r.key = k => r.seq <= e.seq
      PROVE  Newest(hist, k) = e
  <2>1. \A r \in hist : r.seq \in Nat
    BY <1>1, <1>6
  <2> QED BY <2>1, <1>2, <1>8, NewestIs
<1>9. CASE activeMem.data[k] # NoEntry
  <2> DEFINE e == activeMem.data[k]
  <2>1. e \in hist /\ e.key = k /\ Found(k) = e /\ e.seq \in Nat
    BY <1>1, <1>2, <1>7, <1>9 DEF InHist, Found, FindInMem
  <2>2. /\ immMem.data[k].seq <= e.seq
        /\ \A i \in 1..Len(levelTables) : sst[levelTables[i]][k].seq <= e.seq
    BY <1>3, <1>9 DEF RInv, MemsInOrder, Below
  <2>3. ASSUME NEW r \in hist, r.key = k PROVE r.seq <= e.seq
    <3>1. /\ r.seq \in Nat /\ immMem.data[k].seq \in Nat
          /\ \A i \in 1..Len(levelTables) : sst[levelTables[i]][k].seq \in Nat
      BY <1>1, <1>4, <1>6, <1>7
    <3> QED BY <1>5, <2>1, <2>2, <2>3, <3>1
  <2> QED BY <1>8, <2>1, <2>3
<1>10. CASE activeMem.data[k] = NoEntry /\ immMem.data[k] # NoEntry
  <2> DEFINE e == immMem.data[k]
  <2>1. e \in hist /\ e.key = k /\ Found(k) = e /\ e.seq \in Nat
    BY <1>1, <1>2, <1>7, <1>10 DEF InHist, Found, FindInMem
  <2>2. /\ activeMem.data[k].seq = 0
        /\ \A i \in 1..Len(levelTables) : sst[levelTables[i]][k].seq <= e.seq
    BY <1>1, <1>3, <1>7, <1>10, SMTT(30) DEF RInv, MemsInOrder, Below
  <2>3. ASSUME NEW r \in hist, r.key = k PROVE r.seq <= e.seq
    <3>1. /\ r.seq \in Nat /\ r.seq > 0
          /\ \A i \in 1..Len(levelTables) : sst[levelTables[i]][k].seq \in Nat
      BY <1>1, <1>4, <1>6, <1>7
    <3>2. CASE e.seq >= r.seq
      BY <2>1, <3>1, <3>2
    <3>3. CASE \E i \in 1..Len(levelTables) : sst[levelTables[i]][k].seq >= r.seq
      <4> HIDE DEF e
      <4> QED BY <2>1, <2>2, <3>1, <3>3
    <3> QED BY <1>5, <2>2, <2>3, <3>1, <3>2, <3>3
  <2> QED BY <1>8, <2>1, <2>3
<1>11. CASE activeMem.data[k] = NoEntry /\ immMem.data[k] = NoEntry
  <2>1. /\ activeMem.data[k].seq = 0 /\ immMem.data[k].seq = 0
        /\ Found(k) = FindInL0(levelTables, k)
    BY <1>1, <1>7, <1>11 DEF Found, FindInMem
  <2>2. ASSUME NEW r \in hist, r.key = k
        PROVE  \E i \in 1..Len(levelTables) : sst[levelTables[i]][k].seq >= r.seq
    BY <1>1, <1>5, <1>6, <2>1, <2>2
  <2> QED BY <1>1, <1>3, <2>1, <2>2, NewestInTables
<1> QED BY <1>9, <1>10, <1>11

\* The newest record of a log is one of its records.
LEMMA NewestInLog ==
    ASSUME writes \in Nat, NEW S, S \subseteq EntryTypes, NEW k \in Keys
    PROVE  /\ Newest(S, k) \in EntryTypes \cup {NoEntry}
           /\ Newest(S, k) # NoEntry => Newest(S, k) \in S /\ Newest(S, k).key = k
           /\ \A r \in S : r.key = k => Newest(S, k).seq >= r.seq /\ Newest(S, k) # NoEntry
<1> DEFINE R == {r \in S : r.key = k}
<1>1. /\ Newest(S, k) \in EntryTypes \cup {NoEntry}
      /\ \A r \in S : r.key = k => Newest(S, k).seq >= r.seq
  BY NewestFacts DEF EntryTypes
<1>2. ASSUME NEW r \in S, r.key = k PROVE Newest(S, k) # NoEntry
  BY <1>1, <1>2 DEF EntryTypes, NoEntry
<1>3. ASSUME Newest(S, k) # NoEntry PROVE Newest(S, k) \in R
  <2>1. R # {}
    BY <1>3 DEF Newest
  <2>2. {r.seq : r \in R} \in SUBSET Nat /\ {r.seq : r \in R} # {} /\ \A n \in {r.seq : r \in R} : n <= writes
    BY <2>1 DEF EntryTypes
  <2>3. PICK m \in {r.seq : r \in R} : \A n \in {r.seq : r \in R} : n <= m
    <3> DEFINE N == {r.seq : r \in R}
    <3> HIDE DEF N
    <3> QED BY <2>2, MaxExists DEF N
  <2>4. \E r \in R : \A q \in R : q.seq <= r.seq
    BY <2>3
  <2> QED BY <2>1, <2>4 DEF Newest
<1> QED BY <1>1, <1>2, <1>3

\* Recovery rebuilds the newest write.
LEMMA RebuiltIsNewest ==
    ASSUME IInv, RInv, mode # "open", NEW k \in Keys
    PROVE  Rebuilt(k) = Newest(hist, k)
<1> DEFINE Holding == {w \in Pending : Newest(walFiles[w], k) # NoEntry}
<1>1. /\ writes \in Nat /\ hist \subseteq EntryTypes /\ nextID \in Nat
      /\ DOMAIN walFiles \subseteq 1..(nextID - 1)
      /\ sst \in [DOMAIN sst -> DataType] /\ l0 \in Seq(DOMAIN sst)
  BY DEF IInv, TypeOK, DiskTypes, HistoryTypes
<1>2. Pending = DOMAIN walFiles
  BY DEF Pending, RInv, RecoversInOrder
<1>3. \A w \in DOMAIN walFiles : walFiles[w] \subseteq EntryTypes
  BY DEF IInv, TypeOK, DiskTypes
<1>4. ASSUME NEW w \in DOMAIN walFiles, NEW r \in walFiles[w], r.key = k
      PROVE  w \in Holding /\ Newest(walFiles[w], k).seq >= r.seq
  BY <1>1, <1>2, <1>3, <1>4, NewestInLog
<1>5. CASE Holding = {}
  <2>1. \A r \in hist : r.key = k => \E i \in 1..Len(l0) : sst[l0[i]][k].seq >= r.seq
    BY <1>4, <1>5 DEF IInv, EveryWriteOnDisk
  <2>2. Len(l0) <= Len(l0)
    BY <1>1
  <2> QED BY <1>1, <1>5, <2>1, <2>2, NewestInTables DEF Rebuilt
<1>6. CASE Holding # {}
  <2>1. Holding \in SUBSET Nat /\ \A w \in Holding : w <= nextID
    BY <1>1, <1>2
  <2>2. \E m \in Holding : \A v \in Holding : v <= m
    <3> HIDE DEF Holding
    <3> QED BY <1>1, <1>6, <2>1, MaxExists
  <2> DEFINE m == CHOOSE w \in Holding : \A v \in Holding : v <= w
             e == Newest(walFiles[m], k)
  <2>3. m \in Holding /\ \A v \in Holding : v <= m
    BY <2>2
  <2>4. Rebuilt(k) = e
    BY <1>6 DEF Rebuilt
  <2> HIDE DEF m
  <2>5. /\ m \in DOMAIN walFiles /\ m \in Nat /\ e \in walFiles[m] /\ e.key = k
        /\ \A r \in walFiles[m] : r.key = k => r.seq <= e.seq
    BY <1>1, <1>2, <1>3, <2>1, <2>3, NewestInLog DEF EntryTypes
  <2> HIDE DEF e
  <2>6. e \in hist /\ e.seq \in Nat
    BY <1>1, <2>5 DEF RInv, AllInHist, EntryTypes
  <2>7. ASSUME NEW r \in hist, r.key = k PROVE r.seq <= e.seq
    <3>1. r.seq \in Nat
      BY <1>1 DEF EntryTypes
    <3>2. ASSUME NEW w \in DOMAIN walFiles, r \in walFiles[w] PROVE r.seq <= e.seq
      <4>1. w <= m /\ w \in Nat
        BY <1>1, <1>4, <2>3, <2>7, <3>2
      <4>2. CASE w = m
        BY <2>5, <2>7, <3>2, <4>2
      <4>3. CASE w < m
        BY <2>5, <2>6, <3>1, <3>2, <4>3 DEF RInv, LogsInOrder
      <4> QED BY <2>5, <4>1, <4>2, <4>3
    <3>3. ASSUME NEW i \in 1..Len(l0), sst[l0[i]][k].seq >= r.seq PROVE r.seq <= e.seq
      <4> DEFINE s == sst[l0[i]][k]
      <4>1. sst[l0[i]] \in DataType /\ InHist(sst[l0[i]])
        BY <1>1 DEF RInv, AllInHist
      <4>2. s.seq \in Nat /\ (s = NoEntry <=> s.seq = 0)
        BY <1>1, <4>1, DataFacts
      <4>3. CASE s.seq >= e.seq
        <5>1. s \in walFiles[m]
          BY <2>5, <4>3 DEF RInv, TablesBelowLogs
        <5>2. s \in EntryTypes
          BY <1>3, <2>5, <5>1
        <5>3. s.key = k
          BY <4>1, <4>2, <5>2 DEF InHist, EntryTypes
        <5> QED BY <2>5, <2>6, <3>1, <3>3, <4>2, <5>1, <5>3
      <4> QED BY <2>6, <3>1, <3>3, <4>2, <4>3
    <3> QED BY <2>7, <3>2, <3>3 DEF IInv, EveryWriteOnDisk
  <2>8. \A r \in hist : r.seq \in Nat
    BY <1>1 DEF EntryTypes
  <2> QED BY <2>4, <2>5, <2>6, <2>7, <2>8, NewestIs DEF RInv, AllInHist
<1> QED BY <1>5, <1>6

LEMMA ViewFacts == IInv /\ RInv => ViewIsNewest
BY FoundIsNewest, RebuiltIsNewest DEF ViewIsNewest, View
-----------------------------------------------------------------------------
\* The initial state satisfies the invariant.
LEMMA InitRInv == Init => RInv
<1> SUFFICES ASSUME Init PROVE RInv
  OBVIOUS
<1> USE DEF Init
<1>1. \A k \in Keys : NoMem.data[k] = NoEntry /\ NoEntry.seq = 0
  BY DEF NoMem, Mem, EmptyData, NoEntry
<1>2. AllInHist /\ SafeFromCrash /\ MemsAreLogged
  BY <1>1 DEF AllInHist, InHist, SafeFromCrash, OnDisk, MemsAreLogged, HasLogged
<1>3. LogsInOrder /\ TablesInOrder /\ TablesBelowLogs /\ MemsInOrder
  BY <1>1 DEF LogsInOrder, TablesInOrder, TablesBelowLogs, MemsInOrder, Below
<1>4. LogsOfMems /\ FlushesImm /\ RecoversInOrder /\ TablesShown /\ AllInView
  BY ThreadsAssumption
     DEF LogsOfMems, FlushesImm, RecoversInOrder, TablesShown, AllInView, Threads
<1>5. GetsWait /\ GetsAreFresh /\ writes <= MaxWrites
  BY BoundsAssumption DEF GetsWait, GetsAreFresh, Threads
<1> QED BY <1>2, <1>3, <1>4, <1>5 DEF RInv

\* A Get at the tables waits for tables that it will find what it misses in.
LEMMA SameTables ==
    ASSUME UNCHANGED <<sst, levelTables>>
    PROVE  \A k : FindInL0(levelTables, k)' = FindInL0(levelTables, k)
BY DEF FindInL0

LEMMA GetsWaitKept ==
    ASSUME GetsWait, UNCHANGED <<sst, levelTables, writes>>,
           \A c \in Clients : pc'[c] = "disk" => pc[c] = "disk" /\ get'[c] = get[c]
    PROVE  GetsWait'
BY SameTables DEF GetsWait

\* Steps that change nothing but where threads are, what is durable and what Gets know.
LEMMA QuietRStep ==
    ASSUME IInv, RInv,
           UNCHANGED <<walFiles, sst, l0, mode, replayed, mems, levelTables, flush, hist, writes>>,
           durable' \in {durable, writes}, GetsWait', GetsAreFresh',
           \A c \in Clients : pc'[c] = "rotate" => pc[c] = "rotate"
    PROVE  RInv'
<1> USE DEF mems, flush
<1>1. AllInHist' /\ MemsAreLogged' /\ LogsInOrder' /\ TablesInOrder' /\ TablesBelowLogs'
  BY DEF RInv, AllInHist, InHist, MemsAreLogged, HasLogged, LogsInOrder, TablesInOrder,
         Below, TablesBelowLogs
<1>2. MemsInOrder' /\ LogsOfMems' /\ RecoversInOrder' /\ TablesShown' /\ AllInView'
  BY DEF RInv, MemsInOrder, Below, LogsOfMems, RecoversInOrder, TablesShown, AllInView
<1>3. FlushesImm'
  BY DEF RInv, FlushesImm
<1>4. SafeFromCrash'
  <2>1. CASE durable' = durable
    BY <2>1 DEF RInv, SafeFromCrash, OnDisk
  <2>2. CASE durable' = writes
    <3>1. immMem.data \in DataType /\ job.data \in DataType /\ hist \subseteq EntryTypes
          /\ writes \in Nat
      BY DEF IInv, TypeOK, MemoryTypes, FlushTypes, HistoryTypes, MemType
    <3>2. \A i \in 1..Len(l0) : sst[l0[i]] \in DataType
      BY DEF IInv, TypeOK, DiskTypes
    <3>3. OnDisk(immMem.data)' /\ OnDisk(job.data)'
      BY <2>2, <3>1, DataFacts DEF OnDisk
    <3>4. \A i \in 1..Len(l0) : OnDisk(sst[l0[i]])'
      BY <2>2, <3>1, <3>2, DataFacts DEF OnDisk
    <3> QED BY <2>2, <3>1, <3>3, <3>4 DEF SafeFromCrash, EntryTypes
  <2> QED BY <2>1, <2>2
<1> QED BY <1>1, <1>2, <1>3, <1>4 DEF RInv

LEMMA TriggerFlushR == ASSUME IInv, RInv, NEW c \in Clients, TriggerFlush(c) PROVE RInv'
<1>1. /\ UNCHANGED <<sst, levelTables, writes>>
      /\ \A d \in Clients : /\ pc'[d] = pc[d] \/ pc'[d] = "idle"
                          /\ get'[d] = get[d]
  BY DEF TriggerFlush, disk, IInv, TypeOK, ThreadTypes, Threads, history
<1>2. GetsWait' /\ GetsAreFresh'
  BY <1>1, GetsWaitKept DEF RInv, GetsAreFresh
<1> QED BY <1>1, <1>2, QuietRStep DEF TriggerFlush, disk, history

LEMMA PeriodicSyncR == ASSUME IInv, RInv, PeriodicSync PROVE RInv'
<1>1. /\ UNCHANGED <<sst, levelTables, writes>>
      /\ \A d \in Clients : /\ pc'[d] = pc[d] \/ pc'[d] = "idle"
                          /\ get'[d] = get[d]
  BY DEF PeriodicSync, disk, IInv, TypeOK, ThreadTypes, Threads
<1>2. GetsWait' /\ GetsAreFresh'
  BY <1>1, GetsWaitKept DEF RInv, GetsAreFresh
<1> QED BY <1>1, <1>2, QuietRStep DEF PeriodicSync, disk

LEMMA WorkerWakeR == ASSUME IInv, RInv, WorkerWake PROVE RInv'
<1>1. /\ UNCHANGED <<sst, levelTables, writes>>
      /\ \A d \in Clients : /\ pc'[d] = pc[d] \/ pc'[d] = "idle"
                          /\ get'[d] = get[d]
  BY ThreadsAssumption DEF WorkerWake, disk, IInv, TypeOK, ThreadTypes, Threads, history
<1>2. GetsWait' /\ GetsAreFresh'
  BY <1>1, GetsWaitKept DEF RInv, GetsAreFresh
<1> QED BY <1>1, <1>2, QuietRStep DEF WorkerWake, disk, history

\* A Get that misses its key in the memtables would find the newest write in the tables.
LEMMA GetFromMemR ==
    ASSUME IInv, RInv, NEW c \in Clients, NEW k \in Keys, GetFromMem(c, k)
    PROVE  RInv'
<1> DEFINE e == FindInMem(k)
           g == [key |-> k, floor |-> Newest(hist, k).seq, got |-> e]
<1>1. /\ mode = "open"
      /\ get' = [get EXCEPT ![c] = g]
      /\ pc' = [pc EXCEPT ![c] = IF e # NoEntry THEN "got" ELSE "disk"]
      /\ UNCHANGED <<disk, mode, replayed, mems, levelTables, flush, history>>
  BY DEF GetFromMem
<1>2. Found(k) = Newest(hist, k)
  BY <1>1, FoundIsNewest
<1>3. Newest(hist, k).seq \in 0..writes
  <2>1. writes \in Nat /\ hist \subseteq EntryTypes
    BY DEF IInv, TypeOK, HistoryTypes
  <2>2. Newest(hist, k) \in EntryTypes \cup {NoEntry}
    BY <2>1, NewestInLog
  <2> QED BY <2>1, <2>2 DEF EntryTypes, NoEntry
<1>4. DOMAIN get = Clients /\ pc \in [Threads -> PlaceType] /\ c \in Threads
  BY DEF IInv, TypeOK, ThreadTypes, Threads
<1>5. GetsWait'
  <2> SUFFICES ASSUME NEW d \in Clients, pc'[d] = "disk"
               PROVE  /\ get'[d] \in [key : Keys, floor : 0..writes, got : {NoEntry}]
                      /\ FindInL0(levelTables, get'[d].key).seq >= get'[d].floor
    BY <1>1, SameTables DEF GetsWait, disk, history
  <2>1. CASE d = c
    <3>1. e = NoEntry /\ get'[d] = g
      BY <1>1, <1>4, <2>1
    <3>2. FindInL0(levelTables, k) = Newest(hist, k)
      BY <1>2, <3>1 DEF Found
    <3> HIDE DEF e
    <3> QED BY <1>3, <3>1, <3>2
  <2>2. CASE d # c
    BY <1>1, <1>4, <2>2 DEF RInv, GetsWait
  <2> QED BY <2>1, <2>2
<1>6. GetsAreFresh'
  <2> SUFFICES ASSUME NEW d \in Clients, pc'[d] = "got" PROVE get'[d].got.seq >= get'[d].floor
    BY DEF GetsAreFresh
  <2>1. CASE d = c
    <3>1. e # NoEntry /\ get'[d] = g
      BY <1>1, <1>4, <2>1
    <3>2. e = Newest(hist, k)
      BY <1>2, <3>1 DEF Found
    <3> HIDE DEF e
    <3> QED BY <1>3, <3>1, <3>2
  <2>2. CASE d # c
    BY <1>1, <1>4, <2>2 DEF RInv, GetsAreFresh
  <2> QED BY <2>1, <2>2
<1>7. \A d \in Clients : pc'[d] = "rotate" => pc[d] = "rotate"
  BY <1>1, <1>4
<1> QED BY <1>1, <1>5, <1>6, <1>7, QuietRStep DEF disk, history

LEMMA GetFromDiskR == ASSUME IInv, RInv, NEW c \in Clients, GetFromDisk(c) PROVE RInv'
<1>1. DOMAIN get = Clients /\ pc \in [Threads -> PlaceType] /\ c \in Threads
  BY DEF IInv, TypeOK, ThreadTypes, Threads
<1>2. /\ get' = [get EXCEPT ![c].got = FindInL0(levelTables, get[c].key)]
      /\ pc[c] = "disk" /\ pc' = [pc EXCEPT ![c] = "got"]
      /\ UNCHANGED <<disk, mode, replayed, mems, levelTables, flush, history>>
  BY DEF GetFromDisk
<1>3. GetsWait'
  BY <1>1, <1>2, GetsWaitKept DEF RInv, disk, history
<1>4. GetsAreFresh'
  <2> SUFFICES ASSUME NEW d \in Clients, pc'[d] = "got" PROVE get'[d].got.seq >= get'[d].floor
    BY DEF GetsAreFresh
  <2>1. CASE d = c
    <3>1. get[c] \in [key : Keys, floor : 0..writes, got : {NoEntry}]
          /\ FindInL0(levelTables, get[c].key).seq >= get[c].floor
      BY <1>2 DEF RInv, GetsWait
    <3>2. /\ get'[c].got = FindInL0(levelTables, get[c].key)
          /\ get'[c].floor = get[c].floor
      BY <1>1, <1>2, <3>1
    <3> QED BY <2>1, <3>1, <3>2
  <2>2. CASE d # c
    BY <1>1, <1>2, <2>2 DEF RInv, GetsAreFresh
  <2> QED BY <2>1, <2>2
<1>5. \A d \in Clients : pc'[d] = "rotate" => pc[d] = "rotate"
  BY <1>1, <1>2
<1> QED BY <1>2, <1>3, <1>4, <1>5, QuietRStep DEF disk, history

LEMMA GetReturnR == ASSUME IInv, RInv, NEW c \in Clients, GetReturn(c) PROVE RInv'
<1>1. DOMAIN get = Clients /\ pc \in [Threads -> PlaceType] /\ c \in Threads
  BY DEF IInv, TypeOK, ThreadTypes, Threads
<1>2. /\ get' = [get EXCEPT ![c] = NoGet] /\ pc' = [pc EXCEPT ![c] = "idle"]
      /\ UNCHANGED <<disk, mode, replayed, mems, levelTables, flush, history>>
  BY DEF GetReturn
<1>3. GetsWait' /\ GetsAreFresh' /\ \A d \in Clients : pc'[d] = "rotate" => pc[d] = "rotate"
  BY <1>1, <1>2, GetsWaitKept DEF RInv, GetsAreFresh, disk, history
<1> QED BY <1>2, <1>3, QuietRStep DEF disk, history
-----------------------------------------------------------------------------
\* rotateMemTable moves the writes of the active memtable to the immutable one, whose
\* own are in the tables by then.
LEMMA RotateKeepsR ==
    ASSUME IInv, RInv, RotateMemTable, mode = "open",
           UNCHANGED <<tables, mode, replayed, flusher, job, sstID, hist, writes, get>>,
           \/ immMem = NoMem /\ stage' = stage
           \/ immMem = job /\ stage = "clear" /\ stage' = "unlink",
           \A c \in Clients : pc'[c] # "rotate" /\ (pc'[c] \in {"disk", "got"} => pc'[c] = pc[c]),
           \A k \in Keys : immMem.data[k] = NoEntry
                         \/ \E i \in 1..Len(levelTables) :
                                sst[levelTables[i]][k].seq >= immMem.data[k].seq
    PROVE  RInv'
<1> USE DEF tables
<1>1. /\ immMem' = activeMem /\ durable' = writes
      /\ \/ /\ activeMem' = Mem(nextID, EmptyData) /\ walOpen' = TRUE
            /\ walFiles' = [w \in DOMAIN walFiles \cup {nextID} |->
                              IF w = nextID THEN {} ELSE walFiles[w]]
         \/ /\ walOpen' = FALSE /\ UNCHANGED <<activeMem, walFiles>>
  BY DEF RotateMemTable, Fault
<1>2. /\ writes \in Nat /\ nextID \in Nat \ {0} /\ hist \subseteq EntryTypes
      /\ DOMAIN walFiles \subseteq 1..(nextID - 1) /\ replayed \in 0..(nextID - 1)
      /\ activeMem \in MemType /\ immMem \in MemType /\ job \in MemType
      /\ \A i \in 1..Len(l0) : sst[l0[i]] \in DataType
      /\ \A i \in 1..Len(levelTables) : sst[levelTables[i]] \in DataType
      /\ SyncAlways \in BOOLEAN
  BY TypeFacts
<1>3. /\ \A w \in DOMAIN walFiles : w \in DOMAIN walFiles' /\ walFiles'[w] = walFiles[w] /\ w # nextID
      /\ \A w \in DOMAIN walFiles' \ DOMAIN walFiles : w = nextID /\ walFiles'[w] = {}
  BY <1>1, <1>2
<1>4. /\ activeMem.data \in DataType /\ immMem.data \in DataType /\ job.data \in DataType
      /\ activeMem.id \in 0..(nextID - 1) /\ immMem.id \in 0..(nextID - 1)
      /\ job.id \in 0..(nextID - 1)
  BY <1>2 DEF MemType
<1>5. /\ activeMem' = activeMem \/ activeMem' = Mem(nextID, EmptyData)
      /\ Mem(nextID, EmptyData).id = nextID
      /\ \A k \in Keys : Mem(nextID, EmptyData).data[k] = NoEntry
  BY <1>1 DEF Mem, EmptyData
<1>6. \A d \in DataType, k \in Keys : d[k].seq \in 0..writes /\ (d[k] = NoEntry <=> d[k].seq = 0)
  BY <1>2, DataFacts
<1>7. AllInHist'
  <2>1. /\ InHist(activeMem.data) /\ InHist(job.data) /\ \A r, q \in hist : r.seq = q.seq => r = q
        /\ \A i \in 1..Len(l0) : InHist(sst[l0[i]])
        /\ \A w \in DOMAIN walFiles : walFiles[w] \subseteq hist
    BY DEF RInv, AllInHist
  <2>2. \A w \in DOMAIN walFiles' : walFiles'[w] \subseteq hist
    BY <2>1, <1>3
  <2>3. InHist(activeMem.data)'
    BY <2>1, <1>5 DEF InHist
  <2> QED BY <2>1, <2>2, <2>3, <1>1 DEF AllInHist, InHist
<1>8. SafeFromCrash'
  BY <1>1, <1>2, <1>4, <1>6 DEF SafeFromCrash, OnDisk, EntryTypes
<1>9. MemsAreLogged'
  <2>1. HasLogged(activeMem) /\ HasLogged(job)
    BY DEF RInv, MemsAreLogged
  <2>2. HasLogged(immMem)' /\ HasLogged(job)'
    BY <2>1, <1>1, <1>2, <1>3, <1>4 DEF HasLogged
  <2>3. HasLogged(activeMem)'
    BY <2>1, <1>3, <1>4, <1>5 DEF HasLogged
  <2> QED BY <2>2, <2>3 DEF MemsAreLogged
<1>10. LogsInOrder' /\ TablesInOrder' /\ TablesBelowLogs'
  <2>1. TablesInOrder'
    BY DEF RInv, TablesInOrder, Below
  <2>2. LogsInOrder'
    BY <1>3 DEF RInv, LogsInOrder
  <2>3. TablesBelowLogs'
    BY <1>3 DEF RInv, TablesBelowLogs
  <2> QED BY <2>1, <2>2, <2>3
<1>11. MemsInOrder'
  <2>1. \A k \in Keys : activeMem'.data[k] # NoEntry => activeMem.data[k].seq <= activeMem'.data[k].seq
    BY <1>4, <1>5, <1>6
  <2>2. \A i \in 1..Len(l0), k \in Keys : activeMem.data[k] # NoEntry => sst[l0[i]][k].seq <= activeMem.data[k].seq
    BY DEF RInv, MemsInOrder, Below
  <2>3. \A i \in 1..Len(l0), k \in Keys : activeMem'.data[k] # NoEntry => sst[l0[i]][k].seq <= activeMem'.data[k].seq
    BY <2>2, <1>5
  <2>4. activeMem'.id # activeMem.id /\ activeMem'.id \in DOMAIN walFiles' => walFiles'[activeMem'.id] = {}
    BY <1>3, <1>5, <1>2
  <2> QED BY <2>1, <2>2, <2>3, <2>4, <1>1 DEF MemsInOrder, Below
<1>12. LogsOfMems'
  <2>1. ASSUME NEW w \in DOMAIN walFiles'
        PROVE  w \in {activeMem'.id, immMem'.id} \/ (stage' = "unlink" /\ w = job.id)
    <3>1. CASE w \in DOMAIN walFiles
      <4>1. w # 0
        BY <3>1, <1>2
      <4>2. w \in {activeMem.id, immMem.id} \/ (stage = "unlink" /\ w = job.id)
        BY <3>1 DEF RInv, LogsOfMems
      <4> QED BY <4>1, <4>2, <1>1 DEF NoMem, Mem
    <3>2. CASE w \notin DOMAIN walFiles
      BY <3>2, <1>1, <1>3, <1>5
    <3> QED BY <3>1, <3>2
  <2>2. walOpen' => \A w \in DOMAIN walFiles' : w <= activeMem'.id
    BY <1>1, <1>2, <1>3, <1>5
  <2> QED BY <2>1, <2>2 DEF LogsOfMems
<1>13. FlushesImm'
  BY DEF RInv, FlushesImm
<1>14. RecoversInOrder'
  <2>1. \A w \in DOMAIN walFiles' : replayed < w
    BY <1>2, <1>3 DEF RInv, RecoversInOrder
  <2>2. flusher # Opener /\ replayed = 0
    BY DEF IInv, BeforeOpen, RInv, RecoversInOrder
  <2> QED BY <2>1, <2>2 DEF RecoversInOrder
<1>15. TablesShown'
  BY DEF RInv, TablesShown
<1>16. AllInView'
  <2> SUFFICES ASSUME NEW r \in hist
               PROVE  \/ immMem'.data[r.key].seq >= r.seq
                      \/ \E i \in 1..Len(levelTables) : sst[levelTables[i]][r.key].seq >= r.seq
    BY DEF AllInView
  <2>1. r \in EntryTypes /\ r.key \in Keys /\ r.seq \in 1..writes
    BY <1>2 DEF EntryTypes
  <2>2. CASE activeMem.data[r.key].seq >= r.seq
    BY <2>2, <1>1
  <2>3. CASE immMem.data[r.key].seq >= r.seq
    <3>1. immMem.data[r.key].seq \in Nat /\ immMem.data[r.key] # NoEntry
      BY <2>1, <2>3, <1>2, <1>4, <1>6
    <3>2. PICK i \in 1..Len(levelTables) : sst[levelTables[i]][r.key].seq >= immMem.data[r.key].seq
      BY <2>1, <3>1
    <3>3. sst[levelTables[i]][r.key].seq \in Nat
      BY <2>1, <1>2, <1>6
    <3> QED BY <2>1, <2>3, <3>1, <3>2, <3>3
  <2> QED BY <2>2, <2>3 DEF RInv, AllInView
<1>17. GetsWait' /\ GetsAreFresh'
  <2>1. GetsWait'
    BY GetsWaitKept DEF RInv
  <2> QED BY <2>1 DEF RInv, GetsAreFresh
<1> QED BY <1>7, <1>8, <1>9, <1>10, <1>11, <1>12, <1>13, <1>14, <1>15, <1>16, <1>17 DEF RInv

LEMMA RotateR == ASSUME IInv, RInv, NEW c \in Clients, Rotate(c) PROVE RInv'
<1>1. mode = "open"
  BY DEF Rotate, IInv, BeforeOpen, Threads
<1>2. immMem = NoMem /\ \A d \in Clients : pc[d] = "rotate" => d = c
  BY DEF Rotate, RInv, FlushesImm
<1>3. \A d \in Clients : pc'[d] # "rotate" /\ (pc'[d] \in {"disk", "got"} => pc'[d] = pc[d])
  BY <1>2 DEF Rotate, IInv, TypeOK, ThreadTypes, Threads
<1>4. \A k \in Keys : immMem.data[k] = NoEntry
  BY <1>2 DEF NoMem, Mem, EmptyData
<1> QED BY <1>1, <1>2, <1>3, <1>4, RotateKeepsR DEF Rotate, flush
\* A write is newer than everything there is.
LEMMA WriteR ==
    ASSUME IInv, RInv, NEW c \in Clients, NEW k \in Keys, NEW op \in Ops, Write(c, k, op)
    PROVE  RInv'
<1> DEFINE e == [key |-> k, seq |-> writes + 1, op |-> op]
           a == activeMem.id
<1>1. /\ mode = "open" /\ walOpen /\ MuFree /\ pc[c] = "idle" /\ writes < MaxWrites
      /\ walFiles' = [walFiles EXCEPT ![a] = @ \cup {e}]
      /\ activeMem' = [activeMem EXCEPT !.data[k] = e]
      /\ hist' = hist \cup {e}
      /\ writes' = writes + 1
      /\ durable' = IF SyncAlways THEN writes + 1 ELSE durable
      /\ \A d \in Clients \ {c} : pc'[d] = pc[d]
      /\ pc'[c] \in {"idle", "rotate", "trigger"} /\ (pc'[c] = "rotate" => immMem = NoMem)
      /\ UNCHANGED <<sst, l0, levelTables, mode, replayed, immMem, walOpen, flusher, stage, job,
                     sstID, get>>
  BY DEF Write, tables, flush, IInv, TypeOK, ThreadTypes, Threads
<1>2. /\ writes \in Nat /\ nextID \in Nat \ {0} /\ hist \subseteq EntryTypes /\ MaxWrites \in Nat
      /\ DOMAIN walFiles \subseteq 1..(nextID - 1) /\ durable \in 0..writes
      /\ activeMem \in MemType /\ immMem \in MemType /\ job \in MemType
      /\ walFiles \in [DOMAIN walFiles -> SUBSET EntryTypes]
      /\ \A i \in 1..Len(l0) : sst[l0[i]] \in DataType
      /\ \A i \in 1..Len(levelTables) : sst[levelTables[i]] \in DataType
  BY TypeFacts
<1>3. a \in DOMAIN walFiles /\ immMem.id # a /\ job.id # a
  BY <1>1 DEF IInv, LogOwned
<1>4. /\ activeMem.data \in DataType /\ immMem.data \in DataType /\ job.data \in DataType
      /\ activeMem'.id = a
      /\ activeMem'.data = [activeMem.data EXCEPT ![k] = e]
      /\ activeMem'.data[k] = e
      /\ \A j \in Keys \ {k} : activeMem'.data[j] = activeMem.data[j]
  BY <1>1, <1>2 DEF MemType, DataType
<1>5. /\ DOMAIN walFiles' = DOMAIN walFiles
      /\ walFiles'[a] = walFiles[a] \cup {e}
      /\ \A w \in DOMAIN walFiles : w # a => walFiles'[w] = walFiles[w]
  BY <1>1, <1>2, <1>3
<1>6. \A d \in DataType, j \in Keys :
         /\ d[j].seq \in 0..writes /\ d[j].seq < e.seq
         /\ (d[j] = NoEntry <=> d[j].seq = 0)
  BY <1>2, DataFacts
<1>7. /\ \A r \in hist : r.key \in Keys /\ r.seq \in 1..writes /\ r.seq < e.seq
      /\ \A w \in DOMAIN walFiles : \A r \in walFiles[w] : r.key \in Keys /\ r.seq \in 1..writes /\ r.seq < e.seq
  <2>1. \A r \in EntryTypes : r.key \in Keys /\ r.seq \in 1..writes /\ r.seq < e.seq
    BY <1>2 DEF EntryTypes
  <2> QED BY <2>1, <1>2
<1>8. e.key = k /\ e.seq = writes + 1 /\ e # NoEntry
  BY <1>2 DEF NoEntry
<1> HIDE DEF e
<1>9. AllInHist'
  <2>1. /\ InHist(immMem.data) /\ InHist(job.data) /\ InHist(activeMem.data)
        /\ \A r, q \in hist : r.seq = q.seq => r = q
        /\ \A i \in 1..Len(l0) : InHist(sst[l0[i]])
        /\ \A w \in DOMAIN walFiles : walFiles[w] \subseteq hist
    BY DEF RInv, AllInHist
  <2>2. \A r, q \in hist' : r.seq = q.seq => r = q
    BY <2>1, <1>1, <1>7
  <2>3. \A w \in DOMAIN walFiles' : walFiles'[w] \subseteq hist'
    BY <2>1, <1>1, <1>5
  <2>4. InHist(activeMem.data)'
    BY <2>1, <1>1, <1>4, <1>8 DEF InHist
  <2>5. InHist(immMem.data)' /\ InHist(job.data)' /\ \A i \in 1..Len(l0') : InHist(sst[l0[i]])'
    BY <2>1, <1>1 DEF InHist
  <2> QED BY <2>2, <2>3, <2>4, <2>5 DEF AllInHist
<1>10. SafeFromCrash'
  <2>1. durable <= durable' /\ durable' \in Nat
    BY <1>1, <1>2
  <2>2. OnDisk(immMem.data) /\ OnDisk(job.data) /\ \A i \in 1..Len(l0) : OnDisk(sst[l0[i]])
    BY DEF RInv, SafeFromCrash
  <2>3. OnDisk(immMem.data)' /\ OnDisk(job.data)'
    BY <2>1, <2>2, <1>1, <1>2, <1>4, <1>6 DEF OnDisk
  <2>4. \A i \in 1..Len(l0') : OnDisk(sst[l0[i]])'
    BY <2>1, <2>2, <1>1, <1>2, <1>6 DEF OnDisk
  <2> QED BY <2>3, <2>4, <1>1 DEF SafeFromCrash
<1>11. MemsAreLogged'
  <2>1. HasLogged(activeMem) /\ HasLogged(immMem) /\ HasLogged(job)
    BY DEF RInv, MemsAreLogged
  <2>2. HasLogged(activeMem)'
    BY <2>1, <1>3, <1>4, <1>5 DEF HasLogged
  <2>3. HasLogged(immMem)' /\ HasLogged(job)'
    BY <2>1, <1>1, <1>3, <1>5 DEF HasLogged
  <2> QED BY <2>2, <2>3 DEF MemsAreLogged
<1>12. LogsInOrder'
  <2> SUFFICES ASSUME NEW v \in DOMAIN walFiles', NEW w \in DOMAIN walFiles', v < w,
                      NEW r \in walFiles'[v], NEW q \in walFiles'[w]
               PROVE  r.seq < q.seq
    BY DEF LogsInOrder
  <2>1. v # a
    <3>1. w <= a /\ w \in Nat /\ v \in Nat /\ a \in Nat
      BY <1>1, <1>2, <1>3, <1>5 DEF RInv, LogsOfMems
    <3> QED BY <3>1
  <2>2. r \in walFiles[v] /\ (q \in walFiles[w] \/ q = e)
    BY <2>1, <1>5
  <2> QED BY <2>2, <1>5, <1>7 DEF RInv, LogsInOrder
<1>13. TablesInOrder'
  BY <1>1 DEF RInv, TablesInOrder, Below
<1>14. TablesBelowLogs'
  <2> SUFFICES ASSUME NEW i \in 1..Len(l0), NEW w \in DOMAIN walFiles, NEW r \in walFiles'[w],
                      sst[l0[i]][r.key].seq >= r.seq
               PROVE  sst[l0[i]][r.key] \in walFiles'[w]
    BY <1>1, <1>5 DEF TablesBelowLogs
  <2>1. r # e
    BY <1>2, <1>6, <1>8, SMTT(30)
  <2>2. r \in walFiles[w] /\ walFiles[w] \subseteq walFiles'[w]
    BY <2>1, <1>5
  <2> QED BY <2>2 DEF RInv, TablesBelowLogs
<1>15. MemsInOrder'
  <2>1. ASSUME NEW d \in DataType, Below(d, activeMem.data)
        PROVE  \A j \in Keys : activeMem'.data[j] # NoEntry => d[j].seq <= activeMem'.data[j].seq
    BY <2>1, <1>2, <1>4, <1>6, <1>8 DEF Below
  <2>2. Below(immMem.data, activeMem.data)'
    BY <2>1, <1>1, <1>4 DEF RInv, MemsInOrder, Below
  <2>3. \A i \in 1..Len(l0') : Below(sst[l0[i]], activeMem.data)' /\ Below(sst[l0[i]], immMem.data)'
    BY <2>1, <1>1, <1>2 DEF RInv, MemsInOrder, Below
  <2>4. \A j \in Keys, r \in walFiles'[a] : immMem.data[j].seq < r.seq
    BY <1>3, <1>4, <1>5, <1>6 DEF RInv, MemsInOrder
  <2> QED BY <2>2, <2>3, <2>4, <1>1, <1>4 DEF MemsInOrder
<1>16. LogsOfMems' /\ TablesShown' /\ RecoversInOrder'
  BY <1>1, <1>4, <1>5 DEF RInv, LogsOfMems, TablesShown, RecoversInOrder
<1>17. FlushesImm'
  <2>1. \A d \in Clients : pc'[d] = "rotate" => d = c
    BY <1>1 DEF MuFree
  <2> QED BY <2>1, <1>1 DEF RInv, FlushesImm
<1>18. AllInView'
  <2> SUFFICES ASSUME NEW r \in hist'
               PROVE  \/ activeMem'.data[r.key].seq >= r.seq
                      \/ immMem.data[r.key].seq >= r.seq
                      \/ \E i \in 1..Len(levelTables) : sst[levelTables[i]][r.key].seq >= r.seq
    BY <1>1 DEF AllInView
  <2>1. CASE r = e
    BY <2>1, <1>2, <1>4, <1>8
  <2>2. CASE r \in hist /\ r.key = k
    BY <2>2, <1>2, <1>4, <1>7, <1>8
  <2>3. CASE r \in hist /\ r.key # k
    <3>1. activeMem'.data[r.key] = activeMem.data[r.key]
      BY <2>3, <1>4, <1>7
    <3> QED BY <2>3, <3>1, <1>1 DEF RInv, AllInView
  <2> QED BY <2>1, <2>2, <2>3, <1>1
<1>19. GetsWait' /\ GetsAreFresh'
  <2>1. \A d \in Clients : pc'[d] \in {"disk", "got"} => pc[d] = pc'[d] /\ get'[d] = get[d]
    BY <1>1
  <2>2. 0..writes \subseteq 0..writes'
    BY <1>1, <1>2
  <2>3. GetsWait'
    BY <2>1, <2>2, <1>1, SameTables DEF RInv, GetsWait
  <2> QED BY <2>1, <2>3 DEF RInv, GetsAreFresh
<1>20. writes' <= MaxWrites
  BY <1>1, <1>2
<1> QED BY <1>9, <1>10, <1>11, <1>12, <1>13, <1>14, <1>15, <1>16, <1>17, <1>18, <1>19, <1>20
        DEF RInv
-----------------------------------------------------------------------------
LEMMA EntryFacts ==
    ASSUME IInv
    PROVE  /\ \A d \in DataType, k \in Keys :
                 /\ d[k] \in EntryTypes \cup {NoEntry} /\ d[k].seq \in 0..writes
                 /\ (d[k] = NoEntry <=> d[k].seq = 0)
           /\ \A mem \in MemType : mem.data \in DataType /\ mem.id \in 0..(nextID - 1)
           /\ \A r \in EntryTypes : r.key \in Keys /\ r.seq \in 1..writes
<1>1. writes \in Nat
  BY TypeFacts
<1>2. \A d \in DataType, k \in Keys :
         /\ d[k] \in EntryTypes \cup {NoEntry} /\ d[k].seq \in 0..writes
         /\ (d[k] = NoEntry <=> d[k].seq = 0)
  BY <1>1, DataFacts
<1> QED BY <1>2 DEF MemType, EntryTypes

LEMMA NoMemFacts ==
    /\ NoMem.id = 0
    /\ \A k \in Keys : NoMem.data[k] = NoEntry /\ NoMem.data[k].seq = 0
BY DEF NoMem, Mem, EmptyData, NoEntry

\* The worker takes the immutable memtable to flush.
LEMMA FlushLockR ==
    ASSUME IInv, RInv, FlushLock(Worker)
    PROVE  RInv'
<1>1. /\ flusher = NoThread /\ stage = "none"
      /\ pc[Worker] \in {"call", "first", "last"}
      /\ UNCHANGED <<disk, mode, replayed, mems, levelTables, get, history>>
  BY DEF FlushLock, IInv, JobInTables
<1>2. \A c \in Clients : pc'[c] = pc[c]
  BY ThreadsAssumption DEF FlushLock, IInv, TypeOK, ThreadTypes, Threads
<1>3. GetsWait' /\ GetsAreFresh'
  <2>1. GetsWait'
    BY <1>1, <1>2, GetsWaitKept DEF RInv, disk, history
  <2> QED BY <2>1, <1>1, <1>2 DEF RInv, GetsAreFresh
<1>4. CASE immMem = NoMem
  BY <1>1, <1>2, <1>3, <1>4, QuietRStep DEF FlushLock, disk, history
<1>5. CASE immMem # NoMem
  <2> USE DEF disk, mems, history
  <2>1. flusher' = Worker /\ job' = immMem /\ stage' \in {"clear", "build"} /\ sstID' = sstID
    BY <1>5 DEF FlushLock
  <2>2. AllInHist' /\ SafeFromCrash' /\ MemsAreLogged'
    BY <1>1, <2>1 DEF RInv, AllInHist, InHist, SafeFromCrash, OnDisk, MemsAreLogged, HasLogged
  <2>3. LogsInOrder' /\ TablesInOrder' /\ TablesBelowLogs' /\ MemsInOrder'
    BY <1>1 DEF RInv, LogsInOrder, TablesInOrder, Below, TablesBelowLogs, MemsInOrder
  <2>4. LogsOfMems' /\ TablesShown' /\ AllInView'
    BY <1>1, <2>1 DEF RInv, LogsOfMems, TablesShown, AllInView
  <2>5. FlushesImm' /\ RecoversInOrder'
    BY <1>1, <1>2, <1>5, <2>1, ThreadsAssumption DEF RInv, FlushesImm, RecoversInOrder, Threads
  <2> QED BY <1>1, <1>3, <2>2, <2>3, <2>4, <2>5 DEF RInv
<1> QED BY <1>4, <1>5

\* A search does not depend on tables that are not searched.
LEMMA SameFound ==
    ASSUME NEW ts \in Seq(DOMAIN sst), levelTables' = ts,
           \A t \in DOMAIN sst : sst'[t] = sst[t]
    PROVE  \A k : FindInL0(levelTables, k)' = FindInL0(ts, k)
<1>1. \A i \in 1..Len(ts) : sst'[ts[i]] = sst[ts[i]]
  OBVIOUS
<1> SUFFICES ASSUME NEW k PROVE FindInL0(levelTables, k)' = FindInL0(ts, k)
  OBVIOUS
<1> DEFINE Hits == {i \in 1..Len(ts) : sst[ts[i]][k] # NoEntry}
           top == CHOOSE i \in Hits : \A j \in Hits : j <= i
<1>2. {i \in 1..Len(levelTables') : sst'[levelTables'[i]][k] # NoEntry} = Hits
  BY <1>1
<1>3. CASE Hits = {}
  BY <1>2, <1>3 DEF FindInL0
<1>4. CASE Hits # {}
  <2>1. /\ FindInL0(ts, k) = sst[ts[top]][k]
        /\ FindInL0(levelTables, k)' = sst'[ts[top]][k]
    BY <1>2, <1>4 DEF FindInL0
  <2>2. \E m \in Hits : \A j \in Hits : j <= m
    <3>1. Hits \in SUBSET Nat /\ Len(ts) \in Nat /\ \A j \in Hits : j <= Len(ts)
      OBVIOUS
    <3> HIDE DEF Hits
    <3> QED BY <1>4, <3>1, MaxExists
  <2>3. top \in 1..Len(ts)
    BY <2>2
  <2> HIDE DEF top
  <2> QED BY <1>1, <2>1, <2>3
<1> QED BY <1>3, <1>4

LEMMA FlushBuildR == ASSUME IInv, RInv, FlushBuild PROVE RInv'
<1> USE DEF mems, history
<1>1. /\ sst' = [t \in DOMAIN sst \cup {nextID} |-> IF t = nextID THEN job.data ELSE sst[t]]
      /\ stage = "build" /\ stage' = "commit"
      /\ UNCHANGED <<walFiles, l0, mode, replayed, mems, levelTables, flusher, job, pc, get, history>>
  BY DEF FlushBuild
<1>2. /\ nextID \in Nat \ {0} /\ DOMAIN sst \subseteq 1..(nextID - 1)
      /\ l0 \in Seq(DOMAIN sst) /\ levelTables \in Seq(DOMAIN sst)
  BY DEF IInv, TypeOK, DiskTypes, MemoryTypes
<1>3. \A t \in DOMAIN sst : sst'[t] = sst[t]
  BY <1>1, <1>2
<1>4. /\ \A i \in 1..Len(l0) : sst'[l0[i]] = sst[l0[i]]
      /\ \A i \in 1..Len(levelTables) : sst'[levelTables[i]] = sst[levelTables[i]]
  BY <1>2, <1>3
<1>5. AllInHist' /\ SafeFromCrash' /\ MemsAreLogged'
  <2>1. ASSUME NEW i \in 1..Len(l0) PROVE InHist(sst'[l0[i]]) /\ OnDisk(sst'[l0[i]])
    <3>1. sst'[l0[i]] = sst[l0[i]]
      BY <1>4
    <3> QED BY <3>1 DEF RInv, AllInHist, SafeFromCrash
  <2>2. AllInHist'
    <3>1. ASSUME NEW i \in 1..Len(l0') PROVE InHist(sst[l0[i]])'
      <4>1. i \in 1..Len(l0) /\ sst'[l0'[i]] = sst[l0[i]] /\ hist' = hist
        BY <1>1, <1>4
      <4>2. InHist(sst[l0[i]])
        BY <4>1 DEF RInv, AllInHist
      <4> QED BY <4>1, <4>2 DEF InHist
    <3>2. InHist(activeMem.data)' /\ InHist(immMem.data)' /\ InHist(job.data)'
      BY <1>1 DEF RInv, AllInHist, InHist
    <3> QED BY <1>1, <3>1, <3>2 DEF RInv, AllInHist
  <2>3. SafeFromCrash'
    BY <1>1, <2>1 DEF RInv, SafeFromCrash, OnDisk
  <2>4. MemsAreLogged'
    BY <1>1 DEF RInv, MemsAreLogged, HasLogged
  <2> QED BY <2>2, <2>3, <2>4
<1>6. LogsInOrder' /\ TablesInOrder' /\ TablesBelowLogs' /\ MemsInOrder'
  <2>1. LogsInOrder'
    BY <1>1 DEF RInv, LogsInOrder
  <2>2. TablesInOrder'
    <3> SUFFICES ASSUME NEW j \in 1..Len(l0), NEW i \in 1..j PROVE Below(sst'[l0[i]], sst'[l0[j]])
      BY <1>1 DEF TablesInOrder, Below
    <3>1. i \in 1..Len(l0)
      BY <1>2
    <3>2. sst'[l0[i]] = sst[l0[i]] /\ sst'[l0[j]] = sst[l0[j]]
      BY <1>4, <3>1
    <3> QED BY <3>2 DEF RInv, TablesInOrder
  <2>3. TablesBelowLogs'
    <3> SUFFICES ASSUME NEW i \in 1..Len(l0), NEW w \in DOMAIN walFiles, NEW r \in walFiles[w],
                        sst'[l0[i]][r.key].seq >= r.seq
                 PROVE  sst'[l0[i]][r.key] \in walFiles[w]
      BY <1>1 DEF TablesBelowLogs
    <3>1. sst'[l0[i]] = sst[l0[i]]
      BY <1>4
    <3> QED BY <3>1 DEF RInv, TablesBelowLogs
  <2>4. MemsInOrder'
    <3>1. ASSUME NEW i \in 1..Len(l0)
          PROVE  Below(sst'[l0[i]], activeMem.data) /\ Below(sst'[l0[i]], immMem.data)
      <4>1. sst'[l0[i]] = sst[l0[i]]
        BY <1>4
      <4> QED BY <4>1 DEF RInv, MemsInOrder
    <3> QED BY <1>1, <3>1 DEF RInv, MemsInOrder, Below
  <2> QED BY <2>1, <2>2, <2>3, <2>4
<1>7. LogsOfMems' /\ FlushesImm' /\ RecoversInOrder' /\ TablesShown' /\ AllInView'
  <2>1. LogsOfMems' /\ FlushesImm' /\ RecoversInOrder' /\ TablesShown'
    BY <1>1 DEF RInv, LogsOfMems, FlushesImm, RecoversInOrder, TablesShown
  <2>2. AllInView'
    <3> SUFFICES ASSUME mode = "open", NEW r \in hist
                 PROVE  \/ activeMem.data[r.key].seq >= r.seq
                        \/ immMem.data[r.key].seq >= r.seq
                        \/ \E i \in 1..Len(levelTables) : sst'[levelTables[i]][r.key].seq >= r.seq
      BY <1>1 DEF AllInView
    <3> QED BY <1>4 DEF RInv, AllInView
  <2> QED BY <2>1, <2>2
<1>8. GetsWait' /\ GetsAreFresh'
  BY <1>1, <1>2, <1>3, SameFound DEF RInv, GetsWait, GetsAreFresh
<1> QED BY <1>1, <1>5, <1>6, <1>7, <1>8 DEF RInv
\* Recovery: what a log has is not older than what any table has.
LEMMA LogAboveTables ==
    ASSUME IInv, RInv, NEW w \in DOMAIN walFiles, NEW data \in DataType,
           \A r \in walFiles[w] : data[r.key].seq >= r.seq,
           \A k \in Keys : data[k] # NoEntry => data[k] \in walFiles[w] /\ data[k].key = k
    PROVE  \A i \in 1..Len(l0) : Below(sst[l0[i]], data)
<1> SUFFICES ASSUME NEW i \in 1..Len(l0), NEW k \in Keys, data[k] # NoEntry
             PROVE  sst[l0[i]][k].seq <= data[k].seq
  BY DEF Below
<1> DEFINE s == sst[l0[i]][k]
<1>1. /\ s.seq \in 0..writes /\ (s = NoEntry <=> s.seq = 0)
      /\ data[k].seq \in 0..writes /\ data[k] \in walFiles[w] /\ data[k].key = k
      /\ writes \in Nat
  BY TypeFacts, EntryFacts
<1>2. CASE s.seq >= data[k].seq
  <2>1. s \in walFiles[w]
    BY <1>1, <1>2 DEF RInv, TablesBelowLogs
  <2>2. s # NoEntry
    <3>1. data[k] # NoEntry => data[k].seq # 0
      BY EntryFacts
    <3> QED BY <3>1, <1>1, <1>2
  <2>3. s.key = k
    BY <2>2 DEF RInv, AllInHist, InHist
  <2> QED BY <2>1, <2>3, <1>1
<1> QED BY <1>1, <1>2

\* What is about to be committed is above every table, below every other log and below
\* the memtables.
LEMMA JobInOrder ==
    ASSUME IInv, RInv, stage = "commit"
    PROVE  /\ \A i \in 1..Len(l0) : Below(sst[l0[i]], job.data)
           /\ \A w \in DOMAIN walFiles, k \in Keys : \A r \in walFiles[w] :
                 r.key = k /\ job.data[k].seq >= r.seq => job.data[k] \in walFiles[w]
           /\ Below(job.data, activeMem.data) /\ Below(job.data, immMem.data)
<1>1. /\ job.data \in DataType /\ writes \in Nat /\ nextID \in Nat
      /\ \A w \in DOMAIN walFiles : w \in 1..(nextID - 1) /\ walFiles[w] \subseteq EntryTypes
  BY TypeFacts, EntryFacts
<1>2. /\ HasLogged(job) /\ Covers(job) /\ InHist(job.data)
  BY DEF RInv, MemsAreLogged, AllInHist, IInv, MemsCoverLogs
<1>3. \A k \in Keys : job.data[k].seq \in 0..writes /\ (job.data[k] = NoEntry <=> job.data[k].seq = 0)
  BY <1>1, EntryFacts
<1>4. flusher \in {Worker, Opener}
  BY DEF RInv, FlushesImm, IInv, JobInTables
<1>5. \A w \in DOMAIN walFiles : \A r \in walFiles[w] : r.key \in Keys /\ r.seq \in 1..writes
  BY <1>1, EntryFacts
<1>6. \A r \in (IF job.id \in DOMAIN walFiles THEN walFiles[job.id] ELSE {}) :
         job.data[r.key].seq >= r.seq
  BY <1>2 DEF Covers
<1>7. CASE flusher = Worker
  <2>1. immMem = job /\ mode = "open"
    BY <1>7, ThreadsAssumption DEF RInv, FlushesImm, IInv, BeforeOpen, Threads
  <2>2. ASSUME NEW w \in DOMAIN walFiles, NEW k \in Keys, NEW r \in walFiles[w],
               r.key = k, job.data[k].seq >= r.seq
        PROVE  job.data[k] \in walFiles[w]
    <3>1. CASE w = job.id
      <4>1. job.data[k] # NoEntry
        BY <1>1, <1>3, <1>5, <2>2
      <4> QED BY <1>2, <3>1, <4>1 DEF HasLogged
    <3>2. CASE w # job.id
      <4>1. w = activeMem.id /\ activeMem.id # immMem.id
        BY <2>1, <3>2 DEF RInv, LogsOfMems
      <4>2. immMem.data[k].seq < r.seq
        BY <4>1 DEF RInv, MemsInOrder
      <4> QED BY <2>1, <2>2, <4>2, <1>1, <1>3, <1>5
    <3> QED BY <3>1, <3>2
  <2>3. \A i \in 1..Len(l0) : Below(sst[l0[i]], job.data)
    BY <2>1 DEF RInv, MemsInOrder
  <2>4. Below(job.data, activeMem.data) /\ Below(job.data, immMem.data)
    <3>1. Below(job.data, job.data)
      BY <1>3 DEF Below
    <3> QED BY <2>1, <3>1 DEF RInv, MemsInOrder
  <2> QED BY <2>2, <2>3, <2>4
<1>8. CASE flusher = Opener
  <2>1. /\ mode # "open" /\ activeMem = NoMem /\ immMem = NoMem
        /\ job.id \in DOMAIN walFiles /\ \A w \in DOMAIN walFiles : job.id <= w
    BY <1>8 DEF RInv, RecoversInOrder, IInv, BeforeOpen
  <2>2. \A k \in Keys : job.data[k] # NoEntry => job.data[k] \in walFiles[job.id] /\ job.data[k].key = k
    BY <1>2, <2>1 DEF HasLogged, InHist
  <2>3. ASSUME NEW w \in DOMAIN walFiles, NEW k \in Keys, NEW r \in walFiles[w],
               r.key = k, job.data[k].seq >= r.seq
        PROVE  job.data[k] \in walFiles[w]
    <3>1. job.data[k] # NoEntry
      BY <1>1, <1>3, <1>5, <2>3
    <3>2. CASE w = job.id
      BY <2>2, <3>1, <3>2
    <3>3. CASE w # job.id
      <4>1. job.id < w
        BY <1>1, <2>1, <3>3
      <4>2. job.data[k].seq < r.seq
        BY <2>1, <2>2, <3>1, <4>1 DEF RInv, LogsInOrder
      <4> QED BY <2>3, <4>2, <1>1, <1>3, <1>5
    <3> QED BY <3>2, <3>3
  <2>4. \A i \in 1..Len(l0) : Below(sst[l0[i]], job.data)
    BY <1>1, <1>6, <2>1, <2>2, LogAboveTables
  <2>5. Below(job.data, activeMem.data) /\ Below(job.data, immMem.data)
    BY <2>1, NoMemFacts DEF Below
  <2> QED BY <2>3, <2>4, <2>5
<1> QED BY <1>4, <1>7, <1>8

LEMMA FlushCommitR == ASSUME IInv, RInv, FlushCommit PROVE RInv'
<1> USE DEF mems, history
<1>1. /\ l0' = Append(l0, sstID) /\ stage = "commit" /\ stage' = "install"
      /\ UNCHANGED <<walFiles, sst, mode, replayed, mems, levelTables, flusher, job, sstID, pc,
                     get, history>>
  BY DEF FlushCommit
<1>2. /\ l0 \in Seq(DOMAIN sst) /\ sstID \in DOMAIN sst /\ sst[sstID] = job.data
      /\ job.data \in DataType
  BY <1>1, TypeFacts, EntryFacts DEF IInv, JobInTables
<1> DEFINE n == Len(l0) + 1
<1>3. /\ Len(l0') = n /\ Len(l0) \in Nat
      /\ \A i \in 1..Len(l0) : l0'[i] = l0[i] /\ sst'[l0'[i]] = sst[l0[i]]
      /\ sst'[l0'[n]] = job.data
      /\ 1..n = (1..Len(l0)) \cup {n}
  BY <1>1, <1>2
<1> HIDE DEF n
<1>4. /\ \A i \in 1..Len(l0) : Below(sst[l0[i]], job.data)
      /\ \A w \in DOMAIN walFiles, k \in Keys : \A r \in walFiles[w] :
            r.key = k /\ job.data[k].seq >= r.seq => job.data[k] \in walFiles[w]
      /\ Below(job.data, activeMem.data) /\ Below(job.data, immMem.data)
  BY <1>1, JobInOrder
<1>5. AllInHist'
  <2>1. \A i \in 1..n : InHist(sst'[l0'[i]])
    BY <1>3 DEF RInv, AllInHist
  <2> QED BY <1>1, <1>3, <2>1 DEF RInv, AllInHist, InHist
<1>6. SafeFromCrash'
  <2>1. \A i \in 1..n : OnDisk(sst'[l0'[i]])
    BY <1>3 DEF RInv, SafeFromCrash
  <2> QED BY <1>1, <1>3, <2>1 DEF RInv, SafeFromCrash, OnDisk
<1>7. MemsAreLogged' /\ LogsInOrder'
  BY <1>1 DEF RInv, MemsAreLogged, HasLogged, LogsInOrder
<1>8. TablesInOrder'
  <2>1. ASSUME NEW j \in 1..n, NEW i \in 1..j PROVE Below(sst'[l0'[i]], sst'[l0'[j]])
    <3>1. CASE j = n /\ i = n
      <4>1. \A k \in Keys : job.data[k].seq \in Nat
        BY <1>2, TypeFacts, EntryFacts
      <4> QED BY <1>3, <3>1, <4>1 DEF Below
    <3>2. CASE j = n /\ i # n
      <4>1. i \in 1..Len(l0)
        BY <1>3, <3>2
      <4> QED BY <1>3, <1>4, <3>2, <4>1
    <3>3. CASE j # n
      <4>1. j \in 1..Len(l0) /\ i \in 1..Len(l0)
        BY <1>3, <3>3
      <4> QED BY <1>3, <4>1 DEF RInv, TablesInOrder
    <3> QED BY <3>1, <3>2, <3>3
  <2> QED BY <1>3, <2>1 DEF TablesInOrder, Below
<1>9. TablesBelowLogs'
  <2> SUFFICES ASSUME NEW i \in 1..n, NEW w \in DOMAIN walFiles, NEW r \in walFiles[w],
                      sst'[l0'[i]][r.key].seq >= r.seq
               PROVE  sst'[l0'[i]][r.key] \in walFiles[w]
    BY <1>1, <1>3 DEF TablesBelowLogs
  <2>1. CASE i \in 1..Len(l0)
    BY <1>3, <2>1 DEF RInv, TablesBelowLogs
  <2>2. CASE i = n
    <3>1. r.key \in Keys
      BY TypeFacts, EntryFacts
    <3> QED BY <1>3, <1>4, <2>2, <3>1
  <2> QED BY <1>3, <2>1, <2>2
<1>10. MemsInOrder'
  <2>1. \A i \in 1..n : Below(sst'[l0'[i]], activeMem.data) /\ Below(sst'[l0'[i]], immMem.data)
    BY <1>3, <1>4 DEF RInv, MemsInOrder
  <2> QED BY <1>1, <1>3, <2>1 DEF RInv, MemsInOrder, Below
<1>11. LogsOfMems' /\ FlushesImm' /\ RecoversInOrder' /\ AllInView'
  BY <1>1 DEF RInv, LogsOfMems, FlushesImm, RecoversInOrder, AllInView
<1>12. TablesShown'
  BY <1>1 DEF RInv, TablesShown
<1>13. GetsWait' /\ GetsAreFresh'
  BY <1>1, GetsWaitKept DEF RInv, GetsAreFresh
<1> QED BY <1>1, <1>5, <1>6, <1>7, <1>8, <1>9, <1>10, <1>11, <1>12, <1>13 DEF RInv
\* Readers that see a table more find nothing older.
LEMMA FoundGrows ==
    ASSUME IInv, RInv, stage = "install", mode # "down", NEW k \in Keys
    PROVE  FindInL0(l0, k).seq >= FindInL0(levelTables, k).seq
<1>1. /\ l0 \in Seq(DOMAIN sst) /\ levelTables \in Seq(DOMAIN sst)
      /\ l0 = Append(levelTables, sstID)
      /\ \A i \in 1..Len(l0) : sst[l0[i]][k].seq \in Nat
      /\ \A i \in 1..Len(levelTables) : sst[levelTables[i]][k].seq \in Nat
  BY TypeFacts, EntryFacts DEF RInv, TablesShown
<1>2. /\ Len(l0) = Len(levelTables) + 1 /\ Len(levelTables) \in Nat
      /\ \A i \in 1..Len(levelTables) : l0[i] = levelTables[i]
  <2>1. l0 = Append(levelTables, sstID) /\ levelTables \in Seq(DOMAIN sst)
    BY <1>1
  <2> QED BY <2>1
<1>3. CASE \A i \in 1..Len(levelTables) : sst[levelTables[i]][k] = NoEntry
  <2>1. FindInL0(levelTables, k) = NoEntry
    BY <1>3 DEF FindInL0
  <2>2. FindInL0(l0, k).seq \in Nat
    <3>1. NoEntry.seq \in Nat
      BY DEF NoEntry
    <3> QED BY <3>1, <1>1, FindInL0Facts
  <2> QED BY <2>1, <2>2 DEF NoEntry
<1>4. CASE \E i \in 1..Len(levelTables) : sst[levelTables[i]][k] # NoEntry
  <2>1. PICK m \in 1..Len(levelTables) :
           /\ FindInL0(levelTables, k) = sst[levelTables[m]][k]
           /\ sst[levelTables[m]][k] # NoEntry
    BY <1>1, <1>4, FindInL0Facts
  <2>2. m \in 1..Len(l0) /\ sst[l0[m]][k] # NoEntry
    BY <1>2, <2>1
  <2>3. PICK j \in 1..Len(l0) :
           /\ FindInL0(l0, k) = sst[l0[j]][k] /\ sst[l0[j]][k] # NoEntry
           /\ \A i \in 1..Len(l0) : sst[l0[i]][k] # NoEntry => i <= j
    <3>1. l0 \in Seq(DOMAIN sst)
      BY TypeFacts
    <3> QED BY <3>1, <2>2, FindInL0Facts
  <2>4. m \in 1..j
    BY <2>2, <2>3
  <2>5. sst[l0[m]][k].seq <= sst[l0[j]][k].seq
    BY <2>3, <2>4 DEF RInv, TablesInOrder, Below
  <2> QED BY <1>1, <1>2, <2>1, <2>2, <2>3, <2>5
<1> QED BY <1>3, <1>4

LEMMA FlushInstallR == ASSUME IInv, RInv, FlushInstall PROVE RInv'
<1> USE DEF disk, mems, history
<1>1. /\ levelTables' = l0 /\ stage = "install"
      /\ stage' = IF flusher = Opener THEN "unlink" ELSE "clear"
      /\ UNCHANGED <<disk, mode, replayed, mems, flusher, job, sstID, pc, get, history>>
  BY DEF FlushInstall
<1>2. AllInHist' /\ SafeFromCrash' /\ MemsAreLogged'
  BY <1>1 DEF RInv, AllInHist, InHist, SafeFromCrash, OnDisk, MemsAreLogged, HasLogged
<1>3. LogsInOrder' /\ TablesInOrder' /\ TablesBelowLogs' /\ MemsInOrder'
  BY <1>1 DEF RInv, LogsInOrder, TablesInOrder, Below, TablesBelowLogs, MemsInOrder
<1>4. LogsOfMems' /\ FlushesImm' /\ RecoversInOrder' /\ TablesShown'
  <2>1. FlushesImm'
    BY <1>1 DEF RInv, FlushesImm
  <2>2. LogsOfMems' /\ RecoversInOrder' /\ TablesShown'
    BY <1>1 DEF RInv, LogsOfMems, RecoversInOrder, TablesShown
  <2> QED BY <2>1, <2>2
<1>5. AllInView'
  <2> SUFFICES ASSUME mode = "open", NEW r \in hist
               PROVE  \/ activeMem.data[r.key].seq >= r.seq
                      \/ immMem.data[r.key].seq >= r.seq
                      \/ \E i \in 1..Len(l0) : sst[l0[i]][r.key].seq >= r.seq
    BY <1>1 DEF AllInView
  <2>1. l0 = Append(levelTables, sstID) /\ levelTables \in Seq(DOMAIN sst)
    BY <1>1, TypeFacts DEF RInv, TablesShown
  <2>2. \A i \in 1..Len(levelTables) : i \in 1..Len(l0) /\ l0[i] = levelTables[i]
    BY <2>1
  <2> QED BY <2>2 DEF RInv, AllInView
<1>6. GetsWait'
  <2> SUFFICES ASSUME NEW c \in Clients, pc[c] = "disk"
               PROVE  /\ get[c] \in [key : Keys, floor : 0..writes, got : {NoEntry}]
                      /\ FindInL0(l0, get[c].key).seq >= get[c].floor
    <3>1. \A k : FindInL0(levelTables, k)' = FindInL0(l0, k)
      BY <1>1, TypeFacts, SameFound
    <3> QED BY <1>1, <3>1 DEF GetsWait
  <2>1. mode = "open" /\ c \in Threads
    BY DEF IInv, BeforeOpen, Threads
  <2>2. /\ get[c] \in [key : Keys, floor : 0..writes, got : {NoEntry}]
        /\ FindInL0(levelTables, get[c].key).seq >= get[c].floor
    BY DEF RInv, GetsWait
  <2> DEFINE k == get[c].key
  <2>3. k \in Keys /\ get[c].floor \in 0..writes
    BY <2>2
  <2> HIDE DEF k
  <2>4. FindInL0(l0, k).seq >= FindInL0(levelTables, k).seq
    BY <1>1, <2>1, <2>3, FoundGrows
  <2>5. FindInL0(l0, k).seq \in Nat /\ FindInL0(levelTables, k).seq \in Nat
    <3>1. NoEntry.seq \in Nat
      BY DEF NoEntry
    <3>2. /\ \A i \in 1..Len(l0) : sst[l0[i]][k].seq \in Nat
          /\ \A i \in 1..Len(levelTables) : sst[levelTables[i]][k].seq \in Nat
          /\ l0 \in Seq(DOMAIN sst) /\ levelTables \in Seq(DOMAIN sst)
      BY <2>3, TypeFacts, EntryFacts
    <3> QED BY <3>1, <3>2, FindInL0Facts
  <2> QED BY <2>2, <2>3, <2>4, <2>5 DEF k
<1>7. GetsAreFresh'
  BY <1>1 DEF RInv, GetsAreFresh
<1> QED BY <1>1, <1>2, <1>3, <1>4, <1>5, <1>6, <1>7 DEF RInv

\* The immutable memtable that is dropped is in a table that readers see.
LEMMA FlushClearR == ASSUME IInv, RInv, FlushClear PROVE RInv'
<1>1. /\ stage = "clear" /\ stage' = "unlink" /\ MuFree
      /\ UNCHANGED <<tables, mode, replayed, flusher, job, sstID, pc, get, hist, writes>>
  BY DEF FlushClear
<1>2. mode = "open" /\ flusher = Worker
  BY <1>1, ThreadsAssumption DEF IInv, BeforeOpen, JobInTables, RInv, FlushesImm, Threads
<1>3. immMem = job /\ levelTables = l0
  BY <1>1, <1>2 DEF RInv, FlushesImm, TablesShown
<1>4. \A k \in Keys : immMem.data[k] = NoEntry
                  \/ \E i \in 1..Len(levelTables) :
                         sst[levelTables[i]][k].seq >= immMem.data[k].seq
  <2> SUFFICES ASSUME NEW k \in Keys, immMem.data[k] # NoEntry
               PROVE  \E i \in 1..Len(l0) : sst[l0[i]][k].seq >= immMem.data[k].seq
    BY <1>3
  <2>1. immMem.data # EmptyData
    BY DEF EmptyData
  <2>2. PICK i \in 1..Len(l0) : sst[l0[i]] = immMem.data
    BY <1>1, <1>3, <2>1 DEF IInv, JobInTables
  <2>3. immMem.data[k].seq \in Nat
    BY TypeFacts, EntryFacts
  <2> QED BY <2>2, <2>3
<1>5. \A c \in Clients : pc'[c] # "rotate" /\ (pc'[c] \in {"disk", "got"} => pc'[c] = pc[c])
  BY <1>1 DEF MuFree
<1>6. CASE ShouldFlush(activeMem)
  <2>1. RotateMemTable
    BY <1>6 DEF FlushClear
  <2> QED BY <1>1, <1>2, <1>3, <1>4, <1>5, <2>1, RotateKeepsR
<1>7. CASE ~ShouldFlush(activeMem)
  <2> USE DEF tables
  <2>1. /\ immMem' = NoMem
        /\ UNCHANGED <<activeMem, walOpen, walFiles, durable>>
    BY <1>7 DEF FlushClear
  <2>2. /\ \A w \in DOMAIN walFiles : w # 0 /\ \A r \in walFiles[w] : r.key \in Keys /\ r.seq \in 1..writes
        /\ \A k \in Keys : activeMem.data[k].seq \in Nat
        /\ durable \in Nat /\ writes \in Nat
    BY TypeFacts, EntryFacts
  <2>3. AllInHist' /\ SafeFromCrash' /\ MemsAreLogged'
    <3>1. AllInHist'
      BY <1>1, <2>1, NoMemFacts DEF RInv, AllInHist, InHist
    <3>2. SafeFromCrash'
      BY <1>1, <2>1, <2>2, NoMemFacts DEF RInv, SafeFromCrash, OnDisk
    <3>3. MemsAreLogged'
      BY <1>1, <2>1, NoMemFacts DEF RInv, MemsAreLogged, HasLogged
    <3> QED BY <3>1, <3>2, <3>3
  <2>4. LogsInOrder' /\ TablesInOrder' /\ TablesBelowLogs'
    BY <1>1, <2>1 DEF RInv, LogsInOrder, TablesInOrder, Below, TablesBelowLogs
  <2>5. MemsInOrder'
    <3>1. \A k \in Keys, w \in DOMAIN walFiles : \A r \in walFiles[w] : NoMem.data[k].seq < r.seq
      BY <2>2, NoMemFacts
    <3>2. Below(NoMem.data, activeMem.data) /\ \A i \in 1..Len(l0) : Below(sst[l0[i]], NoMem.data)
      BY <2>2, NoMemFacts DEF Below
    <3> QED BY <1>1, <2>1, <3>1, <3>2 DEF RInv, MemsInOrder, Below
  <2>6. LogsOfMems' /\ FlushesImm' /\ RecoversInOrder' /\ TablesShown'
    <3>1. LogsOfMems'
      BY <1>1, <1>3, <2>1 DEF RInv, LogsOfMems
    <3>2. FlushesImm'
      BY <1>1, <1>2, <1>5 DEF FlushesImm
    <3>3. RecoversInOrder' /\ TablesShown'
      BY <1>1, <2>1 DEF RInv, RecoversInOrder, TablesShown
    <3> QED BY <3>1, <3>2, <3>3
  <2>7. AllInView'
    <3> SUFFICES ASSUME NEW r \in hist
                 PROVE  \/ activeMem.data[r.key].seq >= r.seq
                        \/ \E i \in 1..Len(levelTables) : sst[levelTables[i]][r.key].seq >= r.seq
      BY <1>1, <2>1 DEF AllInView
    <3>1. r.key \in Keys /\ r.seq \in 1..writes /\ writes \in Nat
      BY TypeFacts, EntryFacts
    <3>2. CASE immMem.data[r.key].seq >= r.seq
      <4>1. /\ immMem.data[r.key].seq \in Nat
            /\ immMem.data[r.key] = NoEntry => immMem.data[r.key].seq = 0
            /\ \A i \in 1..Len(levelTables) : sst[levelTables[i]][r.key].seq \in Nat
        BY <3>1, TypeFacts, EntryFacts
      <4>2. PICK i \in 1..Len(levelTables) :
               sst[levelTables[i]][r.key].seq >= immMem.data[r.key].seq
        BY <1>4, <3>1, <3>2, <4>1
      <4> QED BY <3>1, <3>2, <4>1, <4>2
    <3> QED BY <1>2, <3>2 DEF RInv, AllInView
  <2>8. GetsWait' /\ GetsAreFresh'
    BY <1>1, GetsWaitKept DEF RInv, GetsAreFresh
  <2> QED BY <1>1, <2>3, <2>4, <2>5, <2>6, <2>7, <2>8 DEF RInv
<1> QED BY <1>6, <1>7
\* Tables have all that the removed log has; no other log is of its memtable.
LEMMA FlushUnlinkR == ASSUME IInv, RInv, LogsAreRemoved, FlushUnlink PROVE RInv'
<1> USE DEF mems, history, tables
<1>1. /\ stage = "unlink"
      /\ walFiles' = [w \in DOMAIN walFiles \ {job.id} |-> walFiles[w]]
      /\ pc' = [pc EXCEPT ![flusher] = Returned(flusher)]
      /\ replayed' = IF flusher = Opener THEN job.id ELSE replayed
      /\ flusher' = NoThread /\ stage' = "none" /\ job' = NoMem
      /\ UNCHANGED <<tables, mode, mems, get, history>>
  BY DEF FlushUnlink, LogsAreRemoved, Fault, ReleaseFlushLock
<1>2. /\ DOMAIN walFiles' = DOMAIN walFiles \ {job.id}
      /\ \A w \in DOMAIN walFiles' : walFiles'[w] = walFiles[w]
      /\ DOMAIN walFiles \subseteq 1..(nextID - 1) /\ nextID \in Nat
      /\ durable \in Nat /\ job.id \in 0..(nextID - 1)
  BY <1>1, TypeFacts, EntryFacts
<1>3. flusher \in {Worker, Opener}
  BY <1>1 DEF RInv, FlushesImm, IInv, JobInTables
<1>4. \A c \in Clients : pc'[c] = pc[c]
  BY <1>1, <1>3, ThreadsAssumption DEF IInv, TypeOK, ThreadTypes, Threads
<1>5. AllInHist'
  BY <1>1, <1>2, NoMemFacts DEF RInv, AllInHist, InHist
<1>6. SafeFromCrash'
  BY <1>1, <1>2, NoMemFacts DEF RInv, SafeFromCrash, OnDisk
<1>7. MemsAreLogged'
  BY <1>1, <1>2, NoMemFacts DEF RInv, MemsAreLogged, HasLogged
<1>8. LogsInOrder' /\ TablesInOrder' /\ TablesBelowLogs'
  <2>1. LogsInOrder'
    BY <1>2 DEF RInv, LogsInOrder
  <2>2. TablesInOrder'
    BY <1>1 DEF RInv, TablesInOrder, Below
  <2>3. TablesBelowLogs'
    BY <1>1, <1>2 DEF RInv, TablesBelowLogs
  <2> QED BY <2>1, <2>2, <2>3
<1>9. MemsInOrder'
  BY <1>1, <1>2 DEF RInv, MemsInOrder, Below
<1>10. LogsOfMems'
  BY <1>1, <1>2 DEF RInv, LogsOfMems
<1>11. FlushesImm'
  BY <1>1, <1>4, ThreadsAssumption DEF RInv, FlushesImm, Threads
<1>12. RecoversInOrder'
  <2>1. NoThread # Opener
    BY ThreadsAssumption DEF Threads
  <2>2. CASE flusher = Opener
    <3>1. replayed' = job.id /\ mode' = "opening" /\ \A w \in DOMAIN walFiles : job.id <= w
      BY <1>1, <2>2 DEF RInv, RecoversInOrder
    <3>2. \A w \in DOMAIN walFiles' : job.id < w
      BY <1>2, <3>1
    <3> QED BY <1>1, <2>1, <3>1, <3>2 DEF RecoversInOrder
  <2>3. CASE flusher # Opener
    BY <1>1, <1>2, <2>1, <2>3 DEF RInv, RecoversInOrder
  <2> QED BY <2>2, <2>3
<1>13. TablesShown' /\ AllInView'
  BY <1>1 DEF RInv, TablesShown, AllInView
<1>14. GetsWait' /\ GetsAreFresh'
  BY <1>1, <1>4, GetsWaitKept DEF RInv, GetsAreFresh
<1> QED BY <1>1, <1>5, <1>6, <1>7, <1>8, <1>9, <1>10, <1>11, <1>12, <1>13, <1>14 DEF RInv

\* A flush that fails leaves everything where it was.
LEMMA FlushFailR == ASSUME IInv, RInv, FlushFail PROVE RInv'
<1> USE DEF mems, history
<1>1. /\ stage \in {"build", "commit"} /\ flusher # Opener
      /\ pc' = [pc EXCEPT ![flusher] = "idle"]
      /\ flusher' = NoThread /\ stage' = "none" /\ job' = NoMem
      /\ UNCHANGED <<walFiles, sst, l0, mode, replayed, levelTables, mems, get, history>>
  BY DEF FlushFail, BuildFails, ReleaseFlushLock
<1>2. flusher = Worker /\ mode = "open"
  BY <1>1, ThreadsAssumption DEF RInv, FlushesImm, IInv, JobInTables, BeforeOpen, Threads
<1>3. \A c \in Clients : pc'[c] = pc[c]
  BY <1>1, <1>2, ThreadsAssumption DEF IInv, TypeOK, ThreadTypes, Threads
<1>4. 0 \notin DOMAIN walFiles /\ durable \in Nat
  BY TypeFacts
<1>5. AllInHist'
  BY <1>1, NoMemFacts DEF RInv, AllInHist, InHist
<1>6. SafeFromCrash'
  BY <1>1, <1>4, NoMemFacts DEF RInv, SafeFromCrash, OnDisk
<1>7. MemsAreLogged'
  BY <1>1, <1>4, NoMemFacts DEF RInv, MemsAreLogged, HasLogged
<1>8. LogsInOrder' /\ TablesInOrder' /\ TablesBelowLogs' /\ MemsInOrder'
  BY <1>1 DEF RInv, LogsInOrder, TablesInOrder, Below, TablesBelowLogs, MemsInOrder
<1>9. LogsOfMems' /\ TablesShown' /\ AllInView'
  BY <1>1 DEF RInv, LogsOfMems, TablesShown, AllInView
<1>10. FlushesImm' /\ RecoversInOrder'
  BY <1>1, <1>3, ThreadsAssumption DEF RInv, FlushesImm, RecoversInOrder, Threads
<1>11. GetsWait' /\ GetsAreFresh'
  BY <1>1, <1>3, GetsWaitKept DEF RInv, GetsAreFresh
<1> QED BY <1>1, <1>5, <1>6, <1>7, <1>8, <1>9, <1>10, <1>11 DEF RInv

LEMMA OpenFailR == ASSUME IInv, RInv, OpenFail PROVE RInv'
<1> USE DEF mems, history
<1>1. /\ stage \in {"build", "commit"} /\ flusher = Opener
      /\ mode' = "down" /\ replayed' = 0
      /\ flusher' = NoThread /\ stage' = "none" /\ job' = NoMem
      /\ UNCHANGED <<walFiles, sst, l0, mems, pc, get, history>>
  BY DEF OpenFail, BuildFails, ReleaseFlushLock
<1>2. /\ mode # "open" /\ activeMem = NoMem /\ immMem = NoMem
      /\ \A c \in Clients : pc[c] = "idle"
  BY <1>1 DEF IInv, BeforeOpen, Threads
<1>3. durable \in Nat /\ nextID \in Nat /\ DOMAIN walFiles \subseteq 1..(nextID - 1)
  BY TypeFacts
<1>4. \A w \in DOMAIN walFiles : w # 0 /\ 0 < w
  BY <1>3
<1>5. AllInHist'
  BY <1>1, NoMemFacts DEF RInv, AllInHist, InHist
<1>6. SafeFromCrash'
  BY <1>1, <1>2, <1>3, NoMemFacts DEF RInv, SafeFromCrash, OnDisk
<1>7. MemsAreLogged'
  BY <1>1, <1>4, NoMemFacts DEF RInv, MemsAreLogged, HasLogged
<1>8. LogsInOrder' /\ TablesInOrder' /\ TablesBelowLogs' /\ MemsInOrder'
  BY <1>1 DEF RInv, LogsInOrder, TablesInOrder, Below, TablesBelowLogs, MemsInOrder
<1>9. LogsOfMems' /\ TablesShown' /\ AllInView'
  BY <1>1 DEF RInv, LogsOfMems, TablesShown, AllInView
<1>10. FlushesImm' /\ RecoversInOrder'
  BY <1>1, <1>4, ThreadsAssumption DEF RInv, FlushesImm, RecoversInOrder, Threads
<1>11. GetsWait' /\ GetsAreFresh'
  BY <1>1, <1>2 DEF GetsWait, GetsAreFresh
<1> QED BY <1>1, <1>5, <1>6, <1>7, <1>8, <1>9, <1>10, <1>11 DEF RInv
-----------------------------------------------------------------------------
\* A crash cuts off nothing that is in a table.
LEMMA CrashR == ASSUME IInv, RInv, Crash PROVE RInv'
<1>1. PICK m \in durable..writes :
        /\ walFiles' = [w \in DOMAIN walFiles |-> {r \in walFiles[w] : r.seq <= m}]
        /\ hist' = {r \in hist : r.seq <= m}
        /\ durable' = IF SyncAlways THEN durable ELSE m
  BY DEF Crash
<1>2. /\ mode' = "down" /\ replayed' = 0
      /\ activeMem' = NoMem /\ immMem' = NoMem /\ walOpen' = FALSE
      /\ flusher' = NoThread /\ stage' = "none" /\ job' = NoMem
      /\ \A c \in Clients : pc'[c] = "idle"
      /\ UNCHANGED <<sst, l0, writes>>
  BY DEF Crash, ReleaseFlushLock, Threads
<1>3. /\ durable \in Nat /\ writes \in Nat /\ durable <= m /\ m <= writes /\ m \in Nat
      /\ durable' \in Nat /\ durable <= durable' /\ durable' <= m
      /\ SyncAlways \in BOOLEAN /\ (SyncAlways => m = durable')
  <2>1. durable \in 0..writes /\ writes \in Nat /\ SyncAlways \in BOOLEAN
    BY TypeFacts
  <2>2. SyncAlways => durable = writes
    BY DEF RInv, SafeFromCrash
  <2> QED BY <1>1, <2>1, <2>2
<1>4. /\ DOMAIN walFiles' = DOMAIN walFiles
      /\ \A w \in DOMAIN walFiles : \A r : r \in walFiles'[w] <=> r \in walFiles[w] /\ r.seq <= m
  BY <1>1
<1>5. \A w \in DOMAIN walFiles : w # 0 /\ 0 < w /\ \A r \in walFiles[w] : r.key \in Keys /\ r.seq \in Nat
  BY TypeFacts, EntryFacts
<1>6. \A i \in 1..Len(l0), k \in Keys : sst[l0[i]][k].seq <= durable /\ sst[l0[i]][k].seq \in Nat
  <2>1. \A i \in 1..Len(l0), k \in Keys : sst[l0[i]][k].seq \in Nat
    BY TypeFacts, EntryFacts
  <2> QED BY <2>1 DEF RInv, SafeFromCrash, OnDisk
<1>7. AllInHist'
  <2>1. \A r, q \in hist : r.seq = q.seq => r = q
    BY DEF RInv, AllInHist
  <2>2. \A r, q \in hist' : r.seq = q.seq => r = q
    BY <2>1, <1>1
  <2>3. \A w \in DOMAIN walFiles' : walFiles'[w] \subseteq hist'
    BY <1>1, <1>4 DEF RInv, AllInHist
  <2>4. InHist(activeMem.data)' /\ InHist(immMem.data)' /\ InHist(job.data)'
    BY <1>2, NoMemFacts DEF InHist
  <2>5. \A i \in 1..Len(l0), k \in Keys : sst[l0[i]][k].seq <= m
    BY <1>3, <1>6
  <2>6. \A i \in 1..Len(l0') : InHist(sst[l0[i]])'
    BY <1>1, <1>2, <2>5 DEF RInv, AllInHist, InHist
  <2> QED BY <2>2, <2>3, <2>4, <2>6 DEF AllInHist
<1>8. SafeFromCrash'
  <2>1. OnDisk(immMem.data)' /\ OnDisk(job.data)'
    BY <1>2, <1>3, NoMemFacts DEF OnDisk
  <2>2. \A i \in 1..Len(l0), k \in Keys : sst[l0[i]][k].seq <= durable'
    BY <1>3, <1>6
  <2>3. \A i \in 1..Len(l0') : OnDisk(sst[l0[i]])'
    BY <2>2, <1>2 DEF OnDisk
  <2>4. \A r \in hist' : r.seq <= durable'
    BY <1>1, <1>3
  <2>5. SyncAlways => durable' = writes'
    BY <1>1, <1>2 DEF RInv, SafeFromCrash
  <2> QED BY <2>1, <2>3, <2>4, <2>5 DEF SafeFromCrash
<1>9. MemsAreLogged'
  BY <1>2, NoMemFacts DEF MemsAreLogged, HasLogged
<1>10. LogsInOrder'
  BY <1>4 DEF RInv, LogsInOrder
<1>11. TablesInOrder'
  BY <1>2 DEF RInv, TablesInOrder, Below
<1>12. TablesBelowLogs'
  <2> SUFFICES ASSUME NEW i \in 1..Len(l0), NEW w \in DOMAIN walFiles, NEW r \in walFiles'[w],
                      sst[l0[i]][r.key].seq >= r.seq
               PROVE  sst[l0[i]][r.key] \in walFiles'[w]
    BY <1>2, <1>4 DEF TablesBelowLogs
  <2>1. r \in walFiles[w] /\ r.key \in Keys
    BY <1>4, <1>5
  <2>2. sst[l0[i]][r.key] \in walFiles[w]
    BY <2>1 DEF RInv, TablesBelowLogs
  <2>3. sst[l0[i]][r.key].seq <= m
    BY <2>1, <1>3, <1>6
  <2> QED BY <2>2, <2>3, <1>4
<1>13. MemsInOrder'
  <2>1. Below(immMem.data, activeMem.data)' /\ activeMem'.id = immMem'.id
    BY <1>2, NoMemFacts DEF Below
  <2>2. \A i \in 1..Len(l0') : Below(sst[l0[i]], activeMem.data)' /\ Below(sst[l0[i]], immMem.data)'
    BY <1>2, NoMemFacts DEF Below
  <2> QED BY <2>1, <2>2 DEF MemsInOrder
<1>14. LogsOfMems' /\ FlushesImm' /\ TablesShown' /\ AllInView'
  BY <1>2, ThreadsAssumption DEF LogsOfMems, FlushesImm, TablesShown, AllInView, Threads
<1>15. RecoversInOrder'
  BY <1>2, <1>4, <1>5, ThreadsAssumption DEF RecoversInOrder, Threads
<1>16. GetsWait' /\ GetsAreFresh'
  BY <1>2 DEF GetsWait, GetsAreFresh
<1> QED BY <1>2, <1>7, <1>8, <1>9, <1>10, <1>11, <1>12, <1>13, <1>14, <1>15, <1>16 DEF RInv
LEMMA OpenStartR == ASSUME IInv, RInv, OpenStart PROVE RInv'
<1> USE DEF disk, mems, flush, history
<1>1. /\ mode = "down" /\ mode' = "opening" /\ levelTables' = l0
      /\ UNCHANGED <<disk, replayed, mems, flush, pc, get, history>>
  BY DEF OpenStart
<1>2. /\ flusher = NoThread /\ stage = "none"
      /\ \A c \in Clients : pc[c] = "idle"
  BY <1>1 DEF IInv, BeforeOpen, JobInTables, RInv, RecoversInOrder, Threads
<1>3. AllInHist' /\ SafeFromCrash' /\ MemsAreLogged'
  BY <1>1 DEF RInv, AllInHist, InHist, SafeFromCrash, OnDisk, MemsAreLogged, HasLogged
<1>4. LogsInOrder' /\ TablesInOrder' /\ TablesBelowLogs' /\ MemsInOrder'
  BY <1>1 DEF RInv, LogsInOrder, TablesInOrder, Below, TablesBelowLogs, MemsInOrder
<1>5. LogsOfMems' /\ FlushesImm' /\ TablesShown' /\ AllInView'
  BY <1>1, <1>2 DEF RInv, LogsOfMems, FlushesImm, TablesShown, AllInView
<1>6. RecoversInOrder'
  BY <1>1, <1>2, ThreadsAssumption DEF RInv, RecoversInOrder, Threads
<1>7. GetsWait' /\ GetsAreFresh'
  BY <1>1, <1>2 DEF GetsWait, GetsAreFresh
<1> QED BY <1>1, <1>3, <1>4, <1>5, <1>6, <1>7 DEF RInv

\* The memtable that is rebuilt from a log has what the log has.
LEMMA ReplayedMem ==
    ASSUME IInv, RInv, mode = "opening", Pending # {}
    PROVE  /\ FirstWAL \in DOMAIN walFiles /\ \A w \in DOMAIN walFiles : FirstWAL <= w
           /\ Replay(walFiles[FirstWAL]) \in DataType
           /\ \A r \in walFiles[FirstWAL] : Replay(walFiles[FirstWAL])[r.key].seq >= r.seq
           /\ \A k \in Keys : Replay(walFiles[FirstWAL])[k] # NoEntry =>
                 /\ Replay(walFiles[FirstWAL])[k] \in walFiles[FirstWAL]
                 /\ Replay(walFiles[FirstWAL])[k].key = k
           /\ InHist(Replay(walFiles[FirstWAL])) /\ OnDisk(Replay(walFiles[FirstWAL]))
<1>1. FirstWAL \in DOMAIN walFiles /\ \A w \in DOMAIN walFiles : FirstWAL <= w
  <2>1. Pending = DOMAIN walFiles
    BY DEF Pending, RInv, RecoversInOrder
  <2>2. Pending \in SUBSET Nat
    BY <2>1, TypeFacts
  <2> QED BY <2>1, <2>2, MinExists DEF FirstWAL
<1>2. /\ walFiles[FirstWAL] \subseteq EntryTypes /\ writes \in Nat /\ walFiles[FirstWAL] \subseteq hist
      /\ durable \in Nat
  BY <1>1, TypeFacts DEF RInv, AllInHist
<1>3. /\ Replay(walFiles[FirstWAL]) \in DataType
      /\ \A r \in walFiles[FirstWAL] : Replay(walFiles[FirstWAL])[r.key].seq >= r.seq
  BY <1>2, ReplayFacts
<1>4. ASSUME NEW k \in Keys, Replay(walFiles[FirstWAL])[k] # NoEntry
      PROVE  /\ Replay(walFiles[FirstWAL])[k] \in walFiles[FirstWAL]
             /\ Replay(walFiles[FirstWAL])[k].key = k
  <2>1. Replay(walFiles[FirstWAL])[k] = Newest(walFiles[FirstWAL], k)
    BY DEF Replay
  <2> QED BY <1>2, <1>4, <2>1, NewestInLog
<1> DEFINE data == Replay(walFiles[FirstWAL])
<1> HIDE DEF data
<1>5. InHist(data)
  BY <1>2, <1>4 DEF InHist, data
<1>6. OnDisk(data)
  <2>1. \A r \in hist : r.seq <= durable
    BY DEF RInv, SafeFromCrash
  <2>2. \A k \in Keys : data[k] = NoEntry => data[k].seq <= durable
    BY <1>2 DEF NoEntry
  <2> QED BY <1>5, <2>1, <2>2 DEF OnDisk, InHist
<1> QED BY <1>1, <1>3, <1>4, <1>5, <1>6 DEF data

LEMMA ReplayWALR == ASSUME IInv, RInv, ReplayWAL PROVE RInv'
<1> DEFINE mem == Mem(FirstWAL, Replay(walFiles[FirstWAL]))
<1> USE DEF mems, history, tables
<1>1. /\ mode = "opening" /\ flusher = NoThread /\ stage = "none" /\ Pending # {} /\ job = NoMem
      /\ activeMem = NoMem /\ immMem = NoMem
      /\ \A c \in Clients : pc[c] = "idle"
      /\ UNCHANGED <<tables, mode, mems, pc, get, history>>
  BY DEF ReplayWAL, IInv, JobInTables, BeforeOpen, Threads
<1>2. /\ mem.id = FirstWAL /\ FirstWAL \in DOMAIN walFiles
      /\ \A w \in DOMAIN walFiles : FirstWAL <= w /\ w \in Nat
      /\ \A k \in Keys : mem.data[k] # NoEntry => mem.data[k] \in walFiles[FirstWAL]
      /\ InHist(mem.data) /\ OnDisk(mem.data)
  <2>1. \A w \in DOMAIN walFiles : w \in Nat
    BY TypeFacts
  <2> QED BY <1>1, <2>1, ReplayedMem DEF Mem
<1>3. NoThread # Opener /\ Opener # Worker /\ NoThread # Worker
  BY ThreadsAssumption DEF Threads
<1>4. \/ /\ flusher' = Opener /\ job' = mem /\ stage' = "build" /\ UNCHANGED <<walFiles, replayed>>
      \/ /\ walFiles' = [w \in DOMAIN walFiles \ {mem.id} |-> walFiles[w]]
         /\ replayed' = mem.id
         /\ UNCHANGED flush
  BY DEF ReplayWAL
<1> HIDE DEF mem
<1>5. GetsWait' /\ GetsAreFresh'
  BY <1>1 DEF GetsWait, GetsAreFresh
<1>6. TablesInOrder'
  BY <1>1 DEF RInv, TablesInOrder, Below
<1>7. CASE flusher' = Opener /\ job' = mem /\ stage' = "build" /\ UNCHANGED <<walFiles, replayed>>
  <2>1. AllInHist' /\ SafeFromCrash'
    BY <1>1, <1>2, <1>7 DEF RInv, AllInHist, InHist, SafeFromCrash, OnDisk
  <2>2. MemsAreLogged'
    BY <1>1, <1>2, <1>7 DEF RInv, MemsAreLogged, HasLogged
  <2>3. LogsInOrder' /\ TablesBelowLogs' /\ MemsInOrder'
    BY <1>1, <1>7 DEF RInv, LogsInOrder, Below, TablesBelowLogs, MemsInOrder
  <2>4. LogsOfMems' /\ TablesShown' /\ AllInView'
    BY <1>1, <1>7 DEF RInv, LogsOfMems, TablesShown, AllInView
  <2>5. FlushesImm' /\ RecoversInOrder'
    BY <1>1, <1>2, <1>3, <1>7 DEF RInv, FlushesImm, RecoversInOrder
  <2> QED BY <1>1, <1>5, <1>6, <2>1, <2>2, <2>3, <2>4, <2>5 DEF RInv
<1>8. CASE /\ walFiles' = [w \in DOMAIN walFiles \ {mem.id} |-> walFiles[w]]
           /\ replayed' = mem.id
           /\ UNCHANGED flush
  <2> USE DEF flush
  <2>1. /\ DOMAIN walFiles' = DOMAIN walFiles \ {FirstWAL}
        /\ \A w \in DOMAIN walFiles' : walFiles'[w] = walFiles[w] /\ FirstWAL < w
    <3>1. DOMAIN walFiles' = DOMAIN walFiles \ {FirstWAL}
      BY <1>2, <1>8
    <3> QED BY <1>2, <1>8, <3>1
  <2>2. AllInHist'
    BY <1>1, <1>8, <2>1 DEF RInv, AllInHist, InHist
  <2>3. SafeFromCrash' /\ MemsAreLogged'
    BY <1>1, <1>8, <2>1 DEF RInv, SafeFromCrash, OnDisk, MemsAreLogged, HasLogged
  <2>4. LogsInOrder' /\ TablesBelowLogs' /\ MemsInOrder'
    <3>1. LogsInOrder'
      BY <2>1 DEF RInv, LogsInOrder
    <3>2. TablesBelowLogs'
      BY <1>1, <2>1 DEF RInv, TablesBelowLogs
    <3>3. MemsInOrder'
      BY <1>1, <2>1 DEF RInv, MemsInOrder, Below
    <3> QED BY <3>1, <3>2, <3>3
  <2>5. LogsOfMems' /\ TablesShown' /\ AllInView'
    BY <1>1, <1>8, <2>1 DEF RInv, LogsOfMems, TablesShown, AllInView
  <2>6. FlushesImm' /\ RecoversInOrder'
    BY <1>1, <1>2, <1>3, <1>8, <2>1 DEF RInv, FlushesImm, RecoversInOrder
  <2> QED BY <1>1, <1>5, <1>6, <2>2, <2>3, <2>4, <2>5, <2>6 DEF RInv
<1> QED BY <1>4, <1>7, <1>8

\* Open is done: what is not in the tables is in the active memtable.
LEMMA KeepLastWALR == ASSUME IInv, RInv, KeepLastWAL PROVE RInv'
<1> DEFINE mem == Mem(FirstWAL, Replay(walFiles[FirstWAL]))
<1> USE DEF disk, flush, history
<1>1. /\ mode = "opening" /\ mode' = "open" /\ flusher = NoThread /\ stage = "none" /\ Pending # {}
      /\ job = NoMem /\ immMem = NoMem /\ activeMem' = mem /\ replayed' = 0
      /\ \A w \in Pending : w = FirstWAL
      /\ \A c \in Clients : pc[c] = "idle"
      /\ UNCHANGED <<disk, immMem, levelTables, flush, pc, get, history>>
  BY DEF KeepLastWAL, IInv, JobInTables, BeforeOpen, Threads
<1>2. /\ mem.id = FirstWAL /\ FirstWAL \in DOMAIN walFiles /\ mem.data \in DataType
      /\ \A r \in walFiles[FirstWAL] : mem.data[r.key].seq >= r.seq
      /\ \A k \in Keys : mem.data[k] # NoEntry => mem.data[k] \in walFiles[FirstWAL] /\ mem.data[k].key = k
      /\ InHist(mem.data)
  BY <1>1, ReplayedMem DEF Mem
<1> HIDE DEF mem
<1>3. /\ \A w \in DOMAIN walFiles : w = FirstWAL
      /\ \A w \in DOMAIN walFiles : 0 < w /\ w <= FirstWAL
      /\ FirstWAL \in Nat
      /\ \A w \in DOMAIN walFiles : \A r \in walFiles[w] : r.key \in Keys /\ r.seq \in Nat /\ 0 < r.seq
  <2>1. Pending = DOMAIN walFiles
    BY DEF Pending, RInv, RecoversInOrder
  <2>2. nextID \in Nat /\ writes \in Nat /\ DOMAIN walFiles \subseteq 1..(nextID - 1)
    BY TypeFacts
  <2>3. \A w \in DOMAIN walFiles : \A r \in walFiles[w] : r.key \in Keys /\ r.seq \in 1..writes
    BY TypeFacts, EntryFacts
  <2> QED BY <1>1, <1>2, <2>1, <2>2, <2>3
<1>4. \A i \in 1..Len(l0) : Below(sst[l0[i]], mem.data)
  BY <1>2, LogAboveTables
<1>5. AllInHist' /\ SafeFromCrash'
  BY <1>1, <1>2 DEF RInv, AllInHist, InHist, SafeFromCrash, OnDisk
<1>6. MemsAreLogged'
  BY <1>1, <1>2 DEF RInv, MemsAreLogged, HasLogged
<1>7. LogsInOrder' /\ TablesInOrder' /\ TablesBelowLogs'
  BY <1>1 DEF RInv, LogsInOrder, TablesInOrder, Below, TablesBelowLogs
<1>8. MemsInOrder'
  <2>1. \A k \in Keys : mem.data[k].seq \in Nat
    <3> DEFINE d == mem.data
    <3> HIDE DEF d
    <3>1. d \in DataType /\ writes \in Nat
      BY <1>2, TypeFacts DEF d
    <3>2. \A k \in Keys : d[k].seq \in Nat
      BY <3>1, DataFacts
    <3> QED BY <3>2 DEF d
  <2>2. Below(NoMem.data, mem.data) /\ \A i \in 1..Len(l0) : Below(sst[l0[i]], NoMem.data)
    BY <2>1, NoMemFacts DEF Below
  <2>3. \A k \in Keys, r \in walFiles[FirstWAL] : NoMem.data[k].seq < r.seq
    BY <1>2, <1>3, NoMemFacts
  <2> QED BY <1>1, <1>2, <1>4, <2>2, <2>3 DEF MemsInOrder, Below
<1>9. LogsOfMems' /\ TablesShown'
  BY <1>1, <1>2, <1>3 DEF RInv, LogsOfMems, TablesShown
<1>10. FlushesImm' /\ RecoversInOrder'
  BY <1>1, <1>3, ThreadsAssumption DEF RInv, FlushesImm, RecoversInOrder, Threads
<1>11. AllInView'
  <2> SUFFICES ASSUME NEW r \in hist
               PROVE  \/ mem.data[r.key].seq >= r.seq
                      \/ \E i \in 1..Len(l0) : sst[l0[i]][r.key].seq >= r.seq
    BY <1>1 DEF AllInView, RInv, TablesShown
  <2> QED BY <1>2, <1>3 DEF IInv, EveryWriteOnDisk
<1>12. GetsWait' /\ GetsAreFresh'
  BY <1>1 DEF GetsWait, GetsAreFresh
<1> QED BY <1>1, <1>5, <1>6, <1>7, <1>8, <1>9, <1>10, <1>11, <1>12 DEF RInv

LEMMA OpenFreshR == ASSUME IInv, RInv, OpenFresh PROVE RInv'
<1> DEFINE mem == Mem(nextID, EmptyData)
<1> USE DEF tables, flush, history
<1>1. /\ mode = "opening" /\ mode' = "open" /\ flusher = NoThread /\ stage = "none" /\ Pending = {}
      /\ job = NoMem /\ immMem = NoMem /\ activeMem' = mem /\ replayed' = 0
      /\ walFiles' = [w \in DOMAIN walFiles \cup {nextID} |->
                        IF w = nextID THEN {} ELSE walFiles[w]]
      /\ \A c \in Clients : pc[c] = "idle"
      /\ UNCHANGED <<tables, immMem, flush, pc, get, history>>
  BY DEF OpenFresh, IInv, JobInTables, BeforeOpen, Threads
<1>2. DOMAIN walFiles = {}
  BY <1>1 DEF Pending, RInv, RecoversInOrder
<1>3. /\ DOMAIN walFiles' = {nextID} /\ walFiles'[nextID] = {}
      /\ nextID \in Nat /\ 0 < nextID
      /\ mem.id = nextID /\ \A k \in Keys : mem.data[k] = NoEntry
  BY <1>1, <1>2, TypeFacts DEF Mem, EmptyData
<1> HIDE DEF mem
<1>4. AllInHist'
  BY <1>1, <1>3 DEF RInv, AllInHist, InHist
<1>5. SafeFromCrash'
  BY <1>1 DEF RInv, SafeFromCrash, OnDisk
<1>6. MemsAreLogged'
  BY <1>1, <1>3, NoMemFacts DEF MemsAreLogged, HasLogged
<1>7. LogsInOrder' /\ TablesInOrder' /\ TablesBelowLogs'
  BY <1>1, <1>3 DEF RInv, LogsInOrder, TablesInOrder, Below, TablesBelowLogs
<1>8. MemsInOrder'
  BY <1>1, <1>3, NoMemFacts DEF MemsInOrder, Below
<1>9. LogsOfMems' /\ TablesShown'
  BY <1>1, <1>3 DEF RInv, LogsOfMems, TablesShown
<1>10. FlushesImm' /\ RecoversInOrder'
  BY <1>1, <1>3, ThreadsAssumption DEF RInv, FlushesImm, RecoversInOrder, Threads
<1>11. AllInView'
  <2> SUFFICES ASSUME NEW r \in hist
               PROVE  \E i \in 1..Len(l0) : sst[l0[i]][r.key].seq >= r.seq
    BY <1>1 DEF AllInView, RInv, TablesShown
  <2> QED BY <1>2 DEF IInv, EveryWriteOnDisk
<1>12. GetsWait' /\ GetsAreFresh'
  BY <1>1 DEF GetsWait, GetsAreFresh
<1> QED BY <1>1, <1>4, <1>5, <1>6, <1>7, <1>8, <1>9, <1>10, <1>11, <1>12 DEF RInv
-----------------------------------------------------------------------------
LEMMA StutterR == ASSUME IInv, RInv, UNCHANGED vars PROVE RInv'
<1>1. GetsWait' /\ GetsAreFresh'
  BY GetsWaitKept DEF vars, disk, history, RInv, GetsAreFresh
<1> QED BY <1>1, QuietRStep DEF vars, disk, history

\* Every step preserves the invariant.
LEMMA NextKeepsRInv ==
    ASSUME NoFlushes, LogsAreRemoved, IInv, RInv, [Next]_vars
    PROVE  RInv'
<1>1. CASE UNCHANGED vars
  BY <1>1, StutterR
<1>2. ASSUME NEW c \in Clients, NEW k \in Keys,
             Put(c, k) \/ Delete(c, k) \/ GetFromMem(c, k)
      PROVE  RInv'
  BY <1>2, WriteR, GetFromMemR DEF Put, Delete, Ops
<1>3. ASSUME NEW c \in Clients,
             Rotate(c) \/ TriggerFlush(c) \/ GetFromDisk(c) \/ GetReturn(c)
      PROVE  RInv'
  BY <1>3, RotateR, TriggerFlushR, GetFromDiskR, GetReturnR
<1>4. CASE PeriodicSync \/ WorkerWake
  BY <1>4, PeriodicSyncR, WorkerWakeR
<1>5. ASSUME NEW f \in Flushers PROVE FALSE
  BY <1>5 DEF NoFlushes
<1>6. ASSUME NEW t \in Flushers \cup {Worker}, FlushLock(t) PROVE RInv'
  BY <1>6, FlushLockR DEF NoFlushes
<1>7. CASE FlushStep
  BY <1>7, FlushBuildR, FlushCommitR, FlushInstallR, FlushClearR, FlushUnlinkR, FlushFailR,
     OpenFailR DEF FlushStep
<1>8. CASE Crash
  BY <1>8, CrashR
<1>9. CASE Recover
  BY <1>9, OpenStartR, ReplayWALR, KeepLastWALR, OpenFreshR DEF Recover
<1> QED BY <1>1, <1>2, <1>3, <1>4, <1>5, <1>6, <1>7, <1>8, <1>9 DEF Next

\* The invariant holds of every reachable state.
THEOREM RInvariance == ASSUME NoFlushes, LogsAreRemoved PROVE Spec => []RInv
<1>1. Init => RInv
  BY InitRInv
<1>2. IInv /\ RInv /\ [Next]_vars => RInv'
  BY NextKeepsRInv
<1> QED BY <1>1, <1>2, Invariance, PTL DEF Spec

\* A Get answers with nothing older than the newest write of its key at the time it read
\* the memtables: Get releases e.mu before it reads the tables, and in between the
\* memtable it missed may be flushed, its table installed and the memtable dropped.
THEOREM GetsFresh == ASSUME NoFlushes, LogsAreRemoved PROVE Spec => []GetsAreFresh
<1>1. RInv => GetsAreFresh
  BY DEF RInv
<1> QED BY <1>1, RInvariance, PTL

\* At every moment, during rotation, flushing and recovery, what a reader finds, or
\* what recovery would rebuild, is the newest write of each key.
THEOREM NewestInView == ASSUME NoFlushes, LogsAreRemoved PROVE Spec => []ViewIsNewest
<1>1. IInv /\ RInv => ViewIsNewest
  BY ViewFacts
<1> QED BY <1>1, Invariance, RInvariance, PTL
-----------------------------------------------------------------------------
\* The engine's steps, as the abstract store sees them.
LEMMA KVReplay == \A S : KV!Replay(S) = Replay(S)
BY DEF Replay, Newest, NoEntry, KV!Replay, KV!Newest, KV!NoEntry

LEMMA ViewIsReplay == ViewIsNewest => View = Replay(hist)
BY DEF ViewIsNewest, View, Replay

\* A step is a write, a crash, or one that only makes writes durable, if that.
LEMMA StepKinds ==
    ASSUME IInv, [Next]_vars
    PROVE  \/ \E c \in Clients, k \in Keys, op \in Ops : Write(c, k, op)
           \/ Crash
           \/ hist' = hist /\ writes' = writes /\ durable' \in {durable, writes}
<1>1. RotateMemTable => durable' = writes
  BY DEF RotateMemTable
<1>2. CASE UNCHANGED vars
  BY <1>2 DEF vars, history
<1>3. ASSUME NEW c \in Clients, NEW k \in Keys, Put(c, k) \/ Delete(c, k)
      PROVE  \E d \in Clients, j \in Keys, op \in Ops : Write(d, j, op)
  BY <1>3 DEF Put, Delete, Ops
<1>4. ASSUME NEW c \in Clients,
             \/ \E k \in Keys : GetFromMem(c, k)
             \/ Rotate(c) \/ TriggerFlush(c) \/ GetFromDisk(c) \/ GetReturn(c)
      PROVE  hist' = hist /\ writes' = writes /\ durable' \in {durable, writes}
  BY <1>1, <1>4 DEF GetFromMem, Rotate, TriggerFlush, GetFromDisk, GetReturn, history
<1>5. CASE PeriodicSync \/ WorkerWake
  BY <1>5 DEF PeriodicSync, WorkerWake, history
<1>6. ASSUME NEW f \in Flushers, FlushCall(f) \/ FlushRerotate(f)
      PROVE  hist' = hist /\ writes' = writes /\ durable' \in {durable, writes}
  BY <1>1, <1>6 DEF FlushCall, FlushRerotate
<1>7. ASSUME NEW t \in Flushers \cup {Worker}, FlushLock(t)
      PROVE  hist' = hist /\ writes' = writes /\ durable' \in {durable, writes}
  BY <1>7 DEF FlushLock, history
<1>8. CASE FlushStep
  BY <1>1, <1>8 DEF FlushStep, FlushBuild, FlushCommit, FlushInstall, FlushClear, FlushUnlink,
     FlushFail, OpenFail, BuildFails, history
<1>9. CASE Recover
  BY <1>9 DEF Recover, OpenStart, ReplayWAL, KeepLastWAL, OpenFresh, history
<1> QED BY <1>2, <1>3, <1>4, <1>5, <1>6, <1>7, <1>8, <1>9 DEF Next

\* A write becomes the newest of its key and changes no other.
LEMMA WriteIsKVWrite ==
    ASSUME IInv, RInv, ViewIsNewest, ViewIsNewest',
           NEW c \in Clients, NEW k \in Keys, NEW op \in Ops, Write(c, k, op)
    PROVE  KV!KVWrite(k, op)
<1> DEFINE e == [key |-> k, seq |-> writes + 1, op |-> op]
<1>1. /\ hist' = hist \cup {e} /\ durable' \in {durable, writes + 1}
      /\ writes < MaxWrites /\ writes \in Nat /\ MaxWrites \in Nat
      /\ \A r \in hist : r.seq \in Nat /\ r.seq < writes + 1
  <2>1. hist' = hist \cup {e} /\ durable' \in {durable, writes + 1} /\ writes < MaxWrites
    BY DEF Write
  <2>2. writes \in Nat /\ MaxWrites \in Nat /\ hist \subseteq EntryTypes
    BY TypeFacts
  <2> QED BY <2>1, <2>2 DEF EntryTypes
<1>2. e.key = k /\ e.seq = writes + 1
  OBVIOUS
<1> HIDE DEF e
<1>3. /\ \A r \in hist' : r.seq \in Nat
      /\ \A r, q \in hist' : r.seq = q.seq => r = q
      /\ \A r \in hist' : r.key = k => r.seq <= e.seq
  <2>1. \A r, q \in hist : r.seq = q.seq => r = q
    BY DEF RInv, AllInHist
  <2> QED BY <2>1, <1>1, <1>2
<1>4. Newest(hist', k) = e
  <2> DEFINE S == hist'
  <2>1. e \in S
    BY <1>1
  <2> HIDE DEF S
  <2>2. /\ \A r \in S : r.seq \in Nat
        /\ \A r, q \in S : r.seq = q.seq => r = q
        /\ \A r \in S : r.key = k => r.seq <= e.seq
    BY <1>3 DEF S
  <2>3. Newest(S, e.key) = e
    BY <1>2, <2>1, <2>2, NewestIs
  <2> QED BY <1>2, <2>3 DEF S
<1>5. \A j \in Keys \ {k} : Newest(hist', j) = Newest(hist, j)
  <2> SUFFICES ASSUME NEW j \in Keys \ {k} PROVE Newest(hist', j) = Newest(hist, j)
    OBVIOUS
  <2>1. {r \in hist' : r.key = j} = {r \in hist : r.key = j}
    BY <1>1, <1>2
  <2> DEFINE pick(R) == IF R = {} THEN NoEntry ELSE CHOOSE r \in R : \A q \in R : q.seq <= r.seq
  <2>2. /\ Newest(hist', j) = pick({r \in hist' : r.key = j})
        /\ Newest(hist, j) = pick({r \in hist : r.key = j})
    BY DEF Newest
  <2> HIDE DEF pick
  <2> QED BY <2>1, <2>2
<1>6. View' = [View EXCEPT ![k] = e]
  <2>1. View = [j \in Keys |-> Newest(hist, j)] /\ View' = [j \in Keys |-> Newest(hist', j)]
    BY DEF ViewIsNewest, View
  <2> QED BY <2>1, <1>4, <1>5
<1>7. writes + 1 \in 1..MaxWrites
  BY <1>1
<1> QED BY <1>1, <1>6, <1>7 DEF KV!KVWrite, e

\* A crash leaves the writes up to one that had been made durable, or a later one.
LEMMA CrashIsKVCrash ==
    ASSUME IInv, RInv, ViewIsNewest', Crash
    PROVE  KV!KVCrash
<1>1. PICK m \in durable..writes :
        /\ hist' = {r \in hist : r.seq <= m}
        /\ durable' = IF SyncAlways THEN durable ELSE m
  BY DEF Crash
<1>2. /\ durable \in 0..writes /\ writes \in Nat /\ writes <= MaxWrites /\ MaxWrites \in Nat
      /\ SyncAlways \in BOOLEAN /\ (SyncAlways => durable = writes)
  BY TypeFacts DEF RInv, SafeFromCrash
<1>3. durable' = m /\ m \in durable..MaxWrites
  BY <1>1, <1>2
<1>4. View' = Replay(hist')
  BY DEF ViewIsNewest, View, Replay
<1> QED BY <1>1, <1>3, <1>4, KVReplay DEF KV!KVCrash

LEMMA StepImplements ==
    ASSUME IInv, RInv, ViewIsNewest, ViewIsNewest', [Next]_vars
    PROVE  [KV!KVNext]_(KV!kvVars)
<1>1. ASSUME NEW c \in Clients, NEW k \in Keys, NEW op \in Ops, Write(c, k, op)
      PROVE  KV!KVNext
  <2>1. op \in KV!Ops
    BY DEF Ops, OpPut, OpDelete, KV!Ops, KV!OpPut, KV!OpDelete
  <2> QED BY <1>1, <2>1, WriteIsKVWrite DEF KV!KVNext
<1>2. CASE Crash
  BY <1>2, CrashIsKVCrash DEF KV!KVNext
<1>3. CASE hist' = hist /\ writes' = writes /\ durable' \in {durable, writes}
  <2>1. View' = View
    BY <1>3 DEF ViewIsNewest, View
  <2>2. durable' \in durable..MaxWrites
    BY <1>3, TypeFacts DEF RInv
  <2> QED BY <1>3, <2>1, <2>2 DEF KV!KVNext, KV!KVSync
<1> QED BY <1>1, <1>2, <1>3, StepKinds

LEMMA InitImplements == Init => KV!KVInit
<1> SUFFICES ASSUME Init PROVE KV!KVInit
  OBVIOUS
<1>1. hist = {} /\ durable = 0
  BY DEF Init
<1>2. ViewIsNewest
  BY InitIInv, InitRInv, ViewFacts
<1>3. View = EmptyData
  BY <1>1, <1>2 DEF ViewIsNewest, View, Newest, EmptyData
<1> QED BY <1>1, <1>3 DEF KV!KVInit, KV!EmptyData, KV!NoEntry, EmptyData, NoEntry

\* The engine implements the abstract store: readers see a map from keys to the newest
\* write of each, which rotation, flushing and recovery do not change, and a crash cuts
\* off a suffix of the writes that were not synced (README: `newer timestamps supersede
\* older versions'; SyncAlways).
THEOREM EngineImplementsStore ==
    ASSUME NoFlushes, LogsAreRemoved PROVE Spec => ImplementsKVStore
<1>1. Init => KV!KVInit
  BY InitImplements
<1>2. IInv /\ RInv /\ ViewIsNewest /\ ViewIsNewest' /\ [Next]_vars => [KV!KVNext]_(KV!kvVars)
  BY StepImplements
<1>3. Spec => []ViewIsNewest
  BY NewestInView
<1> QED BY <1>1, <1>2, <1>3, Invariance, RInvariance, PTL DEF Spec, ImplementsKVStore, KV!KVSpec
=============================================================================
