----------------------------- MODULE EngineProps -----------------------------
(***************************************************************************)
(* What the engine of module Engine promises.                              *)
(***************************************************************************)
EXTENDS Engine

EntryTypes == [key : Keys, seq : 1..writes, op : Ops]
DataType   == [Keys -> EntryTypes \cup {NoEntry}]
MemType    == [id : 0..(nextID - 1), data : DataType]

PlaceType == {"idle", "rotate", "trigger", "disk", "got", "call", "first", "again", "last"}
StageType == {"none", "build", "commit", "install", "clear", "unlink"}

DiskTypes ==
    /\ nextID \in Nat \ {0}
    /\ DOMAIN walFiles \subseteq 1..(nextID - 1)
    /\ walFiles \in [DOMAIN walFiles -> SUBSET EntryTypes]
    /\ DOMAIN sst \subseteq 1..(nextID - 1)
    /\ sst \in [DOMAIN sst -> DataType]
    /\ l0 \in Seq(DOMAIN sst)

MemoryTypes ==
    /\ mode \in {"down", "opening", "open"}
    /\ replayed \in 0..(nextID - 1)
    /\ activeMem \in MemType
    /\ immMem \in MemType
    /\ levelTables \in Seq(DOMAIN sst)

FlushTypes ==
    /\ flusher \in Threads \cup {NoThread}
    /\ stage \in StageType
    /\ job \in MemType
    /\ sstID \in 0..(nextID - 1)

ThreadTypes ==
    /\ pc \in [Threads -> PlaceType]
    /\ DOMAIN get = Clients

FlagTypes == walOpen \in BOOLEAN /\ flushChan \in BOOLEAN /\ more \in BOOLEAN

HistoryTypes ==
    /\ hist \subseteq EntryTypes
    /\ writes \in Nat
    /\ durable \in 0..writes
    /\ flushes \in Nat /\ crashes \in Nat /\ faults \in Nat

\* Every variable has its type, and every id in use was issued by NextID.
TypeOK == DiskTypes /\ MemoryTypes /\ FlushTypes /\ ThreadTypes /\ FlagTypes /\ HistoryTypes
-----------------------------------------------------------------------------
\* The newest surviving write of every key, as a reader would find it now, or
\* as recovery would rebuild it from the files.
Rebuilt(k) ==
    LET Holding == {w \in Pending : Newest(walFiles[w], k) # NoEntry}
    IN  IF Holding = {} THEN FindInL0(l0, k)
        ELSE Newest(walFiles[CHOOSE w \in Holding : \A v \in Holding : v <= w], k)

Found(k) == IF FindInMem(k) # NoEntry THEN FindInMem(k) ELSE FindInL0(levelTables, k)

View == [k \in Keys |-> IF mode = "open" THEN Found(k) ELSE Rebuilt(k)]

KV == INSTANCE KVStore WITH log <- hist, store <- View, synced <- durable

\* The engine implements the store of module KVStore: what a reader can see is
\* always the newest write of every key, rotation, flushing and recovery change
\* nothing that can be seen, and a crash loses unsynced writes only, the newest
\* first.  (README: newer versions supersede older ones, no synced write is lost.)
ImplementsKVStore == KV!KVSpec

\* No write is ever lost: each one is in a WAL file, or level 0 of the manifest
\* has a table with it or with a newer write of its key.  This is what lets
\* flushImmutable and recoverWAL remove WAL files.
EveryWriteOnDisk ==
    \A r \in hist :
        \/ \E w \in DOMAIN walFiles : r \in walFiles[w]
        \/ \E i \in 1..Len(l0) : sst[l0[i]][r.key].seq >= r.seq

\* A Get never returns anything older than the newest write at the time it read
\* the memtables, although the memtable it missed may be flushed, and its tables
\* installed, before it reads the tables (Get releases e.mu in between).
GetsAreFresh ==
    \A c \in Clients : pc[c] = "got" => get[c].got.seq >= get[c].floor

\* What readers search is what is committed: level 0 of the manifest, less the
\* table that is being installed.
TablesMatchManifest ==
    mode = "open" /\ stage # "install" => levelTables = l0

\* Why no write is lost.  Every memtable in use has what its WAL file holds, or
\* something newer; ...
Covers(mem) ==
    mem.id \in DOMAIN walFiles =>
        \A r \in walFiles[mem.id] : mem.data[r.key].seq >= r.seq

MemsCoverLogs == Covers(activeMem) /\ Covers(immMem) /\ Covers(job)

\* ... the WAL that is written to is the active memtable's and of no other, so
\* that what is added to it is in the memtable and its file is not removed; ...
LogOwned ==
    walOpen => /\ mode = "open"
               /\ activeMem.id \in DOMAIN walFiles
               /\ immMem.id # activeMem.id
               /\ job.id # activeMem.id

\* ... before Open is done there are no memtables, and nothing runs but recovery; ...
BeforeOpen ==
    /\ mode # "open" => /\ activeMem = NoMem /\ immMem = NoMem
                        /\ flusher \in {NoThread, Opener}
                        /\ \A t \in Threads : pc[t] = "idle"
    /\ flusher = Opener => mode # "open" /\ stage # "clear"

\* ... and once a flush has passed the manifest, its memtable is in level 0.
JobInTables ==
    /\ flusher = NoThread <=> stage = "none"
    /\ flusher = NoThread => job = NoMem
    /\ stage = "commit" => sstID \in DOMAIN sst /\ sst[sstID] = job.data
    /\ stage \in {"install", "clear", "unlink"} =>
         \/ job.data = EmptyData
         \/ \E i \in 1..Len(l0) : sst[l0[i]] = job.data

\* The inductive invariant from which EveryWriteOnDisk is proved.
IInv ==
    /\ TypeOK
    /\ MemsCoverLogs
    /\ LogOwned
    /\ BeforeOpen
    /\ JobInTables
    /\ EveryWriteOnDisk
-----------------------------------------------------------------------------
\* A full active memtable behind an unflushed immutable one stops every writer,
\* but not for ever (engine.go: `back off briefly so disk I/O can catch up').
\* (After a failed flush it may be for ever: nothing signals the worker again.)
StallEnds == Stalled ~> ~Stalled \/ faults > 0

\* Open comes to an end, however many WAL files there are.
OpenReturns == mode = "opening" ~> mode # "opening"

\* The ids that NextID can issue within the bounds: one for each memtable, made by Open,
\* a write or a Flush, and one for its table in each run of the engine that builds it.
MaxID ==
    LET Memtables == (MaxCrashes + 1) + MaxWrites + MaxFlushes
    IN  Memtables + (MaxCrashes + 1) * Memtables + MaxFaults

\* Every memtable that is made immutable is flushed, unless a crash forgets it
\* or something has failed.  (The first conjunct says that MaxID misses no memtable.)
ImmutableFlushed ==
    /\ [](nextID <= MaxID + 1)
    /\ \A i \in 1..MaxID : immMem.id = i ~> immMem.id # i \/ faults > 0
=============================================================================
