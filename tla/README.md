# InLog in TLA+

A verification project for the InLog log aggregator: TLA+ modules that model its storage
engine, its files, its reads, its search engine with the requests that feed it, and its
shutdown, TLC configurations that check them on small instances, and theorems proved
with TLAPS for every value of the constants. Paths below are relative to the repository
(`src/` in `PROJECT.json`); `engine.go` alone is `pkg/lsm/engine.go`.

Contents: 1 the system, 2 the modules, 3 the runs, 4 fairness, 5 the proofs,
6 what the models assume, 7 where code and documents disagree, 8 what is not modelled,
9 plan.

## 1. The system

`lsmd` is one process. HTTP handlers call a log search engine, which keeps documents
and an inverted index in an embedded key-value store, a log-structured merge tree.

| Part | State | Operations | What makes it correct |
|---|---|---|---|
| Storage engine, `pkg/lsm/engine.go` | active and immutable memtable, active WAL, readers and level tables, `flushChan`, `closed`; locks `mu`, `readersMu`, `flushLock` | Put, Delete, Get, Scan, Flush, Compact, Stats, Close; `flushWorker`, `compactionWorker`; Open with `recoverWAL` | a read gives the newest write of its key; no write is lost by rotating, flushing or recovering; a crash loses unsynced writes only, the newest first; stalls end |
| Memtable, `pkg/memtable` | skip list of entries, its length and size | Put, Get, iterate, Seek | finds what was put, iterates in order, knows its size |
| WAL, `pkg/wal` | file, buffer, position of the last sync | Open, Write, Sync, `periodicSyncer`, Close, RecoverWithReport | synced records are replayed by every later recovery; a torn tail never hides what is written behind it |
| SSTable, `pkg/sstable` | blocks, sparse index, Bloom filter, range | Add, Finish; OpenReader, Get, iterate, Seek, Close | a lookup is exact, and an iterator passes every key; a file that lost its end is refused |
| Merging iterator, `pkg/core/merger.go` | a heap of iterators | New, Next, Seek | each key once, in order, from the stream of highest precedence |
| Compaction, `pkg/compactor`, `Engine.Compact` | the levels, the task, the outputs | pick, merge, commit, install, unlink | invisible to readers at every step, and across a crash; levels stay disjoint; level 0 drains |
| Manifest, `pkg/core/manifest.go` (not in the repository) | levels, id counter | NextID, LogAndApply, GetLevelTables | edits are atomic and durable |
| Search engine, `pkg/search` | documents and index keys in the store | Ingest, IngestBatch, Search, GetByID, Aggregate | hits match the whole query; what was ingested is found; pages fit together; a histogram counts each log once |
| Server, `pkg/server`, `cmd/lsmd` | none but the HTTP server's | handlers, Shutdown | an answer says what was done; after a signal everything ends, nothing acknowledged is lost, nobody uses what is closed |
| Client, `cmd/lsmctl` | none | commands | |

How they interact. A writer appends to the WAL and the active memtable under `mu`; when
the memtable is full it makes it immutable, opens the next WAL and signals the flush
worker. The worker (or a caller of Flush) holds `flushLock` while it writes a level 0
table, commits it to the manifest, shows it to readers under `readersMu`, drops the
immutable memtable under `mu` and removes its WAL. Compact holds `flushLock` too. Get
takes `mu` for the memtables and then, having released it, `readersMu` for the tables.
Scan does the same with iterators in place of answers, keeps `readersMu` until the
merged iterator stands on its first entry, and returns it: the caller then reads blocks
with no lock at all, from readers that a compaction may close. Close sets `closed`,
waits for the workers, and then closes the WAL, the readers and the manifest, without
waiting for calls that are still in the engine. Ingest is a Put of the document and then
one for each index key, Search some Scans and then one Get for each candidate; nothing
makes either atomic, and the handlers of the key-value API write to the same keys.

What is hard. Locks are released between the steps of every long operation, so reads,
flushes, explicit Flush calls, compactions and Close interleave; a crash may come
between any two steps that touch the disk; errors are dropped in several places; the
right answer depends on an order (of WAL files, of tables in a level, of inputs of a
merge) that no single function states. `PROJECT.json` lists these hazards with their
lines and the properties that cover them.

## 2. The modules

```
KVStore (abstract)  <--refines--  Engine            Levels --> ReadPath      Shutdown
      \                /  EngineProps --> MCEngine   LevelsProps   ReadProps
       Entries -------'                              MCLevels      MCReadPath
WALFile      MergeIterator      FlushPath = SkipList + SSTable --> MCFlushPath
Search --> Api --> ApiProps --> MCApi

Proofs:  EngineProps --> EngineProofs                   Shutdown      --> ShutdownProofs
         LevelsProps --> LevelsProofs <-- ReadProps     WALFile       --> WALProofs
         ApiProps    --> ApiProofs                      MergeIterator --> MergeProofs
         NatLemmas (numbers and loops, for all)         FlushPath     --> FlushProofs
```

The system is cut where a lock or a file makes a step atomic for the outside. Each
module models its neighbours by what it needs of them: `Engine` takes a WAL as a set of
records that a crash truncates (`WALFile` checks exactly this), a memtable as a map
(`SkipList`), a table as a map (`SSTable`), and level 0 only (`Levels` has the rest,
with a flush as its source of tables). `ReadPath` puts memtables, flushes and compactions
together, for readers; `Api` puts the handlers on top of the search engine.

**`Entries`, `KVStore`.** Entries carry a sequence number that stands for timestamp and
value. `KVStore` is the promise: a write becomes the newest of its key; `KVSync` makes
writes durable; `KVCrash` cuts off writes above some number that is not below
`synced`. It has no flush, no rotation and no recovery: these must be stutters.

**`Engine`.** One action per critical section. `Put` and `Delete` up to the capacity
check, `Rotate` (the same critical section of `mu`, which the writer at `"rotate"`
still holds), `TriggerFlush` after it; `PeriodicSync`; `GetFromMem`, `GetFromDisk`,
`GetReturn`; `WorkerWake`; `FlushCall`, `FlushRerotate`; `FlushLock`, `FlushBuild`,
`FlushCommit`, `FlushInstall`, `FlushClear`, `FlushUnlink` for flushImmutable and
flushMemTableDirect, with `FlushFail` for their error returns; `Crash`; `OpenStart`,
`ReplayWAL` (whose flush takes the same steps with `flusher = Opener`), `KeepLastWAL`,
`OpenFresh`, `OpenFail`. Failures are of three kinds: building a table, opening a WAL
in a rotation, removing a WAL; the last two are silent in the code and so they are
here. `hist`, `writes` and `durable` are history: the writes not cut off by a crash,
their number, and the number up to which they are on disk. `EngineProps` has the
properties and the refinement mapping, `MCEngine` is what the runs check.

**`Levels`.** Tables are maps from keys to entries; the manifest's `levels`, what
readers search (`levelTables`, `readers`) and the files (`sst`) are separate, since
their disagreement is what can go wrong. Compact is four steps (merge, commit,
install, unlink), with a failure before and one after the commit. `Merged` is the
merged iterator's result, which `MergeIterator` checks. `unread` records that a reader
could not be opened after a commit; most properties are stated up to then (section 7).
A flush is two steps, the table in the manifest (`FlushTable`, `FlushCommit`) and its
reader (`FlushInstall`). A lookup in all levels is the operator `Get`.

**`ReadPath`.** Extends `Levels` with the two memtables, a writer and one reader. `Write`
is Put or Delete with a rotation when the memtable may be full: how full it is is not
modelled, so any write may rotate if there is no immutable memtable. The steps of `Levels`
are composed with what they do to the memtables: `FlushStart`, `FlushShow`, `FlushClear`
(which may rotate in turn), `Merge`, `Commit`, `Install`, `Unlink`. A Get is `GetMem` and
`GetTables`; a Scan is `ScanMem`, `ScanTables`, and `ScanStep` for each step of the
merging iterator, up to `ScanReturn` under `readersMu` and after it with no lock. Streams
have places, a memtable or a position in a level, and the first in the order of places
decides (`Precedes`). A stream whose table is closed ends at the end of the block it stands in (`IsCut`), since
SSTableIterator.Next drops the error. History: `hist`, every write; `demoted`, the keys a
compaction has met twice in level 0; in `reader`, the number of the newest write of each
key when the call began, and the keys that were still to come in a closed table (`lost`).
`ReadProps` has the properties.

**`WALFile`.** A file is a sequence of cells, three or more per record, so that any cut
inside a frame is possible; `Spilled` is bufio's rule for what a write passes on;
`Verdict` follows RecoverWithReport branch by branch, including which corruptions are
cut off and which are kept. Three ways of ending: the process dies (the buffer is gone,
a flush under way has passed on a part), the power fails and leaves a prefix of the
unsynced tail, or it leaves a hole in it as well. `log` and `safe` are history: the
records written less those a crash has cut off, and those acknowledged as durable; `kept`
remembers that a recovery has left a frame in the file which it could not read.

**`MergeIterator`.** The binary heap itself, with its sift operations, over iterators
given by the keys they have left. A block that cannot be loaded takes away the keys from
its first one on: of an iterator that stands before it (`LoadError`; it ends when a loop
gets there, be it for the next entry or for a duplicate that is passed over), or of one
that is just being placed, by its constructor or by Seek (`Place`).

**`SkipList`, `SSTable`, `FlushPath`.** The linked levels and the search path of the
skip list with every choice of heights; the builder's cuts, the sparse index's binary
search, the filter's bits for sample hash functions, and the iterator's block loading.
The files of index and filter, which the builder does not sync, are sequences of words;
`PowerFails` cuts one of them, or the metadata, or leaves zeros at the end of one, and
`OpenReader` decodes what is left. `FlushPath` composes the two: what comes out of the
list goes into the table.

**`Search`, `Api`.** IngestBatch is one action per Put, in the code's order: the document
of a record, then its index keys, whose errors are dropped (`IngestKey`), then the next
record; a record that does not validate, or a document that cannot be put, ends the batch
(`IngestFails`). Search is one action per scan of a term and one per fetched document,
then sorting and cutting (`SearchReturn`), with every order that an unstable sort may give;
`NextPage` is a client that asks for what is behind its page. Queries have terms, a level,
a service, a host, fields, a time range and a limit; a candidate's id is what is behind
the last colon of its index key. A record's level is trimmed and put in upper case
(`Level`), a query's is put in upper case only (`Upper`), as the code does.
`AggregateGroups` is the code's loop over the logs. `missing` is history: the index keys
that a failed Put has kept out, or that a client has deleted.
`Api` adds the handlers that write: `HandleIngest` with a body that is a JSON array, lines
or one object, of which bufio.Scanner reads no more than the lines before one that is too
long, and `HandleKV`, which puts bytes or a tombstone under a document's key (`KVDoc`), or
makes or deletes an index key (`KVIndex`): the key-value endpoints take any key.
`clientKeys` is history, the index keys that clients have put. `ApiProps` has the
properties. The loop of handleKVScan is the caller of a scan in `ReadPath`.

**`Shutdown`.** Requests in the engine, both workers, `flushLock`, the server's drain or
its timeout, and Close step by step. Of the store only what Close takes away is kept, and
what keeps the workers going: a signal for either, full memtables, and the number of
tables in level 0. `WorkerWake` is the `select` of both workers, in which a signal, a tick
and closeChan are equals: a compaction may begin after Close has been called. After its
signal the compaction worker is `looping`, and `CountLevel0` is the end of a round, which
looks at level 0 and not at closeChan. With `DisableAutoCompaction` that worker does not
exist.

## 3. The runs

`tlc -config X.cfg M` for each. Every run's bounds are constants of its module.
Deadlock is not checked anywhere: each model stops when its bounds on writes, requests
or crashes are used up and nothing is left to do, and the system itself rests when
nobody calls it. That it does not rest too early is what the liveness properties say.

| Run | Module | What it asks | Bounds, and why they are enough |
|---|---|---|---|
| `EngineLive` | MCEngine | Is what can be read at every moment the abstract store, and does a crash lose a suffix of the unsynced writes only? Do stalls, recovery and flushes end? | two clients, so that one is between its steps while the other fills and rotates memtables; memtables of one key, so that every write of a new memtable rotates; batch syncing, three writes (an active, an immutable and a flushed version) and one crash: a recovery finds up to two WAL files |
| `EngineFlush` | MCEngine | Is the invariant that the proof uses right? Do readers search what is committed? | Flush twice beside the worker, every kind of failure, one crash |
| `EngineFlushLoses` | MCEngine | (violated) is a Get's answer still the newest beside Flush? | one call of Flush, no failures |
| `LevelsCompact` | MCLevels | Is compaction invisible at every step and across a crash? | three keys and gapped tables, so that ranges meet, touch and nest; three levels, a compaction of level 1 included; three flushes with any deletes; one crash, one failure |
| `LevelsOldestWins` | MCLevels | (violated) does the newest version survive? | two flushes, trigger 2 |
| `ReadPath` | MCReadPath | Does a Get or a Scan, in any of its steps, see something stale while writes, flushes and compactions go on? Are memtables and levels one map? | a table of three keys in level 1 to begin with, blocks of one entry, so that a scan has blocks left to lose; three writes, one of them a deletion, and two flushes, each compacted at once (trigger 1): an entry can go from the active memtable into level 1 during one call; a scan of everything and of the last key |
| `WALRecovery` | WALFile | Is every synced record read back, and everything behind it, unless a recovery has kept a bad frame? | payloads of one and four cells against a buffer of five and a limit of four, so that a frame may be cut anywhere, spill, and be longer than what is left of its file; four records, two crashes, so that a recovery's result is written to and recovered again |
| `WALTorn` | WALFile | (violated) also when only a tail was torn off? | a power failure, a payload of four cells torn after the header |
| `MergeScan` | MergeIterator | Is the merge right for every input? | all contents of three streams over three keys, both tombstone modes, Next and Seek in any order, one block that does not load, at any key and in any loop |
| `FlushPath` | MCFlushPath | Are list and table exact, and does a table notice that a file is damaged? | four keys, five puts, three heights, blocks of one to four entries, hashes that collide wholly, partly or not; one power failure that damages one file, at every word |
| `Api` | MCApi | Do hits match, is what was ingested found, do pages fit together, is a histogram exact, and is an answer true? | two ingesters and one searcher, two requests, four bodies with an invalid record, a line that is too long, two records of one id, one whose id has a colon and one whose level has a blank; a third match for the query by time, so that a histogram is cut at two logs and a search has three pages of one; two index keys that clients write or delete, one that a record has and one that leads a term to a record without it; a query for each strategy and filter; one failing Put |
| `ShutdownClose` | Shutdown | Does stopping end, does it keep its order, and does nobody meet an engine that is being closed? | two handlers (one may hold the lock, one wait), both workers or the flush worker alone, three requests; a trigger of one table, so that a single flush keeps the compaction worker in its loop, also after Close |

`IInv` in `EngineFlush` is the conjunction that section 5 proves inductive. What each
property says is written above its definition. Some need a remark.

- `ImplementsKVStore` is checked as a property (the abstract specification under the
  mapping of `EngineProps`): `store` is what a Get would find if it ran at once, or,
  while the engine is down, what recovery would rebuild from the WAL files and level 0.
  So that mapping says both that rotation, flushing and recovery change nothing that can
  be seen, and that a crash is a cut.
- `CompactionKeepsAnswers` and `RestartKeepsAnswers` speak of keys with at most one
  version in level 0. For others the code is wrong (`LevelsOldestWins`), and the trigger
  is 1 in `LevelsCompact` so that tombstones, cutting, several levels and failures are
  all explored in spite of it.
- `NewestIsFound` says of memtables and levels together what `ImplementsKVStore` says of
  memtables and level 0, as an invariant: with three levels of state a check of the
  refinement takes too long. It is looked at when no reader is under way, since readers
  change nothing. It exempts `demoted` keys, and so do `GetsAreFresh` and
  `ScansAreFresh` of `ReadProps`, for the reason just given.
- `ScansAreFresh` exempts the keys in `lost`: the end of a stream is silent, so that a scan
  may miss them or, worse, show an older version from a lower level or a deleted key. That
  keys which were read before and keys of other tables are right is what is left, and it
  holds also while tables are closed under the scan.
- `LookupsAreExact` and `IteratesWhileOpen` ask less after `damage = "zeros"`: index and
  filter have no checksum, and zeros in them can hide keys. What is found is there even
  so, and a file that was cut is refused or harmless.
- `IngestedIsFound` owes a searcher what had been ingested before it began, was not
  overwritten since, has an id without a colon, and has all the index keys that lead this
  query to it (`KeysFor`; `missing` says which were lost). So it says how far a dropped
  error goes: a record whose key for one term failed is still found by every query that
  does not go by that term. The service index is case-sensitive where the filter is not,
  which `IsAskedFor` says. `HitsMatch` lets a log lack a term of the query if a client, or
  an older version of the record, has put the key that led to it. `PagesAreWhole` is about matches of
  distinct times and a store that is quiet between the pages. `HistogramIsExact` expects
  every match up to `AggregateLimit`, and exact counting of what it was given always.
  `AnswersAreHonest` counts the lines that can be read.
- `ImmutableFlushed` quantifies over all ids that memtables can have. Memtables and tables
  share the manifest's counter, so `MaxID` counts both, and the property's first conjunct
  checks that the counter does not get further.
- `ReadersMatch` asks for a reader of every table that is searched and for no other: one
  more would be a file that stays open for ever. `NewerAbove` compares tables of different
  levels, and the tables of level 0 in their order.
- `StallEnds` and `ImmutableFlushed` hold up to the first failure,
  `SafeIsReadable` and `ReadsBack` up to the first frame that a recovery keeps, `IsMerge` up to the first block
  that does not load, `DrainedMeansDone` when the server was not abandoned. Each of
  these conditions marks something the code does not promise; section 7 says what
  happens then.

Each property of a passing run has a mutant in `PROJECT.json`: an operator beside the
real one (its comment begins with "Mutant of") that a plausible mistake would give, under
which TLC finds that property violated.

## 4. Fairness

`Engine!Fairness`: a client that has begun a write finishes it, and the worker wakes,
flushes and recovers (weak fairness: Go runs runnable goroutines); the worker gets
`flushLock` in the end (strong fairness: a Go mutex hands itself to a waiter that
starves). Nothing is assumed of callers: no client need ever write, read or flush
again, nothing crashes or fails because of fairness, and neither periodicSyncer nor Get
has a fairness condition. `Levels!FairSpec`: the flush worker and the compaction worker
(its ticker) go on, and a crashed engine is opened again. `Shutdown!FairSpec` names what
Close and a stalled writer need, and no more. Strong fairness of a worker's exit: a
`select` whose closeChan stays ready takes it in the end, since Go chooses among ready
cases at random; until then it may take its other cases any number of times. Strong
fairness of a worker's `TakeLock`, by the mutex as above. Weak fairness of the steps of whoever
holds `flushLock`, of `CountLevel0`, of a writer in the stall loop, and of main once a
signal has come, but none need come. Nothing is assumed of handlers otherwise. The inner
loop of the compaction worker needs no fairness of its own to end: a round that does not
fail takes all tables of level 0 once they are enough, an error ends the loop, and after
Close new tables come from entries that are in the memtables already or from calls that
have passed the first check of `closed`.

## 5. What is proved

Each proof has an inductive invariant, a lemma for each action (or each group of actions
with the same effect), one that assembles them (`NextKeeps...`), and theorems that read
the properties off the invariant. All are about any value of the constants that the
`ASSUME`s of the module allow (threads that are different, finite sets of keys, numbers
that are natural); what a theorem assumes beyond them is a named hypothesis, listed here.
`NatLemmas` has minima and maxima of sets of numbers, by induction over a set of numbers
rather than over an operator, and what follows from them about loops: a loop of the code
is a recursive function of its state; `LoopExists` shows that such a function exists
whether the loop ends or not, and `LoopEnds` that a loop which keeps something and has
less to do with each pass ends with it. So each loop needs only what one pass does. The
other lemmas stand before the invariants that use them.

**The engine loses no write** (`EngineProofs`; any callers of Flush, any faults).
`Invariance`, and from it `TypeCorrect`, `NoWriteLost` (`EveryWriteOnDisk`) and
`TablesMatch` (`TablesMatchManifest`). `EveryWriteOnDisk` alone is not inductive. Both
places that remove WAL files do so because a memtable is in a table: the step is safe only
if that memtable has everything its file has, if the table is in the manifest, and if
nobody adds to the file meanwhile. Hence the conjuncts of `IInv`:

- `MemsCoverLogs`: for every key, a memtable in use has what its file has or newer;
- `LogOwned`: the file that is written to belongs to the active memtable and to no
  other that is immutable or being flushed. The hard case is the rotation whose new WAL
  cannot be opened: then the memtable is active and immutable at once, and the conjunct
  holds because its file is closed;
- `BeforeOpen`: recovery runs alone;
- `JobInTables`: a flush beyond its commit has a table with exactly its memtable's
  contents in level 0.

**The engine implements the abstract store** (`EngineProofs`, from `RInv` on).
`EngineImplementsStore`: every behaviour of `Engine` is one of `KVStore` under the mapping
of `EngineProps`: a Put or Delete is `KVWrite`, what makes writes durable is `KVSync`, a
crash is `KVCrash`, and all the steps of rotation, flushing and recovery are stutters. With
it `NewestInView`, and `GetsFresh`: a Get that has missed the memtables finds in the tables
nothing older than what was newest when it began. Hypotheses: `NoFlushes` (nobody calls
Flush: with one the engine does not implement the store, see `EngineFlushLoses`) and
`LogsAreRemoved` (a WAL file that stays is replayed as the newest table, `engine.go:568`).
The invariant `RInv` says that the order of writes is one order over everything that
holds them: over WAL files (`LogsInOrder`), over tables (`TablesInOrder`), between both
(`TablesBelowLogs`) and between tables and memtables (`MemsInOrder`). So the newest
record is where a Get looks first. `SafeFromCrash` has what a crash cannot cut off;
`AllInView` that nothing is only in a log while the engine is open; `GetsWait` that what a
waiting Get must find stays in the tables, whatever is flushed meanwhile.

**Levels** (`LevelsProofs`). `LevelsTyped`, `FilesOutliveManifest`,
`ReadersAreRight`, `LevelsStayDisjoint`, `UpperIsNewer`, for any keys, levels, flushes,
sizes, failures and crashes. The invariant `LInv` says, stage by stage, what the holder of
flushLock has in hand (`StageFacts`), which tables have readers (`ReaderFacts`), that the
inputs are closed under overlapping (`InputFacts`), that each merged entry comes from
an input of the upper level if one has the key, and that only tombstones are left out,
at the bottom (`OutputFacts`), and that the outputs fit between the tables that are left
alone (`OutputsFit`). For the order within level 0 it says that a later flush has the
greater number (`Ascending`), and for the readers that none is open on a table that is
not searched (`ReadersKept`), the last level and the inputs of a commit excepted. `RestartsAreInvisible` and `CompactionIsInvisible` say that no step
changes an answer: `AnswerInv` adds what a restart would answer between the commit and the
installation. Hypothesis of these two: `LastLevelHoldsAll`, that the size limit of the
last level that is searched admits every key, since a compaction of that level writes its
outputs where nobody looks (`picker.go:69`). With few levels, as in `LevelsCompact`, TLC
checks the same with limits that do this. `LevelSizesAssumption` says of the size limits
what the powers in `picker.go` give, since the provers know nothing of powers.

**Reads over memtables and levels** (`LevelsProofs`, second half, for any keys, levels, sizes, block
lengths, numbers of writes and flushes). `ReadsFindNewest`, `GetsStayFresh` and
`ScansStayFresh` are the three properties that the run `ReadPath` checks. The steps of
`ReadPath` are those of `Levels` with what they do to memtables, so `ReadInv` stands on
`LInv`. It has two halves.

- `StoreInv` is about the store. Writes are numbered (`HistInv`); whatever a memtable or a
  table holds was written (`MemInv`, `TableInv`); the newest write of a key is in the
  active memtable, or else in the immutable one, or else it is the one flushed last
  (`NewestInv`). `ShownInv` is the heart: what was flushed last is what the manifest's
  tables answer, and also what the tables that readers search answer, except between the
  commit of a flush and the showing of its table, when the immutable memtable still has
  it. `Reflects` lets a deletion be answered by nothing, because a compaction at the
  bottom drops tombstones. `SearchInv` keeps the levels that are searched in order
  while the manifest is already ahead of them.
- `ReaderInv` is about a reader between two of its steps. `GetOK`: whoever looks at the
  tables from now on finds nothing older than when the Get began (`Shows`), because a flush
  shows its table before it clears the memtable, and a compaction changes no answer.
  `MemScanOK` says the same of the keys that a Scan did not find in the memtables. `ScanOK`
  follows the merging iterator: for each key the first stream that has it has a right
  answer (`Right`), that answer was given if the key is passed (`Told`), and each stream
  stands at its first key that was not passed (`StreamOK`), except for the keys that the
  closing of its table took away (`lost`).

`GetsAreFresh` is itself a conjunct, since an answer stays while the world goes on.
Hypothesis: `LastLevelHoldsAll`, as for compaction. The keys in `demoted` are
exempt, as in the properties (section 3); no other weakening was needed.

**A log file** (`WALProofs`). `WALTypeCorrect` and `RecoveryLosesASuffix` for any sizes,
crashes and garbage; `SyncedIsReadable` and `AppendsAreRead` with the hypothesis
`SizesAccepted`, that no payload is longer than `MaxRecordPayload`. The replay is a
recursive function of a file of any length. `MapsExist` shows that it exists (by a least
counterexample, for the records and the end together), and three lemmas say all that the
steps need: of a file that a crash has cut or damaged, it reads how the records of the
whole file begin (`WorseBegins`); a file cut behind its last valid frame is replayed to
its end (`CutIsClean`); and an appended frame is read if the file is replayed to its end,
and else changes nothing (`AppendFrame`), for no rest of a torn frame can be completed by
the beginning of another. The invariant `WALInv` follows what would be read of file and
buffer: a beginning of the records written, all of them unless something stops the
replay, and nothing stops it until a recovery keeps a bad frame; what is safe is in the
part of the file before `synced`. The proof found that a torn frame may be kept although
it is the file's tail (section 7, 3): that is why `kept` is in the statements.

**Ingestion and search** (`ApiProofs`, for any records, queries, bodies, tokens and
clients). `HitsAreMatches`, `IngestedIsNeverMissed`, `AnswersAreTrue`,
`PagesFitTogether`, `HistogramsCountOnce`: all that the run `Api` checks.
`IngestInv` follows a batch record by record (what is stored is what the records before
the next one say; their index keys are there, still to come, or `missing`) and
`SearchInv` a search scan by scan: candidates have all the terms that were scanned, and a
record that is owed is among what is left to scan, the candidates, or the logs.
`PageInv` stands on both. While nothing is written (`quiet`), the logs collected and the
candidates that are left are together what the query matches now, so every page of one
search is cut from the same set; `SortedOnce` says that logs of distinct times have one
order, whatever an unstable sort does, and `PagesJoin` that the next page begins where the
last one ended. `GroupsAre` gives the loop of AggregateGroups, a recursive function of the
logs, in closed form (`BucketsOf`), and `BucketBounds` that the rounded times of buckets
divide the time line; so each log is in one bucket (`GroupsAreExact`). The `ASSUME`s ask
of the instance that records are records, sets of terms are finite, and numbers are
natural.

**The merging iterator** (`MergeProofs`, for any number of streams and keys, and any
contents). `HeapStaysHeap` and `ShowsTheMerge`, from `MergeInvariance`. The loops of the
code (up, down, the pushes of NewMergedIterator, the skipping of a key, advance) are
taken pass by pass. A pass of down leaves at most one parent out of order, further below
(`OrderedBelow`, `DownStep`), one of up, further above (`OrderedAbove`, `UpStep`).
`RootMoves` is the step that the code rests on: when the root's iterator moves, only
comparisons with the root change, so one down or one pop mends the heap. A block that
is gone changes no comparison before its iterator gets there (`LoadErrorKeepsInv`). Thus the root
is first (`RootFirst`), and `SkipSkips` and `PassedAt` say that all iterators end up
behind its key, which the root's stream wins. The invariant `MergeInv` says that the
heap is one (also when iterators end early) and, as long as no block failed to load,
that the iterators are placed as Seek would place them right behind the key that is
shown.

**From the memtable into a table** (`FlushProofs`, for any number of keys and puts, any
heights, any sizes of entries, blocks and filters, and any hash functions).
`FlushTypeCorrect`, `MemtableStaysExact`, `LookupsStayExact` and `IteratorsPassAll` are all
that the run `FlushPath` checks. The invariant `FlushInv` has two halves.

- `ListInv` is about the list. Every level links exactly the nodes that are high enough,
  each to the next (`Linked`), and the bytes are the sum over the nodes (`Counted`). None
  of the promises of the list speaks of levels, but a search goes through all of them:
  `WalkStops` says that it ends, on one level, at the last node before the key, and
  `UpdateIs` that it does so on every level, wherever it came from above. So an insertion
  links each level at the right place (`InsertLinks`), and the candidate is the key itself
  if it is there (`CandidateIs`). `SnapshotIs` and `SeekFinds` are the iterator's.
- `TableInv` is about the table. Blocks, the block being filled and the rest of the input
  divide the keys, one after the other (`Divided`); the index has each block's first key
  (`Indexed`); filter and range admit what was added (`Admitted`). Thus the binary search
  ends at the only block that can have a key (`CandidateFound`, `CandidateIsBlock`), which
  is what makes the reader's early "no" an answer. `Iterating` is the property of iterators
  itself, which holds from step to step because the key behind the last of a block is the
  first of the next. Of damaged files, `WholeFiles` and `ShorterFiles` say that what is
  decoded is what was built or nothing; `ZeroedIndexFile`, that zeros leave an index of keys
  and zeros: then all of this but `Divided` and the types is given up, and with it what
  the properties except.

`TableAssumption` says of the hash functions that they give two natural numbers per key.

**Shutdown** (`ShutdownProofs`). `LockIsExclusive`, `WorkersAreOutlived`,
`DrainedServerIsDone`, `AcknowledgedIsSynced`. `ShutInv` adds the order of Close
(`CloseInOrder`) and that a server which has drained is quiet and stays so.

Every invariant and every action property of a passing run that is about safety is thus
the statement of a theorem, under the hypotheses named above. Left to TLC are liveness
under fairness and `ENABLED`, which are beyond these provers. No module of the project
declares a RECURSIVE operator: recursion is written as functions, whose existence and
values are proved by a least counterexample, since no prover here does induction over an
operator.

## 6. Assumptions

- The manifest. Its source is missing (`.gitignore` excludes `MANIFEST*`, and on a
  case-insensitive match `manifest.go` with it). Edits are atomic and durable when
  LogAndApply returns, fail without effect otherwise (also when closed), ids are not
  issued twice, a level lists its tables in the order they were added: that the last
  table of level 0 is the newest is how `engine.go:397` reads it.
- A table is durable when Finish has returned, except in `FlushPath`, where one power
  failure damages at most one of the files that are not synced; fsync does what it says;
  errors of fsync are not modelled, those of reading a file back only in `FlushPath` and,
  as blocks that do not load, in `MergeIterator` and `ReadPath`.
- After a crash, what recovery reads is on disk: a second crash does not lose it.
- A checksum detects every corruption.
- A memtable's size is its number of keys in `Engine`; entries have sizes in `SkipList`.
- Every write of `Levels` is one of a flush: one version per key and flush. In `ReadPath`
  there are no crashes and no failures (`Engine` and `Levels` have them), and one reader.
- In `Search` and `Api` calls of the store are atomic; terms are scanned in any order; ids
  and times are given by the client; what clients put under a document's key through the
  key-value API is no record, though they might put one; a level does not consist of
  blanks only (one of blanks is stored as "", and what comes of that is not modelled). What Tokenize and EqualFold give is a table of the instance.
- In `FlushPath` damage to index and filter is word by word, and a file's header is one
  word: a word of which a part is lost or zeroed is not among the cases.
- In `MergeScan` at most one block does not load, and a later Seek may find it again; a
  reader that stays closed is more than one such error, which the theorems admit.
- In `Shutdown` one call of Flush is one flushImmutable; rotations are in `Engine`. `L0CompactionTrigger` is
  positive, as the default is: with one that is not, the inner loop of the compaction
  worker ends only with an error (`engine.go:701`).

## 7. Where code and documents disagree

Shown by runs that expect a violation:

1. **Flush rotates twice** (`EngineFlushLoses`). `Flush` releases `mu` to flush an
   immutable memtable and rotates afterwards without looking again. If a writer has
   rotated in between, or flushImmutable has, that memtable is overwritten before it is
   flushed: its writes are invisible until the next Open. They are not lost, which is
   what `NoWriteLost` proves.
2. **Compaction keeps the oldest version** (`LevelsOldestWins`). Level 0 tables are
   merged oldest first, and the first stream wins.
3. **A torn frame is kept** (`WALTorn`). `RecoverWithReport` compares a payload's length
   with the size of the file before it asks whether the frame is torn (`wal.go:273`). If
   the record is longer than what is left of its file, the torn tail counts as a bad
   length in the middle and stays (`wal.go:279-285`). Open then appends to that file
   (`engine.go:216-226`), and what is acknowledged and synced behind the torn frame is
   lost at the next recovery. `wal.go:227` and `349` promise that tails are truncated.

Seen while modelling, without a run of their own: most of them because no document says
otherwise, some because the model leaves them out or because the property that is checked
exempts them. Where a document does say otherwise it is quoted.

- After a failed flush nothing signals the worker until somebody rotates or calls
  Flush: stalled writers wait for ever (`engine.go:250`, `534`). `StallEnds` has
  `faults > 0` for this.
- When the WAL cannot be opened in a rotation (`engine.go:351`) every later write fails
  until the memtable is flushed and another rotation succeeds.
- A compaction whose output cannot be opened (`engine.go:737-743`) leaves tables without
  readers in the manifest; the picker does not see them, so levels may overlap and
  older versions end up above newer ones. `unread` marks this.
- The picker compacts level 6 into level 7, which nobody searches (`picker.go:69`).
- A compaction closes the readers of its inputs under a running Scan (`engine.go:757`),
  and SSTableIterator.Next drops the error (`reader.go:239`). The stream just ends: keys
  are missing from the scan without a word, or come back in an older version, or although
  deleted, from a table that is still open.
- A scan is not a snapshot of one moment: between its two locks a flush may bring in
  writes newer than those it took from the memtables, so that of two writes it may show
  the later and not the earlier (each key alone is right, `ScansAreFresh`).
- Index, filter and metadata of a table are not synced (`builder.go:158`). After a power
  failure a file that was cut makes Open fail for good, since the manifest has the table;
  zeros in index or filter are not noticed and hide keys.
- A WAL whose removal failed is replayed as the newest table (`engine.go:214`, `568`).
- A frame in the middle that cannot be read, from a hole that a power failure left, is
  kept on purpose (`wal.go:284`, `317`), but Open appends to that file all the same: what
  is written behind the frame is not replayed.
- Records longer than MaxRecordPayload are written and acknowledged (`wal.go:124`), and
  end the replay of their file (`wal.go:273`): `SizesAccepted` in `WALProofs` rules them
  out.
- Keys of 65536 bytes and more are stored with a wrapped length (`entry.go:123`).
- Requests that outlive the server's timeout: Get reports a key as missing, Flush and
  Compact write to a nil map (`engine.go:633`, `753` against `874`).
- Close does not flush memtables, although its comment says so (`engine.go:849`); their
  WAL is synced, so nothing is lost.
- Stats reads `e.readers` without `readersMu` (`engine.go:784`).
- Search: index keys of a record's earlier contents stay when its id is ingested again,
  so that a log may be found by a term it does not have, although `query.go:5` calls the
  terms an `AND match`; errors of index Puts are dropped; the service index is case-sensitive where the filter
  is not; an id with a colon is cut (`pkg/search/engine.go:295`); a text of stop words
  only matches everything; records of equal time are paged in an unstable order.
- Aggregate counts at most 100000 logs, although its comment says "without pagination
  limit" (`pkg/search/engine.go:216-218`); `HistogramIsExact` exempts more.
- A record's level is trimmed when it is ingested (`model.go:41`), a query's is not
  (`pkg/search/engine.go:119`, `149`): a query for `" error"` finds nothing.
- A JSON array with a `null` in it decodes to a nil record, on which Validate panics
  (`handlers.go:50`, `model.go:32`): the records before it stay, and the client gets no
  answer. The bodies of `Api` have no such element.
- A line of NDJSON that is longer than bufio.Scanner's 64 KB ends the body: it and all
  lines behind it are dropped and the answer is 200 (`handlers.go:58`; the error of the
  scanner is not looked at). A single object that is printed over several lines is taken
  for NDJSON and refused (`handlers.go:57`).
- A batch that fails has stored the records before the failing one, and no answer says
  how many (`handlers.go:83-87`).
- The key-value API can overwrite or delete the documents and the index keys of the
  search engine (`handlers.go:194`): `Api` has both.
- `lsmctl flush` and `lsmctl compact` report success whatever the status of the answer
  (`cmd/lsmctl/main.go:385`, `399`).
- WAL files are listed by name, so that ids of seven digits come before those of six.

## 8. Not modelled

Stats and metrics (they change nothing; what a racy read of `e.readers` does is the
runtime's affair), SetBypassBloom (a lookup with and without the filter is), Tokenize (a
table of the instance), generated ids and times, byte formats and their checksums, keys
whose length wraps, filter sizing, the HTTP handlers that translate one request to one
call (their calls are modelled), middleware, the command line client, options, aliases,
benchmarks and examples. Crashes and failures during reads are not in `ReadPath`: a crash
ends every reader, and what Open makes of the disk is in `Engine` and `Levels`.

## 9. Plan

Done: the engine's core with its refinement, the levels, reads over both, the files, the
search engine with its requests, and the shutdown; theorems about all of these.

What could still extend the models: `Engine` with compaction steps, so that the abstract
store is refined by flushes, compactions and crashes together; the WAL's list of files
and the frame's key length, as they are encoded.

What could still be proved: that the steps of `ReadPath` refine an abstract map, as those
of `Engine` do.
