SPECIFICATION FairSpec
CONSTANTS
    Keys = {k1}
    Clients = {c1, c2}
    Flushers = {}
    Worker = worker
    Opener = opener
    NoThread = none
    MemTableSize = 1
    SyncAlways = FALSE
    FaultKinds = {}
    MaxWrites = 3
    MaxFlushes = 0
    MaxCrashes = 1
    MaxFaults = 0
PROPERTIES ImplementsKVStore StallEnds OpenReturns ImmutableFlushed
CHECK_DEADLOCK FALSE
