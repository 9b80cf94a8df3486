SPECIFICATION Spec
CONSTANTS
    Keys = {k1, k2}
    Clients = {c1}
    Flushers = {f1}
    Worker = worker
    Opener = opener
    NoThread = none
    MemTableSize = 1
    SyncAlways = TRUE
    FaultKinds = {"build", "open", "remove"}
    MaxWrites = 2
    MaxFlushes = 2
    MaxCrashes = 1
    MaxFaults = 1
INVARIANTS IInv EveryWriteOnDisk TablesMatchManifest
CHECK_DEADLOCK FALSE
