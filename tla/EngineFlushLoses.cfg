SPECIFICATION Spec
CONSTANTS
    Keys = {k1, k2}
    Clients = {c1}
    Flushers = {f1}
    Worker = worker
    Opener = opener
    NoThread = none
    MemTableSize = 1
    SyncAlways = TRUE
    FaultKinds = {}
    MaxWrites = 3
    MaxFlushes = 1
    MaxCrashes = 0
    MaxFaults = 0
INVARIANTS GetsAreFresh
CHECK_DEADLOCK FALSE
