SPECIFICATION Spec
CONSTANTS
    SyncPolicies = {TRUE}
    BufferSize = 6
    MaxRecordPayload = 4
    Sizes = {1, 4}
    CrashKinds = {"torn"}
    MaxRecords = 2
    MaxCrashes = 1
INVARIANTS AckedSurvive
CHECK_DEADLOCK FALSE
