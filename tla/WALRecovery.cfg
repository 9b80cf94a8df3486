SPECIFICATION Spec
CONSTANTS
    SyncPolicies = {TRUE, FALSE}
    BufferSize = 5
    MaxRecordPayload = 4
    Sizes = {1, 4}
    CrashKinds = {"process", "torn", "garbled"}
    MaxRecords = 4
    MaxCrashes = 2
INVARIANTS TypeOK SafeIsReadable ReadsBack
PROPERTIES RecoversPrefix
CHECK_DEADLOCK FALSE
