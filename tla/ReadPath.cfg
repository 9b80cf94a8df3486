SPECIFICATION ReadSpec
CONSTANTS
    NumKeys = 3
    MaxLevels = 2
    L0CompactionTrigger = 1
    BaseLevelSize = 3
    LevelMultiplier = 1
    TargetTableSize = 2
    FlushSets = {}
    MaxFlushes = 2
    MaxCrashes = 0
    MaxFailures = 0
    BlockLen = 1
    Ranges <- ScanRanges
    Stored = {1, 2, 3}
    MaxWrites = 3
    MaxDeletes = 1
INVARIANTS GetsAreFresh ScansAreFresh NewestIsFound
CHECK_DEADLOCK FALSE
