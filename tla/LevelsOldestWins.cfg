SPECIFICATION Spec
CONSTANTS
    NumKeys = 3
    MaxLevels = 3
    L0CompactionTrigger = 2
    BaseLevelSize = 1
    LevelMultiplier = 3
    TargetTableSize = 2
    FlushSets <- GappedKeys
    MaxFlushes = 2
    MaxCrashes = 0
    MaxFailures = 0
INVARIANTS NewestWins
CHECK_DEADLOCK FALSE
