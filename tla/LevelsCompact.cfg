SPECIFICATION FairSpec
CONSTANTS
    NumKeys = 3
    MaxLevels = 3
    L0CompactionTrigger = 1
    BaseLevelSize = 1
    LevelMultiplier = 3
    TargetTableSize = 2
    FlushSets <- GappedKeys
    MaxFlushes = 3
    MaxCrashes = 1
    MaxFailures = 1
INVARIANTS TypeOK LevelsDisjoint ManifestHasFiles ReadersMatch NewerAbove RestartKeepsAnswers
PROPERTIES CompactionKeepsAnswers Level0Drains
CHECK_DEADLOCK FALSE
