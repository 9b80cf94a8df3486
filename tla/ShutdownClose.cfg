SPECIFICATION FairSpec
CONSTANTS
    Handlers = {h1, h2}
    FlushWorker = fw
    CompactionWorker = cw
    NoThread = none
    L0CompactionTrigger = 1
    MaxRequests = 3
INVARIANTS TypeOK WorkersOutlived DrainedMeansDone AckedIsSynced
PROPERTIES CloseEnds StalledPutReturns
CHECK_DEADLOCK FALSE
