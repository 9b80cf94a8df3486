SPECIFICATION Spec
CONSTANTS
    NumStreams = 3
    NumKeys = 3
    MaxLoadErrors = 1
INVARIANTS HeapInvariant IsMerge
CHECK_DEADLOCK FALSE
