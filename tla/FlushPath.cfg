SPECIFICATION Spec
CONSTANTS
    NumKeys = 4
    MaxHeight = 3
    Sizes = {1, 3}
    NodeOverhead = 2
    MaxPuts = 5
    BlockSize = 4
    Bits = 4
    NumHashes = 2
    HashFunctions <- HashSample
INVARIANTS TypeOK MemtableIsExact LookupsAreExact
PROPERTIES IteratesWhileOpen
CHECK_DEADLOCK FALSE
