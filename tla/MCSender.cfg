CONSTANTS
    Size = {1, 3}
    Threshold = 2
    Deflate = TRUE
    NoTakeover = TRUE
    MaxCalls = 4
SPECIFICATION Spec
INVARIANT CallOrder
INVARIANT BufferedExact
INVARIANT WireWellFormed
PROPERTY EveryCallEnds
CHECK_DEADLOCK FALSE
