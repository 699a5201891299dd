CONSTANTS
    HighWater = 1
    Codes = {1000, 1005}
    Abrupt = {"remote"}
    Deflate = TRUE
    Kinds = {"data", "close", "bad"}
    MaxClient = 3
    MaxRemote = 1
SPECIFICATION Spec
INVARIANT UpstreamOnce
INVARIANT OvertakesOnlyQueued
INVARIANT QueueHasAFlush
PROPERTY EndTogether
CHECK_DEADLOCK FALSE
