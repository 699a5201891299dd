CONSTANTS
    HighWater = 2
    Codes = {1000, 1005}
    Abrupt = {}
    Deflate = FALSE
    Kinds = {"data", "close"}
    MaxClient = 1
    MaxRemote = 1
SPECIFICATION Spec
INVARIANT ClosingIsTimed
CHECK_DEADLOCK FALSE
