CONSTANTS
    HighWater = 1
    Codes = {1000, 1001, 1005}
    Abrupt = {"client", "remote"}
    Deflate = TRUE
    Kinds = {"data", "close", "bad", "ping", "pong"}
    MaxClient = 1
    MaxRemote = 2
SPECIFICATION Spec
INVARIANT DownstreamFaithful
INVARIANT CloseIsForwarded
INVARIANT CloseCodeIsHonest
CHECK_DEADLOCK FALSE
