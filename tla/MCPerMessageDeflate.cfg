CONSTANTS
    Conn = {c1, c2}
    Concurrency = 1
    MaxCalls <- MCMaxCalls
SPECIFICATION Spec
PROPERTY UsesLimiterWell
PROPERTY EveryCallIsAnswered
INVARIANT OnlyOverdueStreams
CHECK_DEADLOCK FALSE
