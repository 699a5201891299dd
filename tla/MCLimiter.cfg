CONSTANTS
    Job = {j1, j2, j3, j4}
    Concurrency = 2
SPECIFICATION Spec
INVARIANT NeverOverLimit
INVARIANT WorkConserving
INVARIANT StartedInOrder
PROPERTY EveryJobStarts
CHECK_DEADLOCK FALSE
