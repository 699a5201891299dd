CONSTANTS
    Passed = {r1, r2}
    MaxAgents = 3
    MaxLists = 1
SPECIFICATION FetchSpec
INVARIANT OnlyMissedCloses
INVARIANT AgentsRotate
PROPERTY EveryRequestEnds
CHECK_DEADLOCK FALSE
