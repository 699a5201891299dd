CONSTANTS
    Client = {k1, k2}
    MaxClose = 2
    Window = {8, 11, 15}
SPECIFICATION Spec
INVARIANT OneAnswer
INVARIANT ClosedWhenEmpty
INVARIANT UnheardForAReason
CHECK_DEADLOCK FALSE
