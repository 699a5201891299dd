CONSTANTS
    HighWater = 2
    Deflate = TRUE
    UserCodes = {0, 1000}
    PeerCodes = {1001, 1005}
    MaxArrive = 3
    MaxSend = 1
    MaxPause = 1
SPECIFICATION Spec
INVARIANT OneCloseEvent
INVARIANT NothingAfterCloseFrame
INVARIANT CloseFrameAnswered
INVARIANT ClosingIsTimed
INVARIANT PausedForAReason
PROPERTY ImplementsLife
PROPERTY ClosingEnds
CHECK_DEADLOCK FALSE
