CONSTANTS
    Frames <- MCAll
    MaxFrames = 3
    MaxChunk = 12
    MaxQueued = 1
    IsServer = TRUE
    Deflate = TRUE
    MaxPayload = 3
SPECIFICATION Spec
INVARIANT ParsesTheStream
INVARIANT EveryChunkAnsweredOnce
CHECK_DEADLOCK FALSE
