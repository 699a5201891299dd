CONSTANTS
    Byte = {"T", "P", "R", "I", "C", "x"}
    Preface <- MCPreface
    Streams <- MCStreams
    TlsByte = "T"
    Connect = "C"
    MaxReply = 2
SPECIFICATION TunnelSpec
INVARIANT RightServer
INVARIANT TunnelFaithful
INVARIANT EndsTogether
CHECK_DEADLOCK FALSE
