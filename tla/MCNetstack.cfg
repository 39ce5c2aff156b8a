SPECIFICATION Spec
CONSTANTS
    Conn <- Conns
    Frames <- MCFrames
    BatchMax = 2
    TxCap = 1
    SYN_TRACK_MAX = 2
    MaxFrames = 3
    MaxReads = 2
INVARIANTS
    SynMeetsListener
    DatagramsServed
PROPERTIES
    DeviceKeepsFrames
    StreamsAccepted
    GvisorReturns
CHECK_DEADLOCK FALSE
