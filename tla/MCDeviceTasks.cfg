SPECIFICATION Spec
CONSTANTS
    BATCH_SIZE = 2
    IDEAL_BATCH_SIZE = 4
    MaxFrame = 5
    MaxSegment = 8
    Content = {"a", "b", "x"}
    Refused = {"x"}
    MaxWrites = 4
    GroPackets <- MCPackets
    SeqSpace = 8
    Room = 6
    MaxBatch = 4
    FlowKey <- MCFlowKey
    ICMP_SEND_QUEUE = 1
    ICMP_FLOW_TIMEOUT = 2
    MaxFlows = 2
    MaxEchos = 3
    Iface = {"eth0", "wlan0"}
    MaxRegs = 2
    MaxChanges = 2
INVARIANTS
    SegmentsInOrder
    ReadPacketHoldsNothing
    WritesAreHonest
    RoundTrip
    GcLosesNoRequest
    RepliesGoToAskers
PROPERTIES
    FlowsEnd
    CallbacksConverge
CHECK_DEADLOCK FALSE
