CONSTANTS
    p1 = p1
    p2 = p2
    p3 = p3
    NoPeer = NoPeer
    Peers = {p1, p2, p3}
    MaxFd = 2
    MaxSend = 2
    Slots = 3
    InitSlots = 2
    Garbage <- AnyFd
    MaxEvents = 2
    ItemLength = 2
    MaxThreads = 3
    MaxProcs = 2
    MaxDatagrams = 1
    Brief <- OneUnit
    Kinds <- AllKinds
SPECIFICATION Spec
SYMMETRY PeerSymmetry
INVARIANTS TypeOK TablesAgree NeverBlocks CountdownIsExact OwnBytes
CHECK_DEADLOCK FALSE
