CONSTANTS
    p1 = p1
    p2 = p2
    p3 = p3
    NoPeer = NoPeer
    Peers = {p1, p2, p3}
    MaxFd = 3
    MaxSend = 1
    Slots = 4
    InitSlots = 1
    Garbage <- AnyFd
    MaxEvents = 2
    ItemLength = 2
    MaxThreads = 3
    MaxProcs = 2
    MaxDatagrams = 1
    Brief = {}
    Kinds = {"thread"}
SPECIFICATION Spec
INVARIANT EachHandled
CHECK_DEADLOCK FALSE
