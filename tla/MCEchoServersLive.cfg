CONSTANTS
    p1 = p1
    p2 = p2
    p3 = p3
    NoPeer = NoPeer
    Peers = {p1, p2}
    MaxFd = 2
    MaxSend = 2
    Slots = 3
    InitSlots = 3
    Garbage <- AnyFd
    MaxEvents = 3
    ItemLength = 2
    MaxThreads = 2
    MaxProcs = 2
    MaxDatagrams = 0
    Brief = {"demo3"}
    Kinds <- LiveKinds
SPECIFICATION FairSpec
PROPERTIES EchoesAll ClosesAll
CHECK_DEADLOCK FALSE
