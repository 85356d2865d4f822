CONSTANTS
    p1 = p1
    p2 = p2
    p3 = p3
    c1 = c1
    c2 = c2
    c3 = c3
    Producers = {p1, p2, p3}
    Consumers = {c1, c2, c3}
    MaxSize = 2
    Items = 2
SPECIFICATION FairSpec
INVARIANTS TypeOK Bounded InOrder EnoughWakeups NoMutualWait
PROPERTIES RefinesFifo Finishes
