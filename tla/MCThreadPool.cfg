CONSTANTS
    t1 = t1
    t2 = t2
    c1 = c1
    c2 = c2
    NoTask = NoTask
    Tasks = {t1, t2}
    Clients = {c1, c2}
    MaxPool = 2
    Timeouts = {0, 1}
    MaxNow = 2
SPECIFICATION Spec
SYMMETRY PoolSymmetry
INVARIANTS TypeOK OneOwner CountIsExact NoLostWakeup SleeperHasWaker StopIsQuiescent DestroyedResolvesAll
CHECK_DEADLOCK FALSE
