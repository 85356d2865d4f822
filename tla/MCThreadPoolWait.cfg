CONSTANTS
    t1 = t1
    t2 = t2
    c1 = c1
    NoTask = NoTask
    Tasks = {t1, t2}
    Clients = {c1}
    MaxPool = 2
    Timeouts = {0, 1}
    MaxNow = 2
SPECIFICATION FairSpec
PROPERTIES WaitTrueMeansAllDone
CHECK_DEADLOCK FALSE
