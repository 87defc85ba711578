SPECIFICATION Spec
CONSTANTS
    t1 = t1
    t2 = t2
    p1 = p1
    p2 = p2
    x1 = x1
    x2 = x2
    Tasks = {t1, t2}
    Threads = {x1, x2}
    ThreadOf <- OwnThreads
    Legacy = {}
    Purges = {p1, p2}
    Followed = {}
    MaxCrashes = 1
    MaxRetries = 1
SYMMETRY PurgeSymmetry
INVARIANTS
    TablesInv
PROPERTIES
    LiveKeepsCheckpoints
    FilesGoLast
CHECK_DEADLOCK FALSE
