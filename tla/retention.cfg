SPECIFICATION FairSpec
CONSTANTS
    t1 = t1
    t2 = t2
    p1 = p1
    p2 = p2
    x1 = x1
    x2 = x2
    Tasks = {t1, t2}
    Threads = {x1, x2}
    ThreadOf <- OwnThreads
    Legacy = {}
    Purges = {p1}
    Followed = {t1}
    MaxCrashes = 1
    MaxRetries = 1
INVARIANTS
    TablesInv
PROPERTIES
    LiveKeepsCheckpoints
    FilesGoLast
    FollowerEnds
CHECK_DEADLOCK FALSE
