SPECIFICATION Spec
CONSTANTS
    t1 = t1
    t2 = t2
    p1 = p1
    p2 = p2
    x1 = x1
    x2 = x2
    Tasks = {t1, t2}
    Threads = {x1, x2}
    ThreadOf <- OwnThreads
    Legacy = {}
    Purges = {p1}
    Followed = {}
    MaxCrashes = 0
    MaxRetries = 1
PROPERTIES
    PurgeSparesLive
CHECK_DEADLOCK FALSE
