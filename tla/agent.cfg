SPECIFICATION FairSpec
CONSTANTS
    s1 = s1
    s2 = s2
    Servers = {s1, s2}
    Optional = {s2}
    Faulty = TRUE
    MaxFrames = 2
    MaxRequests = 2
    MaxTimeouts = 1
INVARIANTS
    TypeOK
    OneOutcome
    CancelDecides
    SessionsClosed
    NothingLost
    AnswersMatch
PROPERTIES
    WaitsEnd
CHECK_DEADLOCK FALSE
