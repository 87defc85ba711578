SPECIFICATION FairSpec
CONSTANTS
    Streams = {s1}
    MaxEvents = 3
    MaxRuns = 2
    MaxOpens = 2
    Endings = {"completed"}
    Others = {"exit", "cascade", "clear"}
    Patient = TRUE
INVARIANTS
    StreamInv
PROPERTIES
    EndIsComplete
    StreamEnds
CHECK_DEADLOCK FALSE
