SPECIFICATION Spec
CONSTANTS
    Command = {c1}
    None = None
    MaxDaemons = 5
    MaxCalls = 5
    MaxCrashes = 2
INVARIANTS
    DirectoryInv
    Reachable
PROPERTIES
    StopStops
    CommandsReturn
CHECK_DEADLOCK FALSE
