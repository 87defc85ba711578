SPECIFICATION Spec
CONSTANTS
    Command = {c1, c2}
    None = None
    MaxDaemons = 2
    MaxCalls = 2
    MaxCrashes = 0
INVARIANTS
    OneServer
CHECK_DEADLOCK FALSE
