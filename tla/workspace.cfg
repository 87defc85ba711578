SPECIFICATION Spec
CONSTANTS
    Task = {t1, t2}
    None = None
    MaxRuns = 3
    Delays = 1
    MaxStrays = 1
INVARIANTS
    WorkspaceInv
    WorktreeIntact
PROPERTIES
    RunEnds
CHECK_DEADLOCK FALSE
