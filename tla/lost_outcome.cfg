SPECIFICATION Spec
CONSTANTS
    None = None
    a1 = a1
    a2 = a2
    a3 = a3
    p = p
    c = c
    Tasks = {p}
    Agents = {a1, a2}
    Ops = {o1}
    Parent <- Unrelated
    Backlog = 1
    Faulty = {}
    Asking = FALSE
    Patient = FALSE
    MaxCrashes = 0
SYMMETRY LaunchSymmetry
INVARIANTS
    ExitIsRecorded
CHECK_DEADLOCK FALSE
