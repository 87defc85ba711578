SPECIFICATION Spec
CONSTANTS
    None = None
    a1 = a1
    a2 = a2
    a3 = a3
    p = p
    c = c
    Tasks = {p, c}
    Agents = {a1, a2}
    Ops = {}
    Parent <- ParentAndChild
    Backlog = 1
    Faulty = {"die"}
    Asking = FALSE
    Patient = TRUE
    MaxCrashes = 0
SYMMETRY LaunchSymmetry
INVARIANTS
    FailureCascades
CHECK_DEADLOCK FALSE
