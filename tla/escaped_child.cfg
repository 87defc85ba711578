SPECIFICATION Spec
CONSTANTS
    None = None
    a1 = a1
    a2 = a2
    a3 = a3
    p = p
    c = c
    Tasks = {p, c}
    Agents = {a1, a2}
    Ops = {o1}
    Parent <- ParentAndChild
    Backlog = 1
    Faulty = {}
    Asking = FALSE
    Patient = FALSE
    MaxCrashes = 0
SYMMETRY LaunchSymmetry
INVARIANTS
    CascadeReachesChildren
CHECK_DEADLOCK FALSE
