SPECIFICATION Spec
CONSTANTS
    None = None
    a1 = a1
    a2 = a2
    a3 = a3
    p = p
    c = c
    Tasks = {p}
    Agents = {a1, a2}
    Ops = {o1}
    Parent <- Unrelated
    Backlog = 2
    Faulty = {"spawn", "die", "huge", "store"}
    Asking = TRUE
    Patient = FALSE
    MaxCrashes = 1
SYMMETRY LaunchSymmetry
INVARIANTS
    TypeOK
    Supervised
    RouteFollowsHandle
CHECK_DEADLOCK FALSE
