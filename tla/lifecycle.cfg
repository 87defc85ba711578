SPECIFICATION Spec
CONSTANTS
    None = None
    a1 = a1
    a2 = a2
    a3 = a3
    p = p
    c = c
    Tasks = {p}
    Agents = {a1, a2, a3}
    Ops = {o1}
    Parent <- Unrelated
    Backlog = 1
    Faulty = {"store"}
    Asking = TRUE
    Patient = TRUE
    MaxCrashes = 1
SYMMETRY LaunchSymmetry
PROPERTIES
    ImplementsLifecycle
CHECK_DEADLOCK FALSE
