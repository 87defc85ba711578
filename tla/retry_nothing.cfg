SPECIFICATION Spec
CONSTANTS
    Task = {t1, t2}
    None = None
    MaxRuns = 3
    Delays = 1
    MaxStrays = 1
PROPERTIES
    RetryGoesOn
CHECK_DEADLOCK FALSE
