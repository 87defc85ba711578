SPECIFICATION FairSpec
CONSTANTS
    None = None
    Proc = {p1, p2}
    Call = {c1, c2}
    WithId = {c1}
    MaxRetries = 1
    Rotates = TRUE
    Flaky = TRUE
    MaxTokens = 3
    MaxLogins = 1
INVARIANTS
    CallInv
    FileUsable
PROPERTIES
    CallsReturn
CHECK_DEADLOCK FALSE
