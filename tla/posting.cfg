SPECIFICATION Spec
CONSTANTS
    Finding = {1, 2, 3}
    Domain = {"quality", "security"}
    Line = {"a"}
    LineOf <- LineOfFinding
    DomainOf <- DomainOfFinding
    SeverityOf <- SeverityOfFinding
    Twins <- TwinFindings
    MaxComments = 2
    MaxCites = 2
    MaxRuns = 2
    MaxCrashes = 1
INVARIANTS
    ReviewInv
    CleanIsHonest
    VerdictCovers
    InlineOnce
PROPERTIES
    FailedDomainKept
CHECK_DEADLOCK FALSE
