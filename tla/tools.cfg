SPECIFICATION FairSpec
CONSTANTS
    Tools = {"fetch", "ls"}
    ShellTools = {"ls"}
    Unknown = "gone"
    Budget = 7
    MinBudget = 2
    Prompts = {2, 7}
    ResultSizes = {1, 3}
    MaxTurns = 4
    MaxRetries = 2
    MaxRepeats = 3
    MaxAttempts = 2
    MaxCalls = 2
INVARIANTS
    PromptInv
    CalledAgainOnlyWhenSlow
    NoTreadmill
PROPERTIES
    LoopEnds
CHECK_DEADLOCK FALSE
