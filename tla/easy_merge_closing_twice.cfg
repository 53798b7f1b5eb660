SPECIFICATION Spec
CONSTANTS
    Program <- EasyMerge
    MaxStates = 4
    MaxHandlers = 5
    Inputs = {a, b, c, d}
    MergeDecisionMode = "merge"
    UseMerge = TRUE
    UseIncompleteMerge = FALSE
    MayExceedDepth = FALSE
    MayTimeOut = FALSE
    MayExceedMemory = FALSE
    MayHalt = FALSE
INVARIANTS
    NeverClosingTwice
