SPECIFICATION FairSpec
CONSTANTS
    Program <- ExplicitRegion
    MaxStates = 5
    MaxHandlers = 4
    Inputs = {a, b, c}
    MergeDecisionMode = "random"
    UseMerge = TRUE
    UseIncompleteMerge = FALSE
    MayExceedDepth = FALSE
    MayTimeOut = FALSE
    MayExceedMemory = FALSE
    MayHalt = FALSE
INVARIANTS
    NoMergeInDelete
PROPERTIES
    PausedStatesContinue
    ExplorationEnds
    MergingAbsorbsOne
