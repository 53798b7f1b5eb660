SPECIFICATION Spec
CONSTANTS
    Program <- TwoGroups
    MaxStates = 4
    MaxHandlers = 6
    Inputs = {a, b, c, d}
    MergeDecisionMode = "random"
    UseMerge = TRUE
    UseIncompleteMerge = FALSE
    MayExceedDepth = FALSE
    MayTimeOut = FALSE
    MayExceedMemory = FALSE
    MayHalt = FALSE
SYMMETRY InputSymmetry
INVARIANTS
    NoInputTwice
    EveryStateScheduled
    NoFailure
PROPERTIES
    WaitingStatesAreFrozen
    ImplementsExploration
    DecisionsAreFinal
