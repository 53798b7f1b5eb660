SPECIFICATION Spec
CONSTANTS
    Program <- SlowCase
    MaxStates = 5
    MaxHandlers = 4
    Inputs = {a, b, c}
    MergeDecisionMode = "random"
    UseMerge = TRUE
    UseIncompleteMerge = TRUE
    MayExceedDepth = TRUE
    MayTimeOut = TRUE
    MayExceedMemory = FALSE
    MayHalt = TRUE
SYMMETRY InputSymmetry
INVARIANTS
    StepInv
