SPECIFICATION Spec
CONSTANTS
    Program <- NestedSwitch
    MaxStates = 4
    MaxHandlers = 3
    Inputs = {a, b, c, d}
    MergeDecisionMode = "merge"
    UseMerge = TRUE
    UseIncompleteMerge = FALSE
    MayExceedDepth = FALSE
    MayTimeOut = FALSE
    MayExceedMemory = TRUE
    MayHalt = FALSE
SYMMETRY InputSymmetry
INVARIANTS
    TypeOK
    OpenStatesHoldHandler
    WaitingRecordsAgree
    NoOrphanedGroup
    RecordAssertionsHold
