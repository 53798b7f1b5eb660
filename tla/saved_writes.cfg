CONSTANTS
    MaxFds    = 3
    SymFiles  = {"A"}
    FileSize  = 1
    OffMax    = 3
    MaxCount  = 7
    MaxStdout = 1
    FailKinds = {"read", "close"}
    Setups <- MCSetups
SPECIFICATION Spec
INVARIANT SavedWritesExecute
CHECK_DEADLOCK FALSE
