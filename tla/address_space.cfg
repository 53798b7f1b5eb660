SPECIFICATION Spec
CONSTANTS
    Inputs = {0, 1}
    Offsets = {0, 1}
    Bytes = {0, 1}
    MaxStates = 2
    MaxInstructions = 5
    MemoryObjects = {"global", "malloc", "rodata"}
    ReadOnlyObjects = {"rodata"}
    InitialObjects = {"global", "rodata"}
    SymbolicArray <- MCArray
    SymbolicIndex <- MCIndex
    Programs = {{"index", "symbolic"}, {"external", "rodata"}, {"heap"}}
INVARIANTS
    OwnedContentsAreNotShared
    CachesAreValid
PROPERTIES
    ImplementsConcreteMemory
