SPECIFICATION Spec
CONSTANTS
    MaxStates = 3
    MaxSteps = 2
    Searches <- MCSearches
INVARIANTS
    NoSearcherFailure
    SearchersAgree
    LeavesAreStates
    BreadthFirst
PROPERTIES
    ImplementsBaseSearcher
    DeepenedStatesResume
