CONSTANTS
    Elements <- MCElements
    MaxByte = 1
    Width = 3
    Programs <- MCPrograms
    Options <- MCOptions
SPECIFICATION Spec
INVARIANTS
    NoFailedAssertion
    CounterexamplesHold
    BranchesHold
    PathsPartitionInputs
    TestCasesReplay
    NoLossWithoutTimeout
    RangesHold
    FastAnswersHold
