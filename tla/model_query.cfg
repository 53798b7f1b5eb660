CONSTANTS
    Workers = {w1}
    Processes = {k1, k2}
    Jobs <- MCJobs
    Load = Load
    None = None
    Likelihoods <- Tiny
    QueueSize = 1
    MaxFaults = 2
    MaxQueries = 2
SPECIFICATION Spec
INVARIANTS
    AnsweredOnce
    PredictionsAreOwn
    MergedIfAnswered
PROPERTIES
    QueriesEnd
CHECK_DEADLOCK FALSE
