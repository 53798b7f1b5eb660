CONSTANTS
    Workers = {w1}
    Processes = {k1}
    Jobs <- MCJobs
    Load = Load
    None = None
    Likelihoods <- Likely
    QueueSize = 1
    MaxFaults = 0
    MaxQueries = 1
SPECIFICATION Spec
INVARIANT
    GuidanceFollowed
CHECK_DEADLOCK FALSE
