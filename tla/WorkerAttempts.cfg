SPECIFICATION Spec

CONSTANTS
    Workers = {w1}
    Keys = {}
    NULL = NULL
    NumJobs = 1
    WorkerLease = 2
    WorkerClaimBatch = 2
    MaxAttempts = 1
    RetryBackoffBase = 1
    RetryBackoffMax = 2
    ClockLag = 0
    ClaimBound = 2
    Concurrency = 1
    FinalTimeout = 2
    MaxRun = 1
    MaxFaults = 1
    MaxStops = 0

INVARIANTS
    AttemptsBounded
