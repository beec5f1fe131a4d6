SPECIFICATION Spec

CONSTANTS
    Workers = {w1}
    Keys = {}
    NULL = NULL
    NumJobs = 2
    WorkerLease = 2
    WorkerClaimBatch = 2
    MaxAttempts = 2
    RetryBackoffBase = 1
    RetryBackoffMax = 2
    ClockLag = 0
    ClaimBound = 2
    Concurrency = 1
    FinalTimeout = 5
    MaxRun = 4
    MaxFaults = 0
    MaxStops = 0

INVARIANTS
    NeverReapedAlive
