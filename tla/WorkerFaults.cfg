SPECIFICATION FairSpec

CONSTANTS
    Workers = {w1, w2}
    Keys = {}
    NULL = NULL
    NumJobs = 1
    WorkerLease = 2
    WorkerClaimBatch = 2
    MaxAttempts = 2
    RetryBackoffBase = 1
    RetryBackoffMax = 2
    ClockLag = 0
    ClaimBound = 3
    Concurrency = 1
    FinalTimeout = 2
    MaxRun = 1
    MaxFaults = 1
    MaxStops = 1

INVARIANTS
    TypeOK
    ClaimHeldOnce

PROPERTIES
    ImplementsQueue
    EveryJobSettles
