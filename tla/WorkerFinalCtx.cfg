SPECIFICATION Spec

CONSTANTS
    Workers = {w1}
    Keys = {}
    NULL = NULL
    NumJobs = 1
    WorkerLease = 2
    WorkerClaimBatch = 2
    MaxAttempts = 2
    RetryBackoffBase = 1
    RetryBackoffMax = 2
    ClockLag = 0
    ClaimBound = 2
    Concurrency = 1
    FinalTimeout = 1
    MaxRun = 2
    MaxFaults = 0
    MaxStops = 0

PROPERTIES
    OutcomeRecorded
