SPECIFICATION Spec

CONSTANTS
    Workers = {w1}
    Keys = {}
    NULL = NULL
    NumJobs = 2
    WorkerLease = 4
    WorkerClaimBatch = 2
    MaxAttempts = 2
    RetryBackoffBase = 1
    RetryBackoffMax = 2
    ClockLag = 2
    ClaimBound = 2
    Concurrency = 2
    FinalTimeout = 5
    MaxRun = 4
    MaxFaults = 0
    MaxStops = 1

INVARIANTS
    PollerHasRoom
    NoClaimForgotten
    NeverReapedAlive

PROPERTIES
    OutcomeRecorded
