SPECIFICATION IngestSpec

CONSTANTS
    Workers = {}
    Keys = {k1}
    NULL = NULL
    NumJobs = 2
    WorkerLease = 1
    WorkerClaimBatch = 1
    MaxAttempts = 1
    RetryBackoffBase = 0
    RetryBackoffMax = 0
    ClockLag = 0
    ClaimBound = 0
    MaxConcurrentUploads = 1
    MaxParts = 2
    MaxFaults = 1
    MaxLostInserts = 1

INVARIANTS
    RowsHaveObjects

CHECK_DEADLOCK FALSE
