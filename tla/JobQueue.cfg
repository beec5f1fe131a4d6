SPECIFICATION RepoSpec

CONSTANTS
    Workers = {w1, w2}
    Keys = {k1}
    NULL = NULL
    NumJobs = 2
    WorkerLease = 1
    WorkerClaimBatch = 2
    MaxAttempts = 2
    RetryBackoffBase = 1
    RetryBackoffMax = 2
    ClockLag = 0
    ClaimBound = 3

INVARIANTS
    RepoTypeOK
    RowsConsistent
    KeysUnique

PROPERTIES
    FinishedJobsFrozen
    EveryRunCounted
    ImplementsLifecycle
