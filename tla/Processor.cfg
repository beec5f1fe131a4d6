SPECIFICATION ProcessorFairSpec

CONSTANTS
    Calls = {c1, c2}
    Jobs = {j, r, e1, e2}
    Called = {j, r}
    Refused = {r}
    Earlier = {e1, e2}
    MaxRetries = 2
    Timeout = 1
    FirstBackoff = 2
    MaxRememberedJobs = 2

INVARIANTS
    ProcessorTypeOK
    CacheExact
    OkMeansProcessed
    PermanentMeansHopeless
    CallTimeBounded

PROPERTIES
    CallReturns

CHECK_DEADLOCK FALSE
