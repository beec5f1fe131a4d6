SPECIFICATION UploadFairSpec

CONSTANTS
    MaxSize = 11
    Limits = {3, 9, 10}
    PartSize = 2
    PartConcurrency = 2
    MaxFaults = 2

INVARIANTS
    UploadTypeOK
    BuffersBounded
    BuffersReturned
    NoUploadLeftOpen
    LimitExact

PROPERTIES
    ImplementsPut
