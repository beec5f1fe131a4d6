SPECIFICATION UploadSpec

CONSTANTS
    MaxSize = 8
    Limits = {8}
    PartSize = 2
    PartConcurrency = 1
    MaxFaults = 1

INVARIANTS
    CanceledMeansHungUp
