SPECIFICATION ServerFairSpec

CONSTANTS
    Replicas = {n1, n2, m}
    WorkerReplicas = {n1}
    MigrateOnly = {m}
    Migrations = 2
    DrainDelay = 2
    ShutdownTimeout = 4
    Watched = {n1}
    NoticeTime = 1
    MaxFaults = 2
    MaxStops = 1

INVARIANTS
    ServerTypeOK
    MigratedOnce
    ServesOnlyWhenSetUp
    NoRequestCutOff
    NoticedBeforeClosed

PROPERTIES
    EveryReplicaSettles

CHECK_DEADLOCK FALSE
