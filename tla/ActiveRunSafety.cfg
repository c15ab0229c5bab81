SPECIFICATION Spec
CONSTANTS
    InitialClients = 2
    ClientTargets = {1, 2}
    MaxWorkers = 4
    MaxAlters = 2
    MaxOps = 1
CHECK_DEADLOCK FALSE
INVARIANTS
    TypeOK
    PoolAccounting
    PoolHasConfiguredSize
    DoneMeansFinished
    LateOperationsBounded
    VerdictShowsInStatistics
PROPERTIES
    FrozenAfterDone
