SPECIFICATION FairSpec
CONSTANTS
    InitialClients = 1
    ClientTargets = {1, 2}
    MaxWorkers = 2
    MaxAlters = 1
    MaxOps = 1
CHECK_DEADLOCK FALSE
PROPERTIES
    PacedWorkersProceed
