SPECIFICATION FairSpec
CONSTANTS
    InitialClients = 2
    ClientTargets = {1}
    MaxWorkers = 3
    MaxAlters = 1
    MaxOps = 1
CHECK_DEADLOCK FALSE
PROPERTIES
    CancelledWorkersLeave
    RunCompletes
