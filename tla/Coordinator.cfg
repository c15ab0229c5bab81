SPECIFICATION FairSpec
CONSTANTS
    Nil = Nil
    Callers = {c1, c2}
    MaxRuns = 2
    MaxOps = 2
    StartRequests <- MCStartRequests
    AlterRequests <- MCAlterRequests
INVARIANTS
    TypeOK
    Ownership
    RunsNeverOverlap
    ResultsBelongToRun
    StopReachesRun
    OptionsInSync
    ErrorsSurface
PROPERTIES
    ImplementsLifecycle
    ResultsMonotone
    Concludes
