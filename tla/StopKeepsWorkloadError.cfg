SPECIFICATION FairSpec
CONSTANTS
    Nil = Nil
    Callers = {c1}
    MaxRuns = 1
    MaxOps = 1
    StartRequests <- MCStartRequests
    AlterRequests <- MCAlterRequests
PROPERTIES
    StopKeepsWorkloadError
