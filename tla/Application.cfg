SPECIFICATION FairSpec
CONSTANTS
    Nil = Nil
    Clients = {c1, c2}
    MaxRuns = 1
    Requests <- MCRequests
    Setups <- MCSetups
    Number <- MCNumber
    Multiline = {"two lines"}
    URLHosts = {"h"}
    KeyPairs <- MCKeyPairs
CHECK_DEADLOCK FALSE
INVARIANTS
    TypeOK
    ExitTellsFailure
    CutOffIsReported
PROPERTIES
    RepliesTellOutcome
    SignalEndsProcess
