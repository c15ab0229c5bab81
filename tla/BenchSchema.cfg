SPECIFICATION Spec
CONSTANTS
    Scales = {1, 2}
    AccountsPerScale = 8
    MixedReadPercent = 5
    MaxSetups = 3
    MaxIterations = 18
CHECK_DEADLOCK FALSE
INVARIANTS
    TypeOK
    SetupCompletesDataset
    DataNeverFailsRun
    StatementsFindRows
PROPERTIES
    HistoryNamesOneBranch
