SPECIFICATION Spec
CONSTANTS
    Kinds = {k1, k2}
    Latencies <- MCLatencies
    Bounds <- MCBounds
    Warmup = 1
    MaxTime = 2
    MaxOps = 3
SYMMETRY Interchangeable
CHECK_DEADLOCK FALSE
INVARIANTS
    TypeOK
    FiguresMatchOperations
    PercentilesAreRanks
PROPERTIES
    ElapsedSettles
