SPECIFICATION TurnLogSpec
CONSTANTS
    anna = anna
    ben = ben
    Session <- TwoSessions
    MaxTurns = 4
    MaxStores = 2
    MaxSeqEntries = 1
    MaxBatch = 2
    MaxFailures = 2
    MaxDeaths = 1
    MaxCrashes = 1
SYMMETRY Symmetry
INVARIANTS
    RollupExact
    TurnsKept
    NumberedInOrder
CHECK_DEADLOCK FALSE
