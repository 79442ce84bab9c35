SPECIFICATION TurnLogSpec
CONSTANTS
    anna = anna
    ben = ben
    Session = {anna}
    MaxTurns = 2
    MaxStores = 2
    MaxSeqEntries = 2
    MaxBatch = 2
    MaxFailures = 0
    MaxDeaths = 0
    MaxCrashes = 0
INVARIANTS NoTurnDropped
CHECK_DEADLOCK FALSE
