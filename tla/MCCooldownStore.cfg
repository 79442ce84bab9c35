SPECIFICATION FairStoreSpec
CONSTANTS
    Pair = {p1, p2}
    None = None
    Blind = 2
    Jitter = 1
    MaxCooldown = 3
    ResetMargin = 1
    ResetTimes = {0, 4}
    MaxTime = 4
INVARIANTS
    WindowJustified
    RestartKeepsState
PROPERTIES
    NoEarlyReinstatement
    WindowEnds
