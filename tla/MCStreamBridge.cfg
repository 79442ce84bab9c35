SPECIFICATION FairStreamSpec
CONSTANTS
    Paths = {"converse", "openai", "native"}
    Tool = {0, 1}
    MaxFrames = 4
    MaxTicks = 1
INVARIANTS
    WellFormed
    FinishedWhole
PROPERTIES
    UsageTold
    StreamEnds
CHECK_DEADLOCK FALSE
