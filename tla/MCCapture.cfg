SPECIFICATION FairCaptureSpec
CONSTANTS
    Streamed = {t1}
    Json = {t2}
    Limits <- MCLimits
    Bodies <- MCBodies
    Sizes = {1, 2}
    MaxChunks = 3
INVARIANTS
    BudgetExact
    RecordHonest
PROPERTIES
    CapturesEnd
CHECK_DEADLOCK FALSE
