SPECIFICATION FairWriterSpec
CONSTANTS
    keeper = keeper
    closer = closer
    Caller <- TwoCallers
    CallsOf <- MCCallsOf
    MaxJobs = 2
    KindsOf <- MCKindsOf
    MaxOutstanding = 1
    MaxBatch = 2
    MaxQueue = 1
    Budget = 1
    MaxPasses = 2
    MaxCrashes = 2
    Faults = {"init","apply","body","spawn"}
INVARIANTS NoJobForgotten BudgetExact OwedKept
PROPERTIES EverythingSettles LogSpec
CHECK_DEADLOCK FALSE
