SPECIFICATION OutboundSpec
CONSTANTS
    Call = {message, count}
    Request = {message, count}
    Counts = {count}
    Region = {eu}
    Ttl = 2
    Skew = 1
    MaxMints = 3
    MaxTime = 2
    MaxRetries = 2
    Backoff = 1
    BackoffCap = 1
    RetryCap = 1
    RetryAfters = {5}
CHECK_DEADLOCK FALSE
INVARIANT
    MessageTakenOnce
