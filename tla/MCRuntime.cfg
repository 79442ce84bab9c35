SPECIFICATION FairRuntimeSpec
CONSTANTS
    None = None
    Torn = Torn
    Var <- MCVar
    Ephemeral = "ephemeral"
    InboundVar = "INBOUND"
    AwsVar = "AWS"
    Placeholder = {"REPLACE_ME"}
    DevSentinel = {"dev", "DEV"}
    Long = {"bedrockKey", "zai-host"}
    Insecure = {"http"}
    Blocked = {"10.0.0.1"}
    DefaultAttempts = 4
    DefaultLimit = 9
    DefaultRetention = 0
    Claude = {"claude"}
    Source <- MCSource
    Lists <- MCLists
    Revoked = {"zaiKey"}
    CooldownBase = 1
    CooldownCap = 1
    Starts <- MCStarts
    Edits <- MCEdits
    MaxPosts = 2
    MaxEvents = 3
INVARIANTS
    NoManagerLeaked
    OneConfiguration
    RoutesSound
PROPERTIES
    CatalogForward
    ReferencesSurvive
    CatalogCatchesUp
CHECK_DEADLOCK FALSE
