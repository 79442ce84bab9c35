SPECIFICATION Spec
CONSTANTS
    Calls = {"bash:0", "read"}
    Sanitized <- MCSanitized
    MaxMessages = 5
    Prompt <- MCPrompt
    Kinds = {"blocks", "empty"}
    Places = {"after", "none"}
    Replies <- MCReplies
    Streams <- MCStreams
    Natives <- MCNatives
    MaxSaid = 5
INVARIANTS
    EveryCallAnswered
    StrictlyAccepted
    NothingLost
PROPERTY
    PrefixKept
CHECK_DEADLOCK FALSE
