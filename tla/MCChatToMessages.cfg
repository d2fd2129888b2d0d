SPECIFICATION Spec
CONSTANTS
    Tools = {"call0", "call1"}
    Chunks <- Upstream
    Threshold = 2
    MaxChunks = 5
INVARIANTS
    NothingLost
    BilledOnce
    NeverTwiceTold
PROPERTY TellsAMessage
CHECK_DEADLOCK FALSE
