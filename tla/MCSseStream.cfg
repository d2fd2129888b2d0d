CONSTANTS
    Scripts <- Series
    FirstByte = 1
    Idle = 2
SPECIFICATION FairSpec
INVARIANTS PassThrough UsageCounted
PROPERTIES SilenceIsSilence Metered
CHECK_DEADLOCK FALSE
