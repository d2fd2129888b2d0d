CONSTANTS
    Plan = 3
    Retries <- MCRetries
    Timeout <- MCTimeout
    Budget = 12
    Second = 1
    Cap = 3
    Step = 1
    MaxStep = 2
    Windows = {0, 2, 4}
    Slowest = 4
    Lag = 1
SPECIFICATION FairRetrySpec
INVARIANTS InItsBudget WithinTwoBudgets AttemptsBounded WindowsRespected
PROPERTY Answered
CHECK_DEADLOCK FALSE
