SPECIFICATION PoolSpec
CONSTANTS
    Keys = {s1, s2, s3}
    Ids = {0, 1, 2, 3}
    Capacity = 2
    MaxTick = 10
    Turns = {t1, t2}
    NoSession = none
    Secrets = {k1, k2, k3}
    NoKey = nokey
    MaxTurns = 4
    MaxEdits = 2
SYMMETRY Symmetric
INVARIANTS
    Bounded
    KeysTakeTurns
PROPERTIES
    EvictsOnlyQuiet
    KeepsItsKey
CHECK_DEADLOCK FALSE
