SPECIFICATION Spec
CONSTANTS
    Requests = {r1, r2}
    Machines = {m1, m2}
    Scanners = {s1, s2}
    ChunkRows = 1
    MaxTime = 4
    MaxScans = 2
    MaxFailures = 1
SYMMETRY Alike
INVARIANTS
    TwiceOnlyAtTheBoundary
    ScansAreComplete
    RescansReprice
CHECK_DEADLOCK FALSE
