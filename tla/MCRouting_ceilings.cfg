CONSTANTS
    r1 = r1
    r2 = r2
    r3 = r3
    solo = solo
    duo = duo
    ring = ring
    window = window
    quota = quota
    queue = queue
    p1 = p1
    p2 = p2
    p3 = p3
    s1 = s1
    s2 = s2
    k1 = k1
    k2 = k2
    k3 = k3
    k4 = k4
    m1 = m1
    m2 = m2
    None = None
    NoSession = NoSession
    Requests = {r1, r2}
    Agents = {solo, duo, ring}
    Providers = {p1, p2, p3}
    Sessions = {s1}
    Keys = {k1, k2, k3, k4}
    Client <- CeilingClient
    Route <- CeilingRoute
    Strategy <- CeilingStrategy
    Weight <- EvenWeights
    Window <- NoWindow
    QuotaLimit <- NoQuota
    Calls <- CeilingCalls
    Outcomes = {"served", "rejected", "failed", "unreachable", "streamed"}
    LimitSets <- CeilingLimits
    Day = 1
    Serial = TRUE
SPECIFICATION Spec
SYMMETRY Symmetric
INVARIANTS CeilingsHold SingleIsNeverPromoted GaugesCountSeats
PROPERTY ReplaysDownTheRoute
CHECK_DEADLOCK FALSE
