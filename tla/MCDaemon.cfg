SPECIFICATION FairDaemonSpec
CONSTANTS
    Daemons = {d1, d2, d3}
    MaxVersion = 2
    MaxStarts = 1
    MaxCommands = 1
    MaxCrashes = 1
INVARIANTS
    ServesBothPlanes
PROPERTIES
    BroughtBack
    StopsUnlessFollowed
CHECK_DEADLOCK FALSE
