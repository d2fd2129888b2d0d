SPECIFICATION FairDaemonSpec
CONSTANTS
    Daemons = {d1, d2}
    MaxVersion = 1
    MaxStarts = 1
    MaxCommands = 1
    MaxCrashes = 0
PROPERTIES
    Stops
CHECK_DEADLOCK FALSE
