CONSTANTS
    e1 = e1
    e2 = e2
    Editors = {e1, e2}
    MaxEdits = 2
    MaxFailures = 0
SPECIFICATION FairSpec
PROPERTY RoutesCatchUp
