CONSTANTS
    e1 = e1
    e2 = e2
    Editors = {e1, e2}
    MaxEdits = 2
    MaxFailures = 1
SPECIFICATION FairSpec
INVARIANTS AloneIsRouted AloneBinds
PROPERTY LimitsCatchUp
