CONSTANTS
    app = app
    None = None
    Procs = {app}
    FileCount = 2
    Shapes <- Agents
    MaxKeys = 2
    MaxVersions = 2
    MaxTroubles = 2
    Troubles = {"write", "putback", "row", "daemon", "misread", "overlook", "load", "edit", "loss"}
SPECIFICATION Spec
INVARIANTS BackupHoldsNoKey KnownKey OriginalsSurvive DisableLeavesNoRoute
PROPERTIES DisableGivesBack FailedEnableUndone ReconcileConverges
