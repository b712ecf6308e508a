SPECIFICATION FairSpec
CONSTANTS
    Client = {c1, c2}
    Modes = {"existing", "default", "docker", "missing"}
    Control = TRUE
    Faults = {"file", "prepare", "adapt", "load", "edit", "restart", "restore"}
    Files <- MCFiles
    MaxAsked = 4
    MaxDeploys = 1
    MaxStops = 1
    None = None
INVARIANTS TypeOK OwnKept LossNamesBackup CoveredFailureRestores
PROPERTY EveryRequestEnds
CHECK_DEADLOCK FALSE
