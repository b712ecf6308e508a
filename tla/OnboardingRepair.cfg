SPECIFICATION Spec
CONSTANTS
    Client = {c1, c2}
    Modes = {"existing"}
    Control = TRUE
    Faults = {"restart"}
    Files <- MCFiles
    MaxAsked = 3
    MaxDeploys = 0
    MaxStops = 0
    None = None
SYMMETRY Symmetry
INVARIANT FailureRestores
CHECK_DEADLOCK FALSE
