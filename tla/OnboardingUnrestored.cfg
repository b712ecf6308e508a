\* Not a run: an existing file, a load and its restore that both fail, and
\* nobody else: TLC finds FailureRestores violated by three requests.
SPECIFICATION Spec
CONSTANTS
    Client = {c1}
    Modes = {"existing"}
    Control = TRUE
    Faults = {"load", "restore"}
    Files <- MCFiles
    MaxAsked = 3
    MaxDeploys = 0
    MaxStops = 0
    None = None
INVARIANT FailureRestores
CHECK_DEADLOCK FALSE
