SPECIFICATION Spec
INVARIANTS
    TypeOK
    OneLiveScan
CONSTANTS
    h1 = h1  h2 = h2
    None = None
    Host = {h1, h2}
    Target = {1, 2, 3}
    Scan = {1, 2}
    Task = {1, 2}
    Forget = FALSE
    Poll = 1
    Retry = 1
    Gap = 1
    StaleAfter = 1
    MaxDuration = 1
    Interval = 1
    Edits <- AnyChange
    Asked = {h1}
    MaxClicks = 1
    MaxStops = 1
