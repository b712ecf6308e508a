SPECIFICATION Spec
INVARIANT LiveOnce
CONSTANTS
    h1 = h1  h2 = h2
    None = None
    Host = {h1}
    Target = {1}
    Scan = {1, 2}
    Task = {1, 2}
    Forget = FALSE
    Poll = 1
    Retry = 1
    Gap = 1
    StaleAfter = 2
    MaxDuration = 2
    Interval = 1
    Edits <- ComesAndGoes
    Asked = {h1}
    MaxClicks = 1
    MaxStops = 0
