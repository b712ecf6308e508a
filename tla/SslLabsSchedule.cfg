SPECIFICATION FairSpec
PROPERTIES
    EveryScanEnds
    DueIsScanned
CONSTANTS
    h1 = h1  h2 = h2
    None = None
    Host = {h1}
    Target = {1}
    Scan = {1, 2}
    Task = {1, 2}
    Forget = TRUE
    Poll = 1
    Retry = 1
    Gap = 1
    StaleAfter = 1
    MaxDuration = 1
    Interval = 2
    Edits = {}
    Asked = {h1}
    MaxClicks = 1
    MaxStops = 1
