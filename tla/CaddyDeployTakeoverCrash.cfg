SPECIFICATION Spec
PROPERTY ServedUntilTakenOver
CONSTANTS
    p1 = p1  p2 = p2
    w1 = w1  w2 = w2
    s1 = s1  s2 = s2
    d1 = d1  d2 = d2  d3 = d3
    b0 = b0  b1 = b1  b2 = b2
    None = None
    Request = {p1}
    Worker = {w1}
    WorkerOf <- Alone
    Site = {s1, s2}
    Directive = {d1}
    Baseline = {b0, b1, b2}
    Formatted <- Clean
    Injected <- Optioned
    Blank = b0
    Default = b2
    Rejected = {}
    Skipped = {}
    Kinds = {"onboard", "create"}
    Faults = {}
    MaxCrashes = 1
    Fresh = TRUE
