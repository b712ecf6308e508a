SPECIFICATION Spec
INVARIANT NoChangeTruthful
CONSTANTS
    p1 = p1  p2 = p2
    w1 = w1  w2 = w2
    s1 = s1  s2 = s2
    d1 = d1  d2 = d2  d3 = d3
    b0 = b0  b1 = b1  b2 = b2
    None = None
    Request = {p1}
    Worker = {w1}
    WorkerOf <- Alone
    Site = {s1}
    Directive = {d1}
    Baseline = {b0, b1}
    Formatted <- Clean
    Injected <- Optioned
    Blank = b0
    Default = b1
    Rejected = {}
    Skipped = {}
    Kinds = {"create", "delete", "sync"}
    Faults = {"lost"}
    MaxCrashes = 0
    Fresh = FALSE
