SPECIFICATION FairSpec
INVARIANT StoredIsDeployed
PROPERTIES
    ImplementsContract
    TakeoverKeepsSites
    EveryRequestEnds
CONSTANTS
    p1 = p1  p2 = p2
    w1 = w1  w2 = w2
    s1 = s1  s2 = s2
    d1 = d1  d2 = d2  d3 = d3
    b0 = b0  b1 = b1  b2 = b2
    None = None
    Request = {p1, p2}
    Worker = {w1}
    WorkerOf <- Alone
    Site = {s1, s2}
    Directive = {d1, d3}
    Baseline = {b0, b1, b2}
    Formatted <- Clean
    Injected <- Optioned
    Blank = b0
    Default = b2
    Rejected = {}
    Skipped <- ThirdSkipped
    Kinds = {"create", "delete", "onboard"}
    Faults = {"adapt", "write", "load"}
    MaxCrashes = 0
    Fresh = TRUE
