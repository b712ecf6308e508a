SPECIFICATION FairSpec
CONSTANTS
    d1 = d1
    d2 = d2
    c1 = c1
    c2 = c2
    c3 = c3
    Domain = {d1, d2}
    Caller = {c1, c2}
    Fetch = {f1, f2}
    Permits = 1
    MaxEntries = 1
    MaxIssued = 1
    MaxGen = 1
    None = None
INVARIANTS TypeOK OneFetch NoStaleStore
PROPERTY EveryCallerAnswered
CHECK_DEADLOCK FALSE
