SPECIFICATION Spec
CONSTANTS
    phone = phone
    key = key
    r1 = r1
    r2 = r2
    Counting <- MCCounting
    Silent <- MCSilent
    Request <- MCRequest
    MaxPasskeys = 2
    MaxChallenges = 3
    MaxRows = 3
    None = None
SYMMETRY Symmetry
INVARIANTS TypeOK AnsweredOnce
PROPERTY CounterNeverFalls
CHECK_DEADLOCK FALSE
