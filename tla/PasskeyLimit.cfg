SPECIFICATION Spec
CONSTANTS
    phone = phone
    key = key
    r1 = r1
    r2 = r2
    Counting <- MCCounting
    Silent <- MCSilent
    Request <- MCRequest
    MaxPasskeys = 1
    MaxChallenges = 3
    MaxRows = 3
    None = None
INVARIANT PasskeyLimit
CHECK_DEADLOCK FALSE
