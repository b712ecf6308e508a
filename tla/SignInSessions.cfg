SPECIFICATION Spec
CONSTANTS
    b1 = b1
    b2 = b2
    r1 = r1
    r2 = r2
    Browser <- MCBrowser
    Request <- MCRequest
    MaxIssued = 3
    MaxStep = 2
    NumCodes = 1
    None = None
PROPERTY OtherSessionsEnded
