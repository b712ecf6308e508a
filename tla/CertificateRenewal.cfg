SPECIFICATION FairSpec
CONSTANTS
    a = a
    b = b
    s1 = s1
    Name = {a, b}
    Wild = wild
    Wildcarded = {b}
    Site = {s1}
    Names <- MCNames
    Primary <- MCPrimary
    Request = {r1, r2}
    Modes = {"disabled", "docker"}
    Confirm = TRUE
    Faults = {"storage", "sync", "supervisor", "collect", "remove", "purge_timeout", "reload", "reload_timeout", "restart", "api"}
    MaxIssued = 3
    MaxElse = 1
    Start <- MCStart
    None = None
INVARIANTS TypeOK LockHeld RenewedIsNew
PROPERTIES AwaitedNotRemoved EveryRenewalEnds
CHECK_DEADLOCK FALSE
