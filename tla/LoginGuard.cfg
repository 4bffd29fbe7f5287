SPECIFICATION Spec
CONSTANTS
    Requests = {r1, r2, r3, r4}
    IPs = {i1}
    Accounts = {a1}
    MaxConcurrent = 2
    PerMinute = 2
    PerFiveMinutes = 3
    Limit = 2
    Minute = 1
    FiveMinutes = 1
    TenMinutes = 1
    Hour = 1
    MaxTime = 2
    None = None
SYMMETRY Symmetry
INVARIANTS
    InsideIsCounted
    GuessesAreBounded
    LockIsDeserved
    LockHolds
    IpIsThrottled
CHECK_DEADLOCK FALSE
