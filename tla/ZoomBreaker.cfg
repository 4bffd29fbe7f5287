SPECIFICATION BreakerFairSpec
CONSTANTS
    Callers = {c1, c2, c3, c4}
    Threshold = 3
    Window = 2
INVARIANT OutageTrafficIsBounded
PROPERTY Recovers
