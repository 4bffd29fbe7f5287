SPECIFICATION RateSpec
CONSTANTS
    Callers = {c1}
    Threshold = 3
    Window = 2
    Calls = 10
INVARIANT TripsBelowNinetyPercent
CHECK_DEADLOCK FALSE
