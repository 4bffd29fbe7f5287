SPECIFICATION Spec
CONSTANTS
    Requests = {r1, r2}
    NoOne = NoOne
    Faults = {"power"}
INVARIANT DurableSurvives
