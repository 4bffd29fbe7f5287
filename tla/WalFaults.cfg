SPECIFICATION FairSpec
CONSTANTS
    Requests = {r1, r2, r3}
    NoOne = NoOne
    Faults = {"kill", "power", "signal", "write", "sync"}
INVARIANTS
    StateHashAddsUp
    OnlyTornLinesLose
PROPERTIES
    LedgerSpec
    EveryHandlerEnds
