SPECIFICATION FairSpec
CONSTANTS
    Requests = {r1, r2, r3, r4}
    Workers = {w1, w2}
    QueueSize = 1
    Looping = Looping
    Parked = Parked
INVARIANTS
    EachCallIsHashedOnce
    AnswerIsOwn
PROPERTIES
    ServiceSpec
    AcceptedWorkIsFinished
    EveryCallerReturns
CHECK_DEADLOCK FALSE
