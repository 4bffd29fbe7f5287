SPECIFICATION FairSpec
CONSTANTS
    Users = {u1}
    Rooms = {a, b}
    Sockets = {s1, s2}
    Messages = {m1, m2}
    Polls = {p1}
    Repeats = 1
    None = None
INVARIANTS
    KeysAgree
    AcknowledgedInOrder
    PollsAreUpToDate
PROPERTY EveryEventIsAnswered
CHECK_DEADLOCK FALSE
