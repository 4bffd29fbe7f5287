SPECIFICATION FairSpec
CONSTANTS
    Requests = {r1, r2, r3}
    Users = {u1}
    Orgs = {o1, o2}
    None = None
INVARIANTS
    RotationIsAtomic
    RevocationRefusesLaterRefresh
    TenantIsolation
    EnrollmentStartsFromARefresh
PROPERTIES
    RevocationIsFinal
    EveryRequestIsAnswered
CHECK_DEADLOCK FALSE
