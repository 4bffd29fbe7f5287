SPECIFICATION FairSpec
CONSTANTS
    Logins = {l1, l2, l3}
    Others = {a, b}
    PoolSize = 2
INVARIANTS
    ConnectionsAddUp
    StandstillIsLogins
PROPERTY OnlyLoginsStarve
CHECK_DEADLOCK FALSE
