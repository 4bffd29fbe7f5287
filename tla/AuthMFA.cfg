SPECIFICATION Spec
CONSTANTS
    Requests = {r1, r2, r3}
    Users = {u1}
    Orgs = {o1}
    None = None
INVARIANT PrivilegedClaimsNeedMFA
CHECK_DEADLOCK FALSE
