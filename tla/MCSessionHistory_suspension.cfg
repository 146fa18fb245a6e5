SPECIFICATION HSpec
CONSTANTS
    Null = Null
    Users = {u1}
    Passwords = {p1}
    Requests = {r1, r2}
    MaxSessions = 1
    ScanLimit = 1
    AccessTtls = {1}
    InactivityTtls = {1}
    MaxTime = 1
SYMMETRY Symmetry
INVARIANTS
    SuspendedUserHasNoSession
CHECK_DEADLOCK FALSE
