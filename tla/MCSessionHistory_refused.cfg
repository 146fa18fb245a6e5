SPECIFICATION HSpec
CONSTANTS
    Null = Null
    Users = {u1}
    Passwords = {p1}
    Requests = {r1}
    MaxSessions = 2
    ScanLimit = 1
    AccessTtls = {1}
    InactivityTtls = {1}
    MaxTime = 1
PROPERTIES
    LoginOnlyAfterEnd
CHECK_DEADLOCK FALSE
