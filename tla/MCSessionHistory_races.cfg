SPECIFICATION HSpec
CONSTANTS
    Null = Null
    Users = {u1}
    Passwords = {p1, p2}
    Requests = {r1, r2}
    MaxSessions = 2
    ScanLimit = 2
    AccessTtls = {1}
    InactivityTtls = {1, 3}
    MaxTime = 2
SYMMETRY Symmetry
CONSTRAINT Explored
INVARIANTS
    EscapesBounded
    GrantsAreJustified
    MassRevocationIsComplete
    UsageTimesCoherent
    ShortenedLimitApplies
PROPERTIES
    ImplementsRegister
CHECK_DEADLOCK FALSE
