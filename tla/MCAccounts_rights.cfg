SPECIFICATION Spec
CONSTANTS
    Null = Null
    Emails = {admin, other}
    DefaultAdmin = admin
    Requests = {r1, r2}
    AccessTtl = 1
    Edits <- OneChange
    MaxAccounts = 2
    MaxSessions = 2
    MaxTokens = 2
    MaxTime = 1
SYMMETRY Symmetry
INVARIANTS
    OneAccountPerAddress
PROPERTIES
    AdminRightsLapse
    AppointedByAdmins
CHECK_DEADLOCK FALSE
