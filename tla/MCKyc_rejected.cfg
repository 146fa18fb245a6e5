SPECIFICATION Spec
CONSTANTS
    Null = Null
    Deleted = Deleted
    Users = {u1}
    Requests = {r1, r2}
    MaxSubmissions = 1
SYMMETRY Symmetry
PROPERTIES
    ApprovedIsNotRejected
CHECK_DEADLOCK FALSE
