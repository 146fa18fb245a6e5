SPECIFICATION Spec
CONSTANTS
    Null = Null
    Deleted = Deleted
    Users = {u1, u2}
    Requests = {r1, r2}
    MaxSubmissions = 2
SYMMETRY Symmetry
INVARIANTS
    SubmissionsAreComplete
    VerdictsBounded
    TierFollowsApproval
CHECK_DEADLOCK FALSE
