SPECIFICATION Spec
CONSTANTS
    Null = Null
    Users = {u1, u2}
    Requests = {r1, r2}
    MaxChallenges = 2
    ChallengeTtl = 1
    MaxTime = 2
SYMMETRY Symmetry
INVARIANTS
    LoginWasInOrder
    LoginsPerChallengeBounded
    KeyIsTheOwners
CHECK_DEADLOCK FALSE
