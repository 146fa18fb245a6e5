SPECIFICATION Spec
CONSTANTS
    Null = Null
    Users = {u1, u2}
    Requests = {r1, r2}
    Types = {"EUR_IBAN", "EUR_WISETAG"}
    Bodies <- OneField
    MaxBeneficiaries = 1
    MaxNotifications = 1
SYMMETRY Symmetry
INVARIANTS
    CompleteUnlessEmptied
    NothingOutlivesItsUser
    PreferenceHonoured
PROPERTIES
    OnlyTheOwnerWrites
    UpdatesAreNotLost
CHECK_DEADLOCK FALSE
