SPECIFICATION Spec
CONSTANTS
    Null = Null
    Requests = {r1, r2}
    MaxCodes = 2
    OtpTtl = 2
    ResendCooldown = 1
    MaxAttempts = 2
    MaxTime = 2
SYMMETRY Symmetry
INVARIANTS
    AcceptedCodeWasGood
    GuessesBounded
    OutstandingBounded
    UsesPerCodeBounded
CHECK_DEADLOCK FALSE
