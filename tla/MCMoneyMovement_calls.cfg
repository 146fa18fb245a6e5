SPECIFICATION FairSpec
CONSTANTS
    Null = Null
    Calls = {c1, c2}
    ClientKeys = {k1}
    SafeReadRetries = 2
    Ops = {"deposit", "confirm", "quote", "rate", "validate", "preview", "verify", "read"}
INVARIANTS
    PostIsSentOnce
    SuccessMeansMade
    EffectsAreAudited
PROPERTIES
    ImplementsBook
    CallsEnd
CHECK_DEADLOCK FALSE
