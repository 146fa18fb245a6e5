SPECIFICATION AggregateFairSpec
CONSTANTS
    Null = Null
    Calls = {eur, usdc}
    Wallets = {eur, usdc}
    Rates = {eur, usdc}
    ClientKeys = {}
    SafeReadRetries = 1
    MaxChanges = 2
INVARIANTS
    ValuesAreCurrent
    MissingIsTold
PROPERTIES
    AggregateIsAnswered
CHECK_DEADLOCK FALSE
