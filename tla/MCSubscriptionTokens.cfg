SPECIFICATION MCSpec
CONSTANTS
    s1 = s1
    s2 = s2
    Service = {s1, s2}
    Caller = {c1}
    ProviderAccount = {a1}
    NoAccount = NoAccount
    MaxLogins = 2
    MaxSignOuts = 1
    MaxRefreshes = 1
    MaxFaults = 2
INVARIANTS
    TokensInv
    StatusMatchesStore
    OneServicePerAccount
PROPERTIES
    OperationsEnd
CHECK_DEADLOCK FALSE
