SPECIFICATION Spec
CONSTANTS
    d1 = d1
    d2 = d2
    e1 = e1
    e2 = e2
    s1 = s1
    s2 = s2
    Device <- MCDevice
    Entity <- ServiceAndCredential
    Owner <- SelfOwned
    Scope <- NarrowScope
    Seeded = {e1}
    Store = {s1}
    FirstStore = s1
    Late = {d2}
    SaveWhileRunning = FALSE
    MaxAttempts = 2
    Retention = 100
    MaxTime = 13
    MaxEdits = 4
    MaxSettings = 0
    FaultKind = {}
    MaxFaults = 0
PROPERTIES
    PackageNeverReverts
    NarrowScopeCarriesRemote
CHECK_DEADLOCK FALSE
