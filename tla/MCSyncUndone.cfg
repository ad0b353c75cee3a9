SPECIFICATION Spec
CONSTANTS
    d1 = d1
    d2 = d2
    e1 = e1
    e2 = e2
    s1 = s1
    s2 = s2
    Device <- MCDevice
    Entity <- OneEntity
    Owner <- MCOwner
    Scope <- EveryEntity
    Seeded = {}
    Store = {s1}
    FirstStore = s1
    Late = {}
    SaveWhileRunning = TRUE
    MaxAttempts = 2
    Retention = 100
    MaxTime = 9
    MaxEdits = 2
    MaxSettings = 0
    FaultKind = {}
    MaxFaults = 0
PROPERTIES
    SaveIsNotUndone
CHECK_DEADLOCK FALSE
