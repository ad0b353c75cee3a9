SPECIFICATION FairSpec
CONSTANTS
    d1 = d1
    d2 = d2
    e1 = e1
    e2 = e2
    s1 = s1
    s2 = s2
    Device <- MCDevice
    Entity <- OneEntity
    Owner <- MCOwner
    Scope <- EveryEntity
    Seeded = {}
    Store = {s1}
    FirstStore = s1
    Late = {}
    SaveWhileRunning = FALSE
    MaxAttempts = 2
    Retention = 0
    MaxTime = 9
    MaxEdits = 2
    MaxSettings = 0
    FaultKind = {"apply", "answer", "stop", "overrun"}
    MaxFaults = 1
PROPERTIES
    Convergence
CHECK_DEADLOCK FALSE
