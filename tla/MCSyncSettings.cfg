SPECIFICATION Spec
CONSTANTS
    d1 = d1
    d2 = d2
    e1 = e1
    e2 = e2
    s1 = s1
    s2 = s2
    Device <- OneDevice
    Entity <- OneEntity
    Owner <- MCOwner
    Scope <- EveryEntity
    Seeded = {}
    Store = {s1, s2}
    FirstStore = s1
    Late = {}
    SaveWhileRunning = TRUE
    MaxAttempts = 2
    Retention = 100
    MaxTime = 5
    MaxEdits = 1
    MaxSettings = 4
    FaultKind = {}
    MaxFaults = 0
INVARIANTS
    ForcePushHonoured
    BaseBelongsToRemote
CHECK_DEADLOCK FALSE
