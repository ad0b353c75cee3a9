SPECIFICATION Spec
CONSTANTS
    d1 = d1
    d2 = d2
    e1 = e1
    e2 = e2
    s1 = s1
    s2 = s2
    Device <- MCDevice
    Entity <- OneEntity
    Owner <- MCOwner
    Scope <- EveryEntity
    Seeded = {}
    Store = {s1}
    FirstStore = s1
    Late = {}
    SaveWhileRunning = TRUE
    MaxAttempts = 2
    Retention = 0
    MaxTime = 6
    MaxEdits = 2
    MaxSettings = 0
    FaultKind = {"apply", "answer", "stop", "overrun"}
    MaxFaults = 1
INVARIANTS
    EngineInv
    UnpublishedChangeIsPending
PROPERTIES
    WriteReplacesWhatItRead
SYMMETRY Symmetry
CHECK_DEADLOCK FALSE
