SPECIFICATION MCSpec
CONSTANTS
    Model = {m1, m2}
    Accelerated = {m2}
    Request = {q1, q2}
    Text = {1, 2}
    Nobody = Nobody
    Regex = Regex
    Off = Off
    MaxPolicies = 3
    MaxTroubles = 1
    q1 = q1
    q2 = q2
    Assets = 3
    Pieces = 2
    Pinned = {1, 3}
    MaxPlan = 2
    MaxFileFaults = 3
    MaxFileCrashes = 2
    StopsInDeletion = FALSE
    Part = {p1}
    MaxCaptures = 2
    MaxKeys = 3
    MaxFaults = 2
    MaxCrashes = 2
INVARIANTS
    SealingInv
    RawIsNotLeftUnderAudit
    ModelsInv
    ReadyIsWhole
    RefusedForCause
PROPERTIES
    RawIsSticky
    EndedIsSettled
    WorkersSettle
CHECK_DEADLOCK FALSE
