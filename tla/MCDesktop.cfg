SPECIFICATION MCSpec
CONSTANTS
    s1 = s1
    s2 = s2
    m1 = m1
    m2 = m2
    r1 = r1
    r2 = r2
    r3 = r3
    MaxEpoch = 3
    MaxStatusFailures = 1
    MaxActions = 2
    Service = {s1, s2}
    MaxChanges = 1
    MaxRefreshes = 1
    Keys <- MCKeys
    Low = "low"
    High = "high"
    Redirects = "redirects"
    Values = {0, 1}
    Incomplete = 9
    MaxEdits = 3
    MaxFailures = 1
    MaxDowns = 1
    Model = {m1, m2}
    MaxOps = 2
    MaxFaults = 1
    MaxVisits = 2
    Early = FALSE
    Session = {r1, r2, r3}
    Limit = 1
    MaxEvents = 2
INVARIANTS
    DesktopInv
    ReadsKnowAcknowledged
    ListHasNoGap
PROPERTIES
    SnapshotNeverGoesBack
    EditsAreKept
    RowsNeverGoBack
    WindowCatchesUp
CHECK_DEADLOCK FALSE
