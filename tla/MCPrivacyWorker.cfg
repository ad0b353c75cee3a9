SPECIFICATION FairSpec
CONSTANTS
    Model = {m1, m2}
    Accelerated = {m2}
    Request = {q1}
    Text = {1}
    Nobody = Nobody
    Regex = Regex
    Off = Off
    MaxPolicies = 2
    MaxTroubles = 0
PROPERTIES
    PreviousModelFinishes
CHECK_DEADLOCK FALSE
