SPECIFICATION Spec
CONSTANTS
    d1 = d1
    d2 = d2
    Device <- MCDevice
    Offset <- MCOffset
    MaxSkew = 1
    TTL = 3
    MaxTries = 3
    MaxTime = 5
    MaxTakes = 3
    MaxWrites = 4
INVARIANTS
    LeaseExclusive
    LeaseInv
PROPERTIES
    RemovesOnlyOwnLock
    ImplementsDeviceLock
CHECK_DEADLOCK FALSE
