\* Operations with two ids, running longer than the lease; one failure.
CONSTANTS
    c1 = c1
    c2 = c2
    p1 = p1
    p2 = p2
    i1 = i1
    i2 = i2
    i3 = i3
    None = None
    Callers <- TwoCallers
    Prints <- TwoPrints
    Ids <- ThreeIds
    TTL = 6
    Timeout = 4
    Interval = 1
    MaxAge = 5
    MaxClaim = 1
    MaxFaults = 1
SPECIFICATION FairSpec
INVARIANTS
    TypeOK
    OneOperation
    HeldIsRenewed
PROPERTY DeadLockIsFreed
