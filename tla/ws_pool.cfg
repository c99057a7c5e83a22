\* Two requests, connections that others may close at any time.
CONSTANTS
    r1 = r1
    r2 = r2
    Requests <- TwoRequests
    MaxConns = 2
    MaxIdle = 1
    QueueLimit = 1
    MaxDials = 2
    MaxPins = 1
SPECIFICATION FairSpec
INVARIANTS
    OneLessee
    TokenIsKept
    CapacityKept
    NoneLeaks
PROPERTY AcquireEnds
