\* Changes, a poller, the full rebuild and a request that falls back.
CONSTANTS
    w1 = w1
    w2 = w2
    p1 = p1
    p2 = p2
    b1 = b1
    f1 = f1
    Writers <- OneWriter
    Pollers <- OnePoller
    Rebuilders <- OneRebuilder
    Readers <- OneReader
    StateOf <- DeletedAtLast
    Limit = 2
    MaxChanges = 2
    MaxRows = 1
    MaxFaults = 0
SPECIFICATION FairSpec
PROPERTY EventuallyFresh
