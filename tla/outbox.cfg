\* Two writers and the pollers of two instances; a failure or a lost lock.
CONSTANTS
    w1 = w1
    w2 = w2
    p1 = p1
    p2 = p2
    b1 = b1
    f1 = f1
    Writers <- TwoWriters
    Pollers <- TwoPollers
    Rebuilders = {}
    Readers = {}
    StateOf <- PausedOnce
    Limit = 2
    MaxChanges = 1
    MaxRows = 2
    MaxFaults = 1
SPECIFICATION Spec
INVARIANTS
    TypeOK
    NoneSkipped
PROPERTY NoRollback
SYMMETRY OverlapSymmetry
