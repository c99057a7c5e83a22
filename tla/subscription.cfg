\* One subscription order and its refunds, the failures that it tolerates.
CONSTANTS
    o1 = o1
    w1 = w1
    w2 = w2
    none = none
    Orders <- OneOrder
    SubscriptionOrders <- OneOrder
    OutTradeNoOrders = {}
    Workers <- TwoWorkers
    NoOrder = none
    Amount = 1
    MaxPending = 1
    FailurePoints <- SubscriptionFailures
    MaxFaults = 2
SPECIFICATION Spec
SYMMETRY WorkerSymmetry
INVARIANTS
    SubscriptionGrantedOnce
    AckedIsRecorded
