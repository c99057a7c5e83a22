\* One subscription order whose markCompleted fails once.
CONSTANTS
    o1 = o1
    w1 = w1
    w2 = w2
    none = none
    Orders <- OneOrder
    SubscriptionOrders <- OneOrder
    OutTradeNoOrders = {}
    Workers <- TwoWorkers
    NoOrder = none
    Amount = 1
    MaxPending = 1
    FailurePoints <- CompleteFails
    MaxFaults = 1
SPECIFICATION Spec
SYMMETRY WorkerSymmetry
INVARIANT SubscriptionGrantedOnce
