\* One balance order and its refunds, two workers, every failure.
CONSTANTS
    o1 = o1
    w1 = w1
    w2 = w2
    none = none
    Orders <- OneOrder
    SubscriptionOrders = {}
    OutTradeNoOrders <- OneOrder
    Workers <- TwoWorkers
    NoOrder = none
    Amount = 1
    MaxPending = 1
    FailurePoints <- AllFailures
    MaxFaults = 2
SPECIFICATION Spec
SYMMETRY WorkerSymmetry
INVARIANTS
    GrantedOnce
    GrantedOnlyIfCharged
    SettledIsGranted
    RebatedOnce
    Exclusive
    RefundExclusive
PROPERTIES
    ImplementsLedger
    StatusFlow
