\* Refunds of one balance order, with the failures a refund recovers from.
CONSTANTS
    o1 = o1
    w1 = w1
    w2 = w2
    none = none
    Orders <- OneOrder
    SubscriptionOrders = {}
    OutTradeNoOrders <- OneOrder
    Workers <- TwoWorkers
    NoOrder = none
    Amount = 2
    MaxPending = 1
    FailurePoints <- RefundFailures
    MaxFaults = 2
SPECIFICATION Spec
SYMMETRY WorkerSymmetry
INVARIANTS
    TypeOK
    DeductedOnce
    MoneyBackIsFinal
    FailedRefundIsUndone
    RefundIsBalanced
