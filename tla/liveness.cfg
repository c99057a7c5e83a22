\* One balance order under fairness, with failures that some handler recovers from.
CONSTANTS
    o1 = o1
    w1 = w1
    w2 = w2
    none = none
    Orders <- OneOrder
    SubscriptionOrders = {}
    OutTradeNoOrders <- OneOrder
    Workers <- TwoWorkers
    NoOrder = none
    Amount = 1
    MaxPending = 1
    FailurePoints <- RecoverableFailures
    MaxFaults = 2
SPECIFICATION FairSpec
PROPERTY PaidIsSettledOrFlagged
