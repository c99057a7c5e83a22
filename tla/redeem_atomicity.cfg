\* The same codes; the atomicity that the comment in Redeem claims.
CONSTANTS
    w1 = w1
    w2 = w2
    NoCode = NoCode
    Workers <- TwoWorkers
    Codes <- ThreeCodes
    KindOf <- MCKindOf
    ValueOf <- MCValueOf
    InitialFunds <- OneEach
    Adjustments <- DayUpOrDown
    MaxConns = 2
    DefaultDays = 1
    MaxDays = 2
    MaxExpires = 4
    MaxRows = 2
    MaxNow = 1
    MaxFaults = 1
    MaxEdits = 1
    Charges <- TwoUnits
    MaxDebt = 1
SPECIFICATION Spec
INVARIANT AtomicRedeem
SYMMETRY WorkerSymmetry
