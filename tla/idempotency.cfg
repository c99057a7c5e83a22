\* Two requests at a time with one key and two payloads, every failure.
CONSTANTS
    c1 = c1
    c2 = c2
    p1 = p1
    p2 = p2
    i1 = i1
    i2 = i2
    i3 = i3
    None = None
    Callers <- TwoCallers
    Prints <- TwoPrints
    Ids <- ThreeIds
    TTL = 3
    Timeout = 2
    MaxClaim = 1
    Backoff = 1
    MaxAge = 2
    MaxFaults = 1
SPECIFICATION FairSpec
INVARIANTS
    TypeOK
    OneOwner
    ReplayAnswersRequest
    RecordTellsEffect
PROPERTIES
    EffectOnceUntilRevived
    OrphanIsFreed
