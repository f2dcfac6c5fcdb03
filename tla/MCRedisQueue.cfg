SPECIFICATION FairSpec
CONSTANTS
    Ids = {m1, m2, m3}
    Workers = {w1, w2}
    MaxRetries = 1
    MaxDeaths = 2
    None = None
INVARIANTS
    TypeOK
    OneCopy
    AttemptsExact
    DeliveryBound
    LremMatches
PROPERTIES
    LossOnlyInSettleWindow
    Settles
    ImplementsPort
CHECK_DEADLOCK FALSE
