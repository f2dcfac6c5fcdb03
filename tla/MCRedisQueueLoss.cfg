SPECIFICATION Spec
CONSTANTS
    Ids = {m1, m2, m3}
    Workers = {w1, w2}
    MaxRetries = 1
    MaxDeaths = 2
    None = None
INVARIANT
    RecoverableWithoutLoss
CHECK_DEADLOCK FALSE
