SPECIFICATION Spec
CONSTANTS
    Tasks = {c1, c2}
    NumProxies = 2
    Sites <- FourSites
    Hosts <- FourMachines
    KnownAliases <- SixAliases
    DefaultMajor = 131
    Versions = {140}
    MaxBurns = 1
    MaxUpdates = 1
SYMMETRY SymmetricCalls
INVARIANTS
    TypeOK
    OneIdentity
    OutcomeExplained
PROPERTY
    ProxyIsVouched
CHECK_DEADLOCK FALSE
