SPECIFICATION FairSpec
CONSTANTS
    Sources <- ThreeSources
    Platform <- ThreeKinds
    Limit = 3
    PageSize = 2
    FirstPosts = 3
    MaxPosts = 4
    Paid <- PaidPosts
    Thin <- ThinPosts
    MaxDeletions = 1
    Workers = {w1}
    MaxRetries = 1
    MaxTicks = 1
    MaxFaults = 2
    MaxDeaths = 1
    None = None
INVARIANTS
    TypeOK
    TickCoversSources
    NothingSkipped
    DoneCountsArticles
    StuckIngestIsExplained
PROPERTY
    IngestEnds
CHECK_DEADLOCK FALSE
