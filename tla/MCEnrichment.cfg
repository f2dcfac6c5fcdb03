SPECIFICATION FairSpec
CONSTANTS
    Articles <- TwoArticles
    Feeds <- SomeFeeds
    Weak = {1}
    Subscribers <- TwoSubscribers
    Owner = 0
    Dull = {2}
    Runs <- TwoRuns
    Programs <- Pairs
    SummaryBatch = 1
    RefreshLimit = 1
    EmbedBatch = 2
    MaxBatches = 2
    TopK = 1
    Window = 1
    RetentionDays = 1
    Cap = 1
    MaxDays = 2
    MaxEdits = 1
    MaxFaults = 1
    None = None
INVARIANTS
    TypeOK
    MadeFromItsOwnText
    DrainEndsForAReason
    ScoresHold
    DigestsReachEveryone
PROPERTIES
    QuietPruneMeetsTheCap
    RunsEnd
CHECK_DEADLOCK FALSE
