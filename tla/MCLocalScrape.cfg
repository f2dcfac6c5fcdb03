SPECIFICATION FairSpec
CONSTANTS
    Tasks <- FourTasks
    Urls = {"a", "b", "c"}
    Contents = {"same", "other"}
    UrlOf <- FourUrls
    PagesOf <- SomePages
    None = None
    MaxConcurrency = 2
    MaxRuns = 3
    MaxFaults = 2
INVARIANTS
    TypeOK
    LeftOutIsStored
    RepeatsAreCounted
    ContentsExplained
PROPERTY
    RunsFinish
CHECK_DEADLOCK FALSE
