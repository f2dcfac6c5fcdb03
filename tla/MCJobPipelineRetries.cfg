SPECIFICATION FairSpec
CONSTANTS
    Jobs = {j1}
    TheUrl = u1
    Urls <- SameUrls
    UrlOf <- SameUrl
    Scrapers = {s1}
    Transformers = {t1, t2}
    MaxRetries = 1
    MaxFaults = 3
    MaxDeaths = 1
    None = None
INVARIANT
    StuckJobIsExplained
PROPERTY
    JobsFinish
CHECK_DEADLOCK FALSE
