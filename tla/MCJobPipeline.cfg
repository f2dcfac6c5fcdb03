SPECIFICATION Spec
CONSTANTS
    Jobs = {j1, j2}
    TheUrl = u1
    Urls <- SameUrls
    UrlOf <- SameUrl
    Scrapers = {s1}
    Transformers = {t1, t2}
    MaxRetries = 1
    MaxFaults = 1
    MaxDeaths = 1
    None = None
INVARIANTS
    TypeOK
    PointerResolves
    DoneHasArticle
    StuckJobIsExplained
CHECK_DEADLOCK FALSE
