SPECIFICATION Spec
CONSTANTS
    Jobs = {j1, j2}
    TheUrl = u1
    Urls <- SameUrls
    UrlOf <- SameUrl
    Scrapers = {s1}
    Transformers = {t1, t2}
    MaxRetries = 1
    MaxFaults = 0
    MaxDeaths = 0
    None = None
PROPERTY
    RawPageIsKept
CHECK_DEADLOCK FALSE
