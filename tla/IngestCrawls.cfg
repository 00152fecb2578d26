\* Two crawls of two identifiers that may serve one file, two downloads at a time. All may end, and then nothing is left to do.
CONSTANTS
    s1 = s1
    s2 = s2
    e1 = e1
    e2 = e2
    f1 = f1
    f2 = f2
    f3 = f3
    t1 = t1
    Sources = {s1}
    ExternalIds = {e1, e2}
    Files = {f1}
    Texts = {t1}
    TextOf <- MCTextOf
    Concurrency = 2
    MaxCrawls = 2
    NoText = NoText
    None = None
SPECIFICATION FairSpec
INVARIANT TypeOK
INVARIANT OneFingerprintPerText
INVARIANT OriginalsHeld
INVARIANT JobsCountRows
INVARIANT PermitsReturned
PROPERTY CrawlsEnd
CHECK_DEADLOCK FALSE
