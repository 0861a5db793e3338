\* docs/cache.md:77: the conditional headers.
SPECIFICATION MCSpec
CONSTANTS
    k1 = k1
    k2 = k2
    r1 = r1
    r2 = r2
    t1 = t1
    t2 = t2
    None = None
    NotModified = NotModified
    Keys <- OneKey
    Readers <- TwoRequests
    Revalidations <- TwoTasks
    CacheStrategy = "swr"
    Ttl = 1
    RevalidateAfter = None
    StaleMax = 2
    StaleIfError = 0
    MaxSize = 1
    HasLock = TRUE
    MayInvalidate = FALSE
    MayFail = FALSE
    MayForbid = FALSE
    MaxVersion = 1
    MaxTries = 2
    NodeCodes <- SomeCodes
    Statuses <- SomeStatuses
    Exchanges <- SomeExchanges
    FetchAttempts = 2
    Parts = {"cache"}
INVARIANTS TagOfBody
