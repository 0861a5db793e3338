\* Stale-while-revalidate with eviction, invalidation, failures, responses that
\* must not be stored, and overlapping revalidations.  Every error of three clients
\* with two retries.  Two attempts of every body of the fetch clients.
SPECIFICATION MCFairSpec
CHECK_DEADLOCK FALSE
CONSTANTS
    k1 = k1
    k2 = k2
    r1 = r1
    r2 = r2
    t1 = t1
    t2 = t2
    None = None
    NotModified = NotModified
    Keys <- TwoKeys
    Readers <- OneRequest
    Revalidations <- TwoTasks
    CacheStrategy = "swr"
    Ttl = 1
    RevalidateAfter = 0
    StaleMax = 1
    StaleIfError = 0
    MaxSize = 1
    HasLock = TRUE
    MayInvalidate = TRUE
    MayFail = TRUE
    MayForbid = TRUE
    MaxVersion = 1
    MaxTries = 2
    NodeCodes <- SomeCodes
    Statuses <- SomeStatuses
    Exchanges <- SomeExchanges
    FetchAttempts = 2
    Parts = {"cache", "failures", "bodies"}
INVARIANTS CacheSound MovedAsTold
PROPERTIES Freshens RetriedWereRetryable
