\* Retries: three requests share a budget of one retry per window.  Bulkhead: two
\* domains whose adaptive limits move between 1 and 3 in steps of 2; calls of d2 may
\* hang for ever.
SPECIFICATION MCFairSpec
CONSTANTS
    r1 = r1
    r2 = r2
    r3 = r3
    Parts = {"retry", "bulkhead"}
    Requests <- ThreeRequests
    MaxRetries = 1
    RequestTimeout = 2
    Strategy = "fibonacci"
    BaseDelay = 0
    Jitters <- Jumpy
    MaxDelay = 2
    RetryAfters <- NoHeader
    Replayable <- MayReplay
    Insistent <- Insisting
    Budget = 1
    WindowMs = 2
    Failures <- Mixed
    Waits <- NoneOrAll
    MaxTime = 4
    Tasks = {t1, t2, t3, t4}
    Domains = {d1, d2}
    Live = {d1}
    MaxConcurrent = 2
    MaxQueue = 2
    Adaptive = TRUE
    MinLimit = 1
    MaxLimit = 3
    InitialLimit = 2
    IncreaseStep = 2
    DecreasePercent = 70
CHECK_DEADLOCK FALSE
INVARIANTS RetriesGranted PoolSound
PROPERTIES SafeRetries NoGrowthOverLimit EachGetsItsTurn
