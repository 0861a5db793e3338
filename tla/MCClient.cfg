\* Redirects: up to three hops among four URLs.  The limiter: three calls of one
\* process, or two of two with a store.  Two attempts of a request's headers
\* and of its body; two requests with telemetry; two of the browser's, on two keys with
\* room for one.
SPECIFICATION MCSpec
SYMMETRY Symmetry
CONSTANTS
    r1 = r1
    r2 = r2
    r3 = r3
    w1 = w1
    w2 = w2
    None = None
    Parts = {"redirects", "limiter", "headers", "bodies", "endpoints", "telemetry", "browser",
             "pages", "hedges", "hooks"}
    Policies <- SomePolicies
    Targets <- SomeTargets
    Found <- Anywhere
    Answers <- SomeAnswers
    MaxRedirects = 2
    Workers <- TwoWorkers
    Calls <- ThreeCalls
    Configs <- Deployments
    MaxRequests = 1
    Window = 2
    Burst = 2
    LimiterTime = 3
    Configured <- SomeConfigured
    MaxAttempts = 2
    Plans <- SomePlans
    Second = 4
    SliceInterval = 2
    MaxSends = 2
    EndOfTime = 3
    Lists <- SomeLists
    Bases = {"x"}
    EndpointLimit = 2
    WeightLimit = 2
    CounterLimit = 7
    HashOf <- OneHash
    Watched = {u1, u2}
    MaxSamples = 1
    Durations = {1, 2}
    Users = {u1, u2}
    Tasks = {t1, t2}
    Keys = {k1, k2}
    Strategies = {"max-age", "swr", "network-first"}
    MaxSize = 1
    Gone = Gone
    Entries = {1, 2, 3}
    PageSizes = {1, 2}
    PageLimits = {None, 2}
    MaxChanges = 2
    Hedges = 3
    Exchanges = {1, 2}
    Matches <- Matched
    Programs <- SomePrograms
    MaxEntries = 1
CHECK_DEADLOCK FALSE
INVARIANTS
    CredentialsStayHome OnlyAllowedContacted AllowanceKept SentAsMeant
    FlowsAsConfigured FairShares ToldOnce MarksAlive
    EveryItemOnce LosersStopped HooksAsTold
