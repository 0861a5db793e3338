\* Two calls of one process to a fixed window.
SPECIFICATION MCSpec
CONSTANTS
    r1 = r1
    r2 = r2
    r3 = r3
    w1 = w1
    w2 = w2
    None = None
    Parts = {"limiter"}
    Policies <- SomePolicies
    Targets <- SomeTargets
    Found <- Anywhere
    Answers <- SomeAnswers
    MaxRedirects = 2
    Workers <- OneWorker
    Calls <- TwoCalls
    Configs <- JustWindow
    MaxRequests = 1
    Window = 2
    Burst = 2
    LimiterTime = 3
    Configured <- SomeConfigured
    MaxAttempts = 2
    Plans <- SomePlans
    Second = 4
    SliceInterval = 2
    MaxSends = 2
    EndOfTime = 3
    Lists <- SomeLists
    Bases = {"x"}
    EndpointLimit = 2
    WeightLimit = 2
    CounterLimit = 7
    HashOf <- OneHash
    Watched = {u1, u2}
    MaxSamples = 1
    Durations = {1, 2}
    Users = {u1, u2}
    Tasks = {t1, t2}
    Keys = {k1, k2}
    Strategies = {"max-age", "swr", "network-first"}
    MaxSize = 1
    Gone = Gone
    Entries = {1}
    PageSizes = {1}
    PageLimits = {2}
    MaxChanges = 0
    Hedges = 1
    Exchanges = {1, 2}
    Matches <- Matched
    Programs <- SomePrograms
    MaxEntries = 1
CHECK_DEADLOCK FALSE
INVARIANT CountCapped
