\* One process without a store, whose three requests race to create the record or
\* two of whose requests may end without a report or with two, and two processes
\* that share a store, one of which restarts.  Two clients made by create(), the
\* client behind `neutrx` and a request of one of them.  Two callers of an adapter
\* with three keys.
SPECIFICATION MCFairSpec
CONSTANTS
    w1 = w1
    w2 = w2
    r1 = r1
    r2 = r2
    r3 = r3
    None = None
    Workers <- TwoWorkers
    Requests <- ThreeRequests
    Owner <- OwnerOne
    FailureThreshold = 2
    SuccessThreshold = 2
    Timeout = 1
    HasStore = FALSE
    Cached = {r1, r2}
    Throwing = {r1, r2}
    MaxUnreported = 2
    MaxRestarts = 0
    MaxClients = 2
    Methods = {"get"}
    MaxWords <- WordsOn
    Backends = {"memory", "redis"}
    Places <- SomePlaces
    TTL <- SomeTTL
    Callers = {c1, c2}
    EndOfStore = 3
    Deployments = {"alone", "race", "fleet", "settings", "adapters"}
INVARIANTS CountersAgree NothingLeaked ProfileHolds TTLHonoured
PROPERTIES KeepsPromise FleetRecovers AsTold
