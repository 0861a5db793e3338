\* docs/config-reference.md:10, :43: the layers of the configuration, and the limit of bodies.
SPECIFICATION MCSpec
CONSTANTS
    w1 = w1
    w2 = w2
    r1 = r1
    r2 = r2
    r3 = r3
    None = None
    Workers <- TwoWorkers
    Requests <- ThreeRequests
    Owner <- OwnerOne
    FailureThreshold = 2
    SuccessThreshold = 2
    Timeout = 1
    HasStore = FALSE
    Cached = {r1, r2}
    Throwing = {r1, r2}
    MaxUnreported = 2
    MaxRestarts = 0
    MaxClients = 2
    Methods = {"get"}
    MaxWords <- WordsOn
    Backends = {"memory", "redis"}
    Places <- SomePlaces
    TTL <- SomeTTL
    Callers = {c1, c2}
    EndOfStore = 3
    Deployments = {"settings"}
PROPERTIES ConfigAsDocumented
