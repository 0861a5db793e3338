\* One process whose store answers late: does its own trip last.
SPECIFICATION MCSpec
CONSTANTS
    w1 = w1
    w2 = w2
    r1 = r1
    r2 = r2
    r3 = r3
    None = None
    Workers <- TwoWorkers
    Requests <- ThreeRequests
    Owner <- OwnerOne
    FailureThreshold = 1
    SuccessThreshold = 1
    Timeout = 1
    HasStore = TRUE
    Cached = {r1}
    Throwing = {r1}
    MaxUnreported = 1
    MaxRestarts = 0
    MaxClients = 2
    Methods = {"get"}
    MaxWords <- WordsOn
    Backends = {"memory"}
    Places <- SomePlaces
    TTL <- SomeTTL
    Callers = {c1}
    EndOfStore = 0
    Deployments = {"alone"}
PROPERTIES OpenFailsFast
