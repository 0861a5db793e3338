\* Two requests, one of which waits for its retry while the other opens the circuit.
SPECIFICATION MCSpec
CONSTANTS
    r1 = r1
    r2 = r2
    r3 = r3
    r4 = r4
    None = None
    Origin = o1
    Requests <- Pair
    Keyed <- Pair
    Retryable <- Pair
    MaxConcurrent = 2
    MaxQueue = 1
    MaxRetries = 1
    FailureThreshold = 1
    SuccessThreshold = 1
    Timeout = 1
    MayServeStale = TRUE
    k1 = k1
    k2 = k2
    LoadKeys = {k1, k2}
    MaxLoads = 3
    MaxBatchSize = 2
    Items = 3
    Limit = 2
    Throwing = {3}
    Clients <- Pair
    Lifetime = 4
    Margin = 2
    MaxDelay = 1
    Horizon = 7
    MaxUses = 3
    Parts = {"pipeline"}
PROPERTIES RetriesRespectCircuit
