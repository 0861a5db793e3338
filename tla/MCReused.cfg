\* docs/config-reference.md:258: sessions are reused.
SPECIFICATION MCSpec
CONSTANTS
    r1 = r1
    r2 = r2
    r3 = r3
    k1 = k1
    k2 = k2
    Requests <- ThreeRequests
    Keys <- TwoKeys
    KeyOf <- Same
    SessionBound = 3
    MaxSessions = 2
    StreamLimit = 2
    MaxConnects = 1
    Attempts = 0
    Exchanges = {1}
    Backoffs <- AllBackoffs
    Tries = 2
    Delay = 2
    LongestDelay = 5
    Factor = 2
    Given <- NumbersAndNone
    Parts = {"pool"}
CHECK_DEADLOCK FALSE
INVARIANTS Reused
