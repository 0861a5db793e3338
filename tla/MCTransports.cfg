\* HTTP/1.1: two exchanges on one connection; HTTP/2: two keys, one session and
\* one stream at a time; WebSocket: up to four connects, and the late
\* events of each connection while later ones are up.
SPECIFICATION MCFairSpec
CONSTANTS
    r1 = r1
    r2 = r2
    r3 = r3
    k1 = k1
    k2 = k2
    Requests <- ThreeRequests
    Keys <- TwoKeys
    KeyOf <- Mixed
    SessionBound = 3
    MaxSessions = 1
    StreamLimit = 1
    MaxConnects = 4
    Attempts = 1
    Exchanges = {1, 2}
    Backoffs <- AllBackoffs
    Tries = 2
    Delay = 2
    LongestDelay = 5
    Factor = 2
    Given <- NumbersAndNone
    Parts = {"pool", "socket", "exchange", "native"}
CHECK_DEADLOCK FALSE
INVARIANTS TableExact OneConnection NothingLeft GivenUpForAReason
PROPERTIES ConnectionsApart EachComesToAnEnd
