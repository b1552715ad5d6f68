SPECIFICATION EdgeSpec
CONSTANTS
    Key = {k1}
    Caller = {c1, c2}
    Rate = 1
    Burst = 2
    TTL = 4
    MaxLag = 1
    Idle = Idle
    NoBucket = NoBucket
    MaxNow = 6
    MaxGrants = 6
    r1 = r1
    r2 = r2
    d1 = d1
    d2 = d2
    LogKey = {2, 3, 4}
    Reader = {r1, r2}
    NoCursor = 5
    HomeOf <- ReaderHome
    PageLimit = 2
    PageTTL = 1
    MaxRead = 1
    None = None
    MaxClock = 3
    b1 = b1
    b2 = b2
    h1 = h1
    Total = 2
    MaxCommits = 3
    Browser = {b1, b2}
    HubOf <- BrowserHub
    Buffer = 1
    Healthy = {b1}
    MaxLosses = 2
    Off = Off
INVARIANTS NeverOverGrants WalkComplete
PROPERTIES RefusalsEarned DashboardConverges WatchTellsTheEnd
CHECK_DEADLOCK FALSE
