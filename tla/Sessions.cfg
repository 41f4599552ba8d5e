SPECIFICATION FairSpec
CONSTANTS
    i1 = i1  i2 = i2  i3 = i3  r1 = r1  r2 = r2
    Ids = {i1, i2, i3}
    Requests = {r1, r2}
    Lifetime = 1
    MaxSessions = 2
    MaxClock = 2
    NoSession = NoSession  NoId = NoId
INVARIANTS StaleIsRefused StoreIsBounded
PROPERTIES ActiveIsKept SessionsLiveOnce StopReturns
CHECK_DEADLOCK FALSE
