SPECIFICATION FairSpec
CONSTANTS
    r1 = r1  r2 = r2  p1 = p1  p2 = p2
    Requests = {r1, r2}
    Passwords = {1, 2}
    Ports = {p1, p2}
    Legacy <- OldInstall
    MaxOps = 5
    NoConfig = NoConfig  NoRequest = NoRequest
INVARIANTS  LaunchedAsSaved
PROPERTIES LoginIsSetOnce StepsAreKept LaunchEnds
CHECK_DEADLOCK FALSE
