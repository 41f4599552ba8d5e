SPECIFICATION FairSpec
CONSTANTS
    p1 = p1  f1 = f1  r1 = r1  stop = stop
    Paths = {p1}
    Folders = {f1}
    FolderOf <- OneFolder
    Restarts = {r1}
    Stopper = stop
    Small = {1, 3}
    Debounce = 1
    Suppress = 1
    Interval = 2
    MaxTime = 3
    QueueLength = 2
    MaxOps = 3
    NoOne = NoOne  NoEvent = NoEvent  Overflow = Overflow
INVARIANTS SeenOrOnItsWay NobodyHandlesAfterStop
PROPERTIES ChangesArrive CallsReturn
CHECK_DEADLOCK FALSE
