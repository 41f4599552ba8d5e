SPECIFICATION FairSpec
CONSTANTS
    g1 = g1  p1 = p1  p2 = p2  f1 = f1
    w1 = w1  s1 = s1  s2 = s2  main = main  router = router
    Packages = {g1}
    Paths = {p1, p2}
    Folders = {f1}
    FolderOf <- OneFolder
    FlakyFolders = {}
    DataDir = f1
    Manifest <- SamePackage
    FileName <- SamePackage
    Versions = {1}
    Watchers = {w1}
    Scanners = {s1, s2}
    Admins = {}
    Managers = {main, router}
    ManagerOf <- Deployed
    Legacy = {}
    MaxClock = 1
    MaxOps = 3
    NoRow = NoRow  NoPath = NoPath  NoGame = NoGame  NoWorker = NoWorker
INVARIANT OneWriterPerPackage
PROPERTIES OnlyManagersCollide RescanEnds
CHECK_DEADLOCK FALSE
