SPECIFICATION HSpec
CONSTANTS
    g1 = g1  g2 = g2  p1 = p1  p2 = p2  p3 = p3  f1 = f1  f2 = f2
    w = w  s1 = s1  a = a  main = main  router = router
    Packages = {g1, g2}
    Paths = {p1, p2, p3}
    Folders = {f1, f2}
    FolderOf <- TwoFolders
    FlakyFolders = {f2}
    DataDir = f1
    Manifest <- SamePackage
    FileName <- Misnamed
    Versions = {1}
    Watchers = {w}
    Scanners = {s1}
    Admins = {a}
    Managers = {main, router}
    ManagerOf <- Deployed
    Legacy = {g1}
    MaxClock = 1
    MaxOps = 3
    NoRow = NoRow  NoPath = NoPath  NoGame = NoGame  NoWorker = NoWorker
INVARIANTS SteadyGamesAreKept QuietRescanReconciles
PROPERTY RecordedFilesAreSpared
CHECK_DEADLOCK FALSE
