SPECIFICATION CFairSpec
CONSTANTS
    g1 = g1  g2 = g2  p1 = p1  f1 = f1
    w = w  a = a  c1 = c1  main = main
    Packages = {g1, g2}
    Paths = {p1}
    Folders = {f1}
    FolderOf <- OneFolder
    FlakyFolders = {}
    DataDir = f1
    Manifest <- OwnFile
    FileName <- OwnFile
    Versions = {1, 2}
    Watchers = {w}
    Scanners = {}
    Admins = {a}
    Managers = {main}
    ManagerOf <- Deployed
    Legacy = {g1, g2}
    MaxClock = 1
    MaxOps = 3
    TagClients = {c1}
    DateClients = {}
    NoRow = NoRow  NoPath = NoPath  NoGame = NoGame  NoWorker = NoWorker
    NoCopy = NoCopy  NoList = NoList
INVARIANT TagMissesOnlyDatedChanges
PROPERTY TagClientsCatchUp
CHECK_DEADLOCK FALSE
