SPECIFICATION Spec
CONSTANTS
    r1 = r1  r2 = r2  here = here  there = there
    games = games  pw1 = pw1  pw2 = pw2
    Requests = {r1, r2}
    Addresses = {here, there}
    Folders = {games}
    DataDir = games
    Logins = {pw1, pw2}
    Archives <- Wizard
    MaxOps = 4
    Json = Json  NoRequest = NoRequest  NoFolders = NoFolders
INVARIANTS MemoryIsDurable KeyIsRevealedOnce EffectsFollowSettings
PROPERTY SavesAreAtomic
SYMMETRY Alike
CHECK_DEADLOCK FALSE
