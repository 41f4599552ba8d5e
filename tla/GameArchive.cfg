SPECIFICATION Spec
CONSTANTS
    sweep = sweep  import = import  old = old  new = new
    Generators = {sweep, import}
    Versions = {1, 2}
    PartsOf <- TwoThenOne
    MaxParts = 2
    Passwords = {old, new}
    MaxOps = 4
    NoPart = NoPart  NoMarker = NoMarker  NoRow = NoRow  Quiet = Quiet
INVARIANTS UpToDateMeansPassword UpToDateMeansWhole NothingHalfIsLeft
SYMMETRY Alike
CHECK_DEADLOCK FALSE
