SPECIFICATION FairSpec
CONSTANTS
    a1 = a1  a2 = a2
    Appliers = {a1, a2}
    Hosts <- SeveralHosts
    MaxVersion = 2  MaxName = 2  MaxResets = 1
    Sound = Sound  Torn = Torn  NoApplier = NoApplier
INVARIANTS OneApplyUnlessReset SurvivingBinary
CHECK_DEADLOCK FALSE
PROPERTIES RestartRuns ApplyEnds
