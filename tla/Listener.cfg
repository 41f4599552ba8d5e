SPECIFICATION LFairSpec
CONSTANTS
    s1 = s1  s2 = s2  s3 = s3  a1 = a1  a2 = a2  c1 = c1
    Servers = {s1, s2, s3}
    Addresses = {a1, a2}
    Certs = {c1}
    MaxTaken = 1
    Plain = Plain  NoAddr = NoAddr  NoServer = NoServer
INVARIANTS QuietServesOnce NoDowntime
PROPERTY RebindsServe
CHECK_DEADLOCK FALSE
