SPECIFICATION FairSpec
CONSTANTS
    p1 = p1  p2 = p2  s1 = s1  s2 = s2
    Publishers = {p1, p2}
    Streams = {s1, s2}
    BufferSize = 1
    MaxEvents = 2
    Nobody = Nobody
INVARIANTS NeverSendsOnClosed DropsAreCounted
PROPERTY CallsReturn
CHECK_DEADLOCK FALSE
