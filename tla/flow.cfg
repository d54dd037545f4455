SPECIFICATION FairSpec
CONSTANTS
    j1 = j1
    j2 = j2
    j3 = j3
    k1 = k1
    Jobs = {j1, j2, j3}
    Claims = {c1, c2}
    Keys = {k1}
    None = None
    KeyOf <- SharedKey
    KeyCap = 1
    QueueCap = 1
    Batch = 2
    Threshold = 2
    Cooldown = 1
    Needed = 2
    Volume = 2
    MaxElapsed = 1
    MaxWindow = 2
INVARIANTS BreakerHonest CapsHold
PROPERTY NeverWedged
CHECK_DEADLOCK FALSE
