CONSTANTS
    i1 = i1
    i2 = i2
    m1 = m1
    m2 = m2
    n1 = n1
    n2 = n2
    NULL = NULL
    IP <- OneIP
    MAC <- TwoMACs
    Node <- TwoNodes
    maxclients = 2
    checkinterval = 1
    clienttimeout = 1
    clientforceout = 4
    MaxDelay = 0
    MaxMisses = 1
    MaxTime = 8
    MaxBytes = 2
CHECK_DEADLOCK FALSE
SPECIFICATION TSpec
INVARIANTS
    TTypeOK
    ForcedOut
    IdleOut
PROPERTY IdleMeansIdle
SYMMETRY Symmetry
