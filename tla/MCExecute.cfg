CONSTANTS
    t1 = t1
    t2 = t2
    t3 = t3
    Caller <- ThreeThreads
    Outcome <- Outcomes
    MaxCalls = 4
SPECIFICATION XSpec
INVARIANTS
    XTypeOK
    StatusReported
    NoZombies
PROPERTY CallsReturn
CHECK_DEADLOCK FALSE
