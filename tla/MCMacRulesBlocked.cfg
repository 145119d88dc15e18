CONSTANTS
    m1 = m1
    m2 = m2
    NULL = NULL
    MAC <- TwoMACs
    MaxRules = 3
SPECIFICATION Spec
INVARIANT BlockedIsDropped
SYMMETRY Symmetry
