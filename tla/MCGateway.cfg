CONSTANTS
    i1 = i1
    i2 = i2
    m1 = m1
    m2 = m2
    n1 = n1
    n2 = n2
    n3 = n3
    h1 = h1
    h2 = h2
    NULL = NULL
    Checker = Checker
    IP <- OneIP
    MAC <- TwoMACs
    Node <- ThreeNodes
    Handler <- TwoHandlers
    maxclients = 2
    CommandsMayFail = FALSE
    MaxCopies = 2
SPECIFICATION GSpec
INVARIANTS
    GTypeOK
    RulesMatchList
    NoAccessWithoutSession
    MarksDistinct
PROPERTY ImplementsTable
SYMMETRY Symmetry
