CONSTANTS
    i1 = i1
    i2 = i2
    m1 = m1
    m2 = m2
    n1 = n1
    n2 = n2
    n3 = n3
    n4 = n4
    NULL = NULL
    IP <- MCIP
    MAC <- MCMAC
    Node <- MCNode
    maxclients = 3
SPECIFICATION Spec
INVARIANTS
    TypeOK
    CountMatchesList
    SlotsMatchList
    ClientsDistinct
PROPERTY ImplementsTable
