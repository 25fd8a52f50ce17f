CONSTANTS
    Threads = {t1, t2, t3}
    Nodes = {n1, n2}
    Vnodes = {v1}
    NULL = NULL
    MaxVid = 2
    Keys <- MCOneKey
SPECIFICATION FairSpec
PROPERTIES
    ImplementsTable
    FindReturns
