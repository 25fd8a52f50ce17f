CONSTANTS
    Threads = {t1, t2, t3}
    Nodes = {n1, n2}
    Vnodes = {v1, v2}
    NULL = NULL
    MaxVid = 2
    Keys <- MCKeys
SYMMETRY Symmetry
SPECIFICATION Spec
INVARIANTS
    UniqueNode
    ResultIsCurrent
    AttachIsExclusive
    SleeperIsWoken
    FreeIsSafe
    ReclaimIsSafe
