SPECIFICATION Spec
CONSTANTS
    MountPoints = {m1, m2}
    Serialised = TRUE
    IdMod = 65536
    TreeIds = 76
    FirstNodeId <- AfterManyMounts
    MaxTrees = 4
    MaxMounts = 4
SYMMETRY Symmetry
CHECK_DEADLOCK FALSE
INVARIANT NoTreeLeak
