SPECIFICATION Spec
CONSTANTS
    MountPoints = {m1, m2}
    Serialised = TRUE
    IdMod = 65536
    TreeIds = 76
    FirstNodeId = 2
    MaxTrees = 3
    MaxMounts = 3
SYMMETRY Symmetry
CHECK_DEADLOCK FALSE
INVARIANT TreeUsable
