SPECIFICATION BootSpec
CONSTANTS
    Readers = {r1}
    Builds = {"b1", "b2"}
    WANTED <- MCWANTED
    Link <- MCLink
    CutLines = {1, 2, 3}
    Slides = {16}
    MaxBoots = 1
CHECK_DEADLOCK FALSE
INVARIANT LookupsFailSafely
