SPECIFICATION BootFairSpec
CONSTANTS
    Readers = {r1}
    Builds = {"b1", "b2"}
    WANTED <- MCWANTED
    Link <- MCLink
    CutLines = {3}
    Slides = {16}
    MaxBoots = 1
CHECK_DEADLOCK FALSE
INVARIANT MountedIsServed
INVARIANT UnloadReleases
INVARIANT SymbolsAreRight
INVARIANT StagedBeforeLoad
PROPERTY ServiceComes
