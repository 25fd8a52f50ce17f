SPECIFICATION DirectoriesSpec
CONSTANTS
    Kinds <- AllKinds
    FixedLens <- TwoLens
    NItems = 3
    NameLens = {2, 9}
    Buffers = {72}
    MaxList = 3
    MaxChanges = 2
    Pids = {1, 300}
    Tids = {5}
    Fds = {0, 1}
    Comms = {"sh", "zsh"}
    Current = 1
    OddNames <- AnyNames
    IntMod = 1024
    MaxProcChanges = 3
CHECK_DEADLOCK FALSE
INVARIANTS
    FixedOnce
    NoSkipUnlessShrunk
    NoRepeatUnlessGrown
    ListedIsFound
    FoundIsListed
    LinksLead
    DotDotIsParent
PROPERTY
    DirectoryEnds
