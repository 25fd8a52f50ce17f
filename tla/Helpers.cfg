SPECIFICATION HelpersSpec
CONSTANTS
    Chars = {" ", "a", "b", "c"}
    Pieces <- MCPieces
    Lengths = {1, 3}
    MINEXTENDSIZE = 2
    PAGE_SIZE = 4
    INT_MAX = 8
    Blocks = {3, 4, 5}
    Blank = " "
    Top = 4
    MAX_REGIONS = 3
    MaxUthreads = 3
    MaxChanges = 4
    MAX_THREADS = 4
    MaxFd = 4
    MaxBytes = 5
    MaxArgs = 2
    MaxWord = 1
    la_ncpu = 2
    FSCALE = 4
    la_cexp <- OneDecay
    Mod64 = 256
    Mod32 = 32
    MaxTicks = 2
INVARIANTS
    MemoryIsOwned
    StayingListed
    SpansAreExact
    LoadIsRecent
PROPERTIES
    ImplementsText
    LoopsEnd
