SPECIFICATION Spec
CONSTANTS
    Files <- MCFiles
    MaxLen = 3
    PAGE_SIZE = 4
    MaxLives = 2
INVARIANTS
    Balanced
    OneProcess
    InPlace
    EofIsEnd
    FdIsCaptured
PROPERTIES
    CatEnds
