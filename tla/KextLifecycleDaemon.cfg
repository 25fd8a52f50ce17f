SPECIFICATION Spec
CONSTANTS
    Readers = {r1, r2}
SYMMETRY Symmetry
CHECK_DEADLOCK FALSE
INVARIANT CallbackHasLock
