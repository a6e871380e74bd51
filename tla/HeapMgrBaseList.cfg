SPECIFICATION Spec
CONSTANTS
    CHUNK_UNIT = 16
    SIZE_T = 2048
    INT = 64
    MaxUnits = 12
    Sizes = {16, 17, 80}
    SYS_MIN_ALLOC_UNITS = 4
INVARIANTS
    NoAssertionFails
    ListIsTheFreeMemory
PROPERTIES
    KeepsPromise
CHECK_DEADLOCK FALSE
