SPECIFICATION Spec
CONSTANTS
    CHUNK_UNIT = 16
    SIZE_T = 2048
    INT = 64
    MaxUnits = 14
    Sizes = {10, 80}
    SYS_MIN_ALLOC_UNITS = 4
INVARIANTS
    AbortsOnlyWhenStale
    EveryChunkAccountedFor
PROPERTIES
    KeepsPromise
CHECK_DEADLOCK FALSE
