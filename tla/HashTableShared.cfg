SPECIFICATION Spec
CONSTANTS
    Threads = {t1, t2}
    Keys <- ThreeKeys
    Values = {v1, v2}
    HashSize = 2
    BucketOf <- Hashed
    WordSize = 1024
    Nodes = {n1, n2, n3}
    NULL = NULL
    NoValue = NoValue
    NoCall = NoCall
    Unallocated = Unallocated
SYMMETRY Symmetry
INVARIANTS
    TypeOK
    NoDangling
    ListsConsistent
    DestroyFreesAll
PROPERTIES
    CopyIsStable
    ImplementsKVStore
CHECK_DEADLOCK FALSE
