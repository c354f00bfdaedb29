SPECIFICATION Spec
CONSTANTS
    Block = {b1, b2, b3, b4, b5}
    PreAlloc = 1
    MaxAlloc = 4
    BLOCK_RESERVE = 2
    HeapMayFail = TRUE
    AllocBound = 5
INVARIANTS
    TypeOK
    NoBlockShared
    LimitRespected
PROPERTIES
    AllBlocksRetained
    ImplementsPool
