SPECIFICATION Spec
CONSTANTS
    Block = {b1, b2}
    PreAlloc = 1
    MaxAlloc = 2
    BLOCK_RESERVE = 3
    HeapMayFail = TRUE
    AllocBound = 3
INVARIANTS
    AllocatedIsExact
