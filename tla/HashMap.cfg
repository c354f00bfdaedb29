SPECIFICATION Spec
CONSTANTS
    Thread = {t1, t2}
    k1 = k1
    k2 = k2
    k3 = k3
    Key <- MCKey
    Value = {v1, v2}
    Absent = Absent
    Node = {n1, n2, n3}
    NULL = NULL
    Free = Free
    HashSize = 2
    Hash <- MCHash
SYMMETRY Symmetry
INVARIANTS
    NoDanglingPointer
    BucketsWellFormed
PROPERTIES
    ImplementsAtomicMap
