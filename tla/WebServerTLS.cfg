SPECIFICATION Spec
CONSTANTS
    Handle = {6, 7}
    ServerHandle = 5
    Context = {x1, x2, x3}
    NoContext = NoContext
    MaxEvents = 2
    Client = {c1, c2, c3}
    NoClient = NoClient
    SSLEnabled = TRUE
    Segment = {"close", "partial"}
    MaxSegments = 2
    Pipelining = TRUE
    ClientsFinish = TRUE
    MaxAcceptFailures = 1
    PreAlloc = 1
    MaxAlloc = 3
SYMMETRY Symmetry
INVARIANTS
    TypeOK
    RegistryMatchesKernel
    NoStaleEvent
    NoContextLeak
    DiesOnlyAtLimit
PROPERTIES
    PoolDiscipline
CHECK_DEADLOCK FALSE
