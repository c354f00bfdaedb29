SPECIFICATION ShutdownSpec
CONSTANTS
    Handle = {6, 7}
    ServerHandle = 5
    Context = {x1, x2}
    NoContext = NoContext
    MaxEvents = 3
    Client = {c1, c2, c3}
    NoClient = NoClient
    SSLEnabled = FALSE
    Segment = {"plain", "close"}
    MaxSegments = 1
    Pipelining = FALSE
    ClientsFinish = FALSE
    MaxAcceptFailures = 1
    PreAlloc = 1
    MaxAlloc = 2
INVARIANTS
    TablesAgree
    TerminateClosesUpToLast
PROPERTIES
    ReleasedOnce
    ServedAfterTerminate
CHECK_DEADLOCK FALSE
