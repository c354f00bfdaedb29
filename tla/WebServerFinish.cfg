SPECIFICATION FairSpec
CONSTANTS
    Handle = {6, 7}
    ServerHandle = 5
    Context = {x1, x2}
    NoContext = NoContext
    MaxEvents = 3
    Client = {c1}
    NoClient = NoClient
    SSLEnabled = TRUE
    Segment = {"keep"}
    MaxSegments = 2
    Pipelining = TRUE
    ClientsFinish = TRUE
    MaxAcceptFailures = 0
    PreAlloc = 1
    MaxAlloc = 2
PROPERTIES
    FinishedConnectionClosed
CHECK_DEADLOCK FALSE
