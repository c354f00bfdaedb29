SPECIFICATION FairSpec
CONSTANTS
    Handle = {6, 7}
    ServerHandle = 5
    Context = {x1, x2}
    NoContext = NoContext
    MaxEvents = 3
    Client = {c1, c2}
    NoClient = NoClient
    SSLEnabled = TRUE
    Segment = {"keep", "partial"}
    MaxSegments = 1
    Pipelining = TRUE
    ClientsFinish = FALSE
    MaxAcceptFailures = 0
    PreAlloc = 1
    MaxAlloc = 2
PROPERTIES
    ReadsDoNotBlock
CHECK_DEADLOCK FALSE
