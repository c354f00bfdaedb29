SPECIFICATION FairSpec
CONSTANTS
    Handle = {6, 7}
    ServerHandle = 5
    Context = {x1, x2}
    NoContext = NoContext
    MaxEvents = 3
    Client = {c1, c2}
    NoClient = NoClient
    SSLEnabled = TRUE
    Segment = {"plain", "close", "fault"}
    MaxSegments = 2
    Pipelining = TRUE
    ClientsFinish = TRUE
    MaxAcceptFailures = 0
    PreAlloc = 1
    MaxAlloc = 2
PROPERTIES
    EveryConnectionAccepted
    EveryRequestAnswered
    CloseHonoured
CHECK_DEADLOCK FALSE
