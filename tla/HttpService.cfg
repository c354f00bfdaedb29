SPECIFICATION Spec
CONSTANTS
    Path = {p1, p2}
    Method = {"GET", "POST", "DELETE", "PUT", "HEAD"}
    UnknownMethod = UnknownMethod
    Handler = {h1, h2}
    NoHandler = NoHandler
    Key = {k1}
    Value = {v1}
    NoValue = NoValue
    Text = {t1}
    NoBody = NoBody
    MaxHeaders = 1
    MaxBody = 2
    MaxLog = 4
SYMMETRY Symmetry
INVARIANTS
    HandlerSeesRequest
    RightHandler
CHECK_DEADLOCK FALSE
