SPECIFICATION Spec
CONSTANTS
    Client = {c1, c2}
    Descriptor = {4, 5, 6}
    Option = {o1}
    Port = {80, 443}
    MaxOptions = 2
    MaxForeign = 2
CHECK_DEADLOCK FALSE
INVARIANTS
    TypeOK
    ListensAsConfigured
    ClosesOnlyItsOwn
    FailedBootReleases
PROPERTIES
    CollectedWhileOpen
    LoopStops
