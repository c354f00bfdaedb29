SPECIFICATION Spec
CONSTANTS
    BLOCK_SIZE = 2
    MaxSegment = 3
    MaxSent = 4
    MaxNuls = 1
    SendBuffer = 3
    SizeWrap = 4
    MaxResponse = 4
CHECK_DEADLOCK FALSE
INVARIANTS
    InOrderOnce
    LostOnlyBehindNul
    OneAnswerEach
    AnswersWhole
PROPERTIES
    JunkOnlyWhenFull
    EverythingRead
