SPECIFICATION Spec
CONSTANTS
    Threads = {t1, t2}
    Server = server
    None = None
    Base = 4
    RequestSizes = {2, 9}
    AnswerSizes = {1, 9}
    Room = 4
    MaxCalls = 2
    MaxSent = 3
INVARIANTS
    LinkInv
    FramesWholeInTurn
PROPERTIES
    FailuresAreFinal
    CallsReturn
    ImplementsExchange
CHECK_DEADLOCK FALSE
