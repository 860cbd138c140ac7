SPECIFICATION Safety
CONSTANTS
    Threads = {t1, t2}
    Server = server
    None = None
    Base = 4
    RequestSizes = {2}
    AnswerSizes = {1}
    Room = 8
    MaxCalls = 1
    MaxSent = 2
INVARIANT
    FramesWhole
CHECK_DEADLOCK FALSE
