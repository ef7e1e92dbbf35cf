\* Three clients, one worker, room for one request.
CONSTANTS
    Client = {c1, c2, c3}
    NoClient = NoClient
    FdNum = 3
    Worker = {w1}
    HandlerNum = 1
    MaxSize = 1
    Kind = {"face"}
    Mode = {0}
    ReqNum = 1
SPECIFICATION FairSpec
PROPERTY BusyIsAnswered
CHECK_DEADLOCK FALSE
