\* Two clients and one descriptor.
CONSTANTS
    Client = {c1, c2}
    NoClient = NoClient
    FdNum = 1
    Worker = {w1}
    HandlerNum = 1
    MaxSize = 1
    Kind = {"face"}
    Mode = {0}
    ReqNum = 1
SPECIFICATION Spec
SYMMETRY ServiceSymmetry
INVARIANT ReplyToAsker
CHECK_DEADLOCK FALSE
