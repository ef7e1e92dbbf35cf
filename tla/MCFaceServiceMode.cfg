\* Two clients that ask for different modes.
CONSTANTS
    Client = {c1, c2}
    NoClient = NoClient
    FdNum = 2
    Worker = {w1, w2}
    HandlerNum = 1
    MaxSize = 2
    Kind = {"face"}
    Mode = {0, 1}
    ReqNum = 1
SPECIFICATION Spec
SYMMETRY ServiceSymmetry
INVARIANT ServedInAskedMode
CHECK_DEADLOCK FALSE
