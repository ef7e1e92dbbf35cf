\* Two clients, two requests each without a mode, room for one: the queue fills,
\* descriptors are reused.
CONSTANTS
    Client = {c1, c2}
    NoClient = NoClient
    FdNum = 2
    Worker = {w1, w2}
    HandlerNum = 1
    MaxSize = 1
    Kind = {"bad", "face"}
    Mode = {2}
    ReqNum = 2
SPECIFICATION FairSpec
INVARIANTS
    TypeOK
    PairedReplies
    AtMostOneReply
    NothingLost
    PushAfterCheckSucceeds
PROPERTY EveryRequestAnswered
CHECK_DEADLOCK FALSE
