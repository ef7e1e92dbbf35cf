SPECIFICATION FairSpec
CONSTANTS
    a = a
    b = b
    Conn = {a, b}
    NoConn = NoConn
    Base = 2
    Stream <- MCStream
    Start <- MCStart
INVARIANTS TypeOK FramesIntact NoArrivedFrameLost
PROPERTIES EveryFrameTaken LeaveIsNoticed
CHECK_DEADLOCK FALSE
