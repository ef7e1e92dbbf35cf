\* Two producers race for two places; two consumers.
CONSTANTS
    Producer = {p1, p2}
    Consumer = {c1, c2}
    Req = {r1, r2, r3}
    NoReq = NoReq
    MaxSize = 2
    Spurious = TRUE
SPECIFICATION FairSpec
INVARIANTS
    TypeOK
    Bounded
    NoSleeperWithWork
PROPERTIES
    ImplementsQueue
    AcceptedIsTaken
CHECK_DEADLOCK FALSE
