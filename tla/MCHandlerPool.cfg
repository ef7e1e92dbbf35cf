\* Four workers, two handlers: workers queue up behind more than one handler.
CONSTANTS
    Worker = {w1, w2, w3, w4}
    HandlerNum = 2
    Spurious = TRUE
SPECIFICATION FairSpec
INVARIANTS
    TypeOK
    HandlerExclusive
    FreeCountExact
    NoLostWakeup
PROPERTIES
    NoStrandedWaiter
    ImplementsPool
