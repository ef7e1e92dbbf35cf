\* The deployed sizes: thr_num = 3 workers, one handler.
CONSTANTS
    Worker = {w1, w2, w3}
    HandlerNum = 1
    Spurious = FALSE
SPECIFICATION Spec
SYMMETRY WorkerSymmetry
INVARIANT GetReturnsHandler
