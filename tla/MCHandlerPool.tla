--------------------------- MODULE MCHandlerPool ---------------------------
EXTENDS HandlerPool, TLC

(* The workers run the same code: safety is symmetric in them.             *)
WorkerSymmetry == Permutations(Worker)
=============================================================================
