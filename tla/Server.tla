------------------------------- MODULE Server -------------------------------
(***************************************************************************)
(* What the modules of a running server have in common: its threads, its   *)
(* connections and the requests that come in.                              *)
(***************************************************************************)
EXTENDS Naturals, FiniteSets

CONSTANTS
  Worker,     \* the threads of Req_Processor (the configuration's thr_num)
  Request,    \* the requests that arrive, each once
  Fd          \* descriptors of client connections

Nobody == "nobody"

ASSUME WorkerAssumption == IsFiniteSet(Worker) /\ Worker # {} /\ Nobody \notin Worker
=============================================================================
