------------------------------ MODULE Startup ------------------------------
(***************************************************************************)
(* main (main.cpp) and Thread::run (base/base_thread.cpp): what is set up  *)
(* in which order, the creation of the worker threads, and the ways the    *)
(* process gives up before it serves anybody.                              *)
(*                                                                         *)
(* Thread::run keeps going when pthread_create fails, and its result is    *)
(* the one of the last detach, of an id that is undefined then.            *)
(* thread_proc's end (dec_ref and the delete of the Thread object) is      *)
(* never reached: svc of Req_Processor returns 0 as long as the detector   *)
(* does, svc of Reactor always, and nothing calls stop or suspend.         *)
(***************************************************************************)
EXTENDS Server

CONSTANT MayFail     \* the steps of the start that may fail in this instance

Stages == {"conf", "log", "users", "handlers", "workers", "listen", "reactor",
           "up", "gone"}
ASSUME StartupAssumption == MayFail \subseteq Stages

VARIABLES
  stage,        \* how far main is; "gone" when it returned
  running,      \* the threads of Req_Processor that run thread_proc
  fresh,        \* a thread was created and run has not taken its reference
  tries,        \* turns of run's loop
  refs,         \* the reference count of the Thread object
  detached,     \* the result of the last detach was 0
  serving       \* the reactor's thread runs

runVars == <<running, fresh, tries, refs, detached>>   \* of Req_Processor's run
startVars == <<stage, runVars, serving>>

StartTypeOK ==
  /\ stage \in Stages
  /\ running \subseteq Worker
  /\ fresh \in BOOLEAN
  /\ tries \in 0..Cardinality(Worker)
  /\ refs \in 0..Cardinality(Worker)
  /\ detached \in BOOLEAN
  /\ serving \in BOOLEAN

StartInit ==
  /\ stage = "conf"
  /\ running = {}
  /\ fresh = FALSE
  /\ tries = 0
  /\ refs = 0
  /\ detached = FALSE
  /\ serving = FALSE

(* main's statements in their order; each is one call that works or ends the
   process.  Conf_Mgt::init also fills the pool of MySQL connections,
   User_Mgt::init reads the users through one of them. *)
Then(now, next) ==
  /\ stage = now
  /\ stage' = next
  /\ UNCHANGED <<runVars, serving>>

Configure == Then("conf", "log")
OpenLog == Then("log", "users")
LoadUsers == Then("users", "handlers")
MakeHandlers == Then("handlers", "workers")
Listen == Then("listen", "reactor")

GiveUpStart == \E s \in MayFail \ {"workers", "reactor", "up", "gone"} : Then(s, "gone")

(* Thread::run: one turn of the loop creates a thread, which runs at once, *)
CreateThread ==
  /\ stage = "workers"
  /\ ~fresh
  /\ tries < Cardinality(Worker)
  /\ \E w \in Worker \ running : running' = running \cup {w}
  /\ fresh' = TRUE
  /\ UNCHANGED <<stage, tries, refs, detached, serving>>

TakeThread_Twice ==                                              \* mutant
  /\ fresh /\ fresh' = FALSE
  /\ refs' = refs + 2 /\ tries' = tries + 1 /\ detached' = TRUE
  /\ UNCHANGED <<stage, running, serving>>

(* and then takes the reference for it and detaches it. *)
TakeThread ==
  /\ fresh
  /\ fresh' = FALSE
  /\ refs' = refs + 1
  /\ tries' = tries + 1
  /\ detached' = TRUE
  /\ UNCHANGED <<stage, running, serving>>

(* pthread_create failed: nothing looks at its error, and the loop goes on to
   detach the id it left, which is undefined (zero, the id of the turn before,
   or that of a thread that was set up and not started).  So the detach may
   fail, work, or take the process down. *)
CreateFails ==
  /\ stage = "workers"
  /\ "workers" \in MayFail
  /\ ~fresh
  /\ tries < Cardinality(Worker)
  /\ tries' = tries + 1
  /\ detached' \in BOOLEAN
  /\ stage' \in {"workers", "gone"}
  /\ UNCHANGED <<running, fresh, refs, serving>>

(* The end of run, and main's look at its result. *)
WorkersStarted ==
  /\ stage = "workers"
  /\ tries = Cardinality(Worker)
  /\ ~fresh
  /\ stage' = IF detached THEN "listen" ELSE "gone"
  /\ UNCHANGED <<runVars, serving>>

(* The reactor is a Thread too, of one turn: main says it has started the server
   when that turn's detach returned 0, of a thread or of an undefined id. *)
RunReactor ==
  /\ stage = "reactor"
  /\ stage' = "up"
  /\ serving' = TRUE
  /\ UNCHANGED runVars

ReactorFails ==
  /\ stage = "reactor"
  /\ "reactor" \in MayFail
  /\ stage' \in {"up", "gone"}
  /\ UNCHANGED <<runVars, serving>>

StartNext ==
  \/ Configure \/ OpenLog \/ LoadUsers \/ MakeHandlers
  \/ CreateThread \/ TakeThread \/ CreateFails \/ WorkersStarted
  \/ Listen \/ RunReactor \/ ReactorFails
  \/ GiveUpStart

StartSpec == StartInit /\ [][StartNext]_startVars

============================================================================
