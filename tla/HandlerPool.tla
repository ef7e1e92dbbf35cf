---------------------------- MODULE HandlerPool ----------------------------
(***************************************************************************)
(* Face_Handler_Mgt: the pool of face handlers (detector + recognizer) the *)
(* worker threads share.  A call runs under the pool's mutex except while  *)
(* it sleeps in _cond.wait(), so a step below is one critical section.     *)
(***************************************************************************)
EXTENDS Naturals, FiniteSets

CONSTANTS Worker,       \* the threads that run Req_Processor::svc
          HandlerNum,   \* m_handler_size (1 in this build)
          Spurious      \* may pthread_cond_wait return without a signal?

ASSUME WorkerAssumption == IsFiniteSet(Worker)
ASSUME HandlerNumAssumption == HandlerNum \in Nat \ {0}
ASSUME SpuriousAssumption == Spurious \in BOOLEAN

Handler == 1..HandlerNum
NoHandler == 0          \* a null shared_ptr<face_handler_t>

VARIABLES
    busy,   \* busy[h]: face_handler_t::busy
    free,   \* m_free_handler_num
    pc,     \* where each worker is with respect to the pool
    held    \* the caller's shared_ptr: the handler get_handler filled in

vars == <<busy, free, pc, held>>

(***************************************************************************)
(* "out"      no call in progress, no result in hand                       *)
(* "waiting"  asleep in _cond.wait() inside get_handler                    *)
(* "woken"    out of the wait set, not yet the owner of _mutex again       *)
(* "using"    get_handler returned 0 and a handler                         *)
(* "empty"    get_handler returned 0 and the pointer is still null         *)
(***************************************************************************)
PC == {"out", "waiting", "woken", "using", "empty"}

At(p) == {w \in Worker : pc[w] = p}
Free  == {h \in Handler : ~busy[h]}

TypeOK ==
    /\ busy \in [Handler -> BOOLEAN]
    /\ free \in Nat
    /\ pc \in [Worker -> PC]
    /\ held \in [Worker -> Handler \cup {NoHandler}]

Init ==
    /\ busy = [h \in Handler |-> FALSE]
    /\ free = HandlerNum
    /\ pc = [w \in Worker |-> "out"]
    /\ held = [w \in Worker |-> NoHandler]

----------------------------------------------------------------------------
(* The scan at the end of get_handler: the first handler not busy is taken.*)
(* When none is found the call still returns 0, with a null pointer.       *)
FirstFree_IgnoresBusy(h) == h = 1                   \* mutant

FirstFree(h) == h \in Free /\ \A g \in Free : h <= g

Take(w, h) ==
    /\ FirstFree(h)
    /\ busy' = [busy EXCEPT ![h] = TRUE]
    /\ free' = free - 1
    /\ held' = [held EXCEPT ![w] = h]
    /\ pc' = [pc EXCEPT ![w] = "using"]

FindNone_Counts(w) ==                               \* mutant
    /\ Free = {}
    /\ free' = free - 1
    /\ pc' = [pc EXCEPT ![w] = "empty"]
    /\ UNCHANGED <<busy, held>>

FindNone(w) ==
    /\ Free = {}
    /\ pc' = [pc EXCEPT ![w] = "empty"]
    /\ UNCHANGED <<busy, free, held>>

Scan(w) == FindNone(w) \/ \E h \in Handler : Take(w, h)

(* get_handler with the counter above zero: no wait.                       *)
Get(w) ==
    /\ pc[w] = "out"
    /\ free # 0
    /\ Scan(w)

(* get_handler with the counter at zero: the caller joins the wait set.    *)
Wait(w) ==
    /\ pc[w] = "out"
    /\ free = 0
    /\ pc' = [pc EXCEPT ![w] = "waiting"]
    /\ UNCHANGED <<busy, free, held>>

(* A woken caller owns the mutex again.  The counter is tested by an "if", *)
(* not a "while": the scan follows whatever happened in between.           *)
Resume_GivesUp(w) ==                                \* mutant
    /\ pc[w] = "woken"
    /\ pc' = [pc EXCEPT ![w] = "empty"]
    /\ UNCHANGED <<busy, free, held>>

Resume(w) ==
    /\ pc[w] = "woken"
    /\ Scan(w)

(* POSIX lets pthread_cond_wait return without a signal.                   *)
SpuriousWake(w) ==
    /\ Spurious
    /\ pc[w] = "waiting"
    /\ pc' = [pc EXCEPT ![w] = "woken"]
    /\ UNCHANGED <<busy, free, held>>

(* pthread_cond_signal: one thread of the wait set, if there is one, wakes.*)
(* q is the pc after the caller's own move.                                *)
Signal_Never(q) == pc' = q                          \* mutant

Signal(q) ==
    LET asleep == {v \in Worker : q[v] = "waiting"}
    IN  IF asleep = {}
        THEN pc' = q
        ELSE \E v \in asleep : pc' = [q EXCEPT ![v] = "woken"]

(* put_handler with a handler.                                             *)
Put(w) ==
    /\ pc[w] = "using"
    /\ busy' = [busy EXCEPT ![held[w]] = FALSE]
    /\ free' = free + 1
    /\ held' = [held EXCEPT ![w] = NoHandler]
    /\ Signal([pc EXCEPT ![w] = "out"])

(* put_handler with a null pointer: returns -1 before it takes the mutex.  *)
PutNull_NoNullTest(w) ==                            \* mutant
    /\ pc[w] = "empty"
    /\ free' = free + 1
    /\ Signal([pc EXCEPT ![w] = "out"])
    /\ UNCHANGED <<busy, held>>

PutNull(w) ==
    /\ pc[w] = "empty"
    /\ pc' = [pc EXCEPT ![w] = "out"]
    /\ UNCHANGED <<busy, free, held>>

Next == \E w \in Worker :
    Get(w) \/ Wait(w) \/ Resume(w) \/ SpuriousWake(w) \/ Put(w) \/ PutNull(w)

Spec == Init /\ [][Next]_vars

(* A thread that can run does: a woken worker gets the mutex, a worker     *)
(* that has a handler finishes its request.  Nobody is bound to call       *)
(* get_handler (it takes a request), and no spurious wakeup is assumed.    *)
Fairness == \A w \in Worker :
    WF_vars(Resume(w)) /\ WF_vars(Put(w)) /\ WF_vars(PutNull(w))

FairSpec == Spec /\ Fairness

----------------------------------------------------------------------------
(* No two workers run the same handler: a handler keeps per-call state     *)
(* (m_detect_in_client, the network's input blobs) and is not reentrant.   *)
HandlerExclusive ==
    \A v, w \in Worker : held[v] = held[w] /\ held[v] # NoHandler => v = w

(* busy is set exactly while a worker has the handler: none leaks, none is *)
(* handed out twice, and only a worker that is "using" has one.            *)
BusyIffHeld ==
    /\ \A h \in Handler : busy[h] <=> \E w \in Worker : held[w] = h
    /\ \A w \in Worker : held[w] # NoHandler <=> pc[w] = "using"

(* m_free_handler_num, which decides who waits, counts the handlers the    *)
(* scan can find.  An unsigned counter that ran behind would wrap at 0.    *)
FreeCountExact == free = Cardinality(Free)

(* No lost wakeup: while somebody sleeps, each free handler has a woken    *)
(* worker on its way to it.                                                *)
NoLostWakeup == At("waiting") # {} => free <= Cardinality(At("woken"))

(* A handler does not stay free while a worker sleeps for want of one.     *)
NoStrandedWaiter ==
    (free > 0 /\ At("waiting") # {}) ~> (free = 0 \/ At("waiting") = {})

(* The comment at face_handler_mgt.cpp:71, "wait for free detector": a     *)
(* caller that returns with success has a handler.                         *)
GetReturnsHandler == At("empty") = {}

----------------------------------------------------------------------------
(* The pool as its callers see it.                                         *)
Owner == [h \in Handler |->
            IF \E w \in Worker : held[w] = h
            THEN {CHOOSE w \in Worker : held[w] = h} ELSE {}]

Pool == INSTANCE AbstractPool WITH owner <- Owner, refused <- At("empty")

(* The pool hands each handler to one caller at a time, and turns a caller *)
(* away only at a moment when every handler is in use.                     *)
ImplementsPool == Pool!Spec
=============================================================================
