------------------------------ MODULE ReqQueue ------------------------------
(***************************************************************************)
(* Req_Mgt over base::X_Queue: the bounded queue between the reactor       *)
(* thread (Req_TCP_Event_Handler::handle_input) and the workers            *)
(* (Req_Processor::svc).  Each queue call is one critical section of the   *)
(* queue's mutex; the producer calls full() and push_req() separately.     *)
(***************************************************************************)
EXTENDS Naturals, Sequences

CONSTANTS Producer,     \* threads that run handle_input (one reactor)
          Consumer,     \* threads that run svc
          Req, NoReq,   \* the requests; a null Request_Ptr
          MaxSize,      \* _max_size; 0 means no limit
          Spurious      \* may pthread_cond_wait return without a signal?

ASSUME NoReqAssumption == NoReq \notin Req
ASSUME MaxSizeAssumption == MaxSize \in Nat
ASSUME SpuriousAssumption == Spurious \in BOOLEAN

VARIABLES
    items,      \* _lst_item
    arrived,    \* the requests read from a socket so far
    ppc,        \* where each producer is in handle_input
    cur,        \* cur[p]: the Request_Ptr handle_input built
    cpc,        \* where each consumer is in get_req
    got,        \* got[c]: the Request_Ptr get_req filled in
    rejected,   \* requests answered ERR_QUEUE_FULL
    failed      \* requests answered ERR_PUSH_QUEUE_FAIL

producerVars == <<arrived, ppc, cur, rejected, failed>>
consumerVars == <<cpc, got>>
vars == <<items, producerVars, consumerVars>>

(* "polling": the event loop of the reactor; "checking": about to call     *)
(* full(); "pushing": full() said no, about to call push_req.              *)
ProducerPC == {"polling", "checking", "pushing"}

(* "out": about to call get_req; "waiting", "woken": inside _cond.wait();  *)
(* "working": get_req returned a request.                                  *)
ConsumerPC == {"out", "waiting", "woken", "working"}

TypeOK ==
    /\ items \in Seq(Req)
    /\ arrived \subseteq Req /\ rejected \subseteq Req /\ failed \subseteq Req
    /\ ppc \in [Producer -> ProducerPC]
    /\ cur \in [Producer -> Req \cup {NoReq}]
    /\ cpc \in [Consumer -> ConsumerPC]
    /\ got \in [Consumer -> Req \cup {NoReq}]

Init ==
    /\ items = <<>>
    /\ arrived = {} /\ rejected = {} /\ failed = {}
    /\ ppc = [p \in Producer |-> "polling"]
    /\ cur = [p \in Producer |-> NoReq]
    /\ cpc = [c \in Consumer |-> "out"]
    /\ got = [c \in Consumer |-> NoReq]

----------------------------------------------------------------------------
(* The test both full() and push() make.                                   *)
Full == MaxSize > 0 /\ Len(items) >= MaxSize

(* handle_input has read a whole frame and built a Request.                *)
Receive(p, r) ==
    /\ ppc[p] = "polling"
    /\ r \notin arrived
    /\ arrived' = arrived \cup {r}
    /\ cur' = [cur EXCEPT ![p] = r]
    /\ ppc' = [ppc EXCEPT ![p] = "checking"]
    /\ UNCHANGED <<items, rejected, failed, consumerVars>>

CheckFull_Skipped(p) ==                                     \* mutant
    /\ ppc[p] = "checking"
    /\ ppc' = [ppc EXCEPT ![p] = "pushing"]
    /\ UNCHANGED <<items, arrived, cur, rejected, failed, consumerVars>>

CheckFull_DropsReq(p) ==                                    \* mutant
    /\ ppc[p] = "checking"
    /\ cur' = [cur EXCEPT ![p] = NoReq]
    /\ IF Full
       THEN /\ rejected' = rejected \cup {cur[p]}
            /\ ppc' = [ppc EXCEPT ![p] = "polling"]
       ELSE /\ ppc' = [ppc EXCEPT ![p] = "pushing"]
            /\ UNCHANGED rejected
    /\ UNCHANGED <<items, arrived, failed, consumerVars>>

(* full(used_size, max_size).                                              *)
CheckFull(p) ==
    /\ ppc[p] = "checking"
    /\ \/ /\ Full
          /\ rejected' = rejected \cup {cur[p]}
          /\ cur' = [cur EXCEPT ![p] = NoReq]
          /\ ppc' = [ppc EXCEPT ![p] = "polling"]
       \/ /\ ~Full
          /\ ppc' = [ppc EXCEPT ![p] = "pushing"]
          /\ UNCHANGED <<cur, rejected>>
    /\ UNCHANGED <<items, arrived, failed, consumerVars>>

(* Condition::broadcast: every thread of the wait set wakes.               *)
Broadcast_Never == UNCHANGED cpc                            \* mutant

Broadcast_One ==                                            \* mutant
    \/ /\ \A c \in Consumer : cpc[c] # "waiting"
       /\ UNCHANGED cpc
    \/ \E c \in Consumer :
          cpc[c] = "waiting" /\ cpc' = [cpc EXCEPT ![c] = "woken"]

Broadcast ==
    cpc' = [c \in Consumer |-> IF cpc[c] = "waiting" THEN "woken" ELSE cpc[c]]

Enqueue_Front(r) == items' = <<r>> \o items                 \* mutant

Enqueue(r) == items' = Append(items, r)

Push_Unchecked(p) ==                                        \* mutant
    /\ ppc[p] = "pushing"
    /\ Enqueue(cur[p])
    /\ Broadcast
    /\ cur' = [cur EXCEPT ![p] = NoReq]
    /\ ppc' = [ppc EXCEPT ![p] = "polling"]
    /\ UNCHANGED <<arrived, rejected, failed, got>>

(* push_req: tests again, appends, wakes everybody.                        *)
Push(p) ==
    /\ ppc[p] = "pushing"
    /\ \/ /\ Full
          /\ failed' = failed \cup {cur[p]}
          /\ UNCHANGED <<items, cpc>>
       \/ /\ ~Full
          /\ Enqueue(cur[p])
          /\ Broadcast
          /\ UNCHANGED failed
    /\ cur' = [cur EXCEPT ![p] = NoReq]
    /\ ppc' = [ppc EXCEPT ![p] = "polling"]
    /\ UNCHANGED <<arrived, rejected, got>>

----------------------------------------------------------------------------
(* pop: the front item goes to the caller.                                 *)
TakeFront(c) ==
    /\ items # <<>>
    /\ got' = [got EXCEPT ![c] = Head(items)]
    /\ items' = Tail(items)
    /\ cpc' = [cpc EXCEPT ![c] = "working"]
    /\ UNCHANGED producerVars

(* pop on a queue with items: no wait.                                     *)
Pop(c) == cpc[c] = "out" /\ TakeFront(c)

(* pop on an empty queue: the caller sleeps.                               *)
PopWait(c) ==
    /\ cpc[c] = "out"
    /\ items = <<>>
    /\ cpc' = [cpc EXCEPT ![c] = "waiting"]
    /\ UNCHANGED <<items, got, producerVars>>

(* A woken caller tests once more; the queue empty again means -1, and svc *)
(* returns to the thread's loop, which calls it again.                     *)
PopResume(c) ==
    /\ cpc[c] = "woken"
    /\ \/ TakeFront(c)
       \/ /\ items = <<>>
          /\ cpc' = [cpc EXCEPT ![c] = "out"]
          /\ UNCHANGED <<items, got, producerVars>>

SpuriousWake(c) ==
    /\ Spurious
    /\ cpc[c] = "waiting"
    /\ cpc' = [cpc EXCEPT ![c] = "woken"]
    /\ UNCHANGED <<items, got, producerVars>>

(* svc is done with its request; the thread's loop calls it again.         *)
Finish(c) ==
    /\ cpc[c] = "working"
    /\ got' = [got EXCEPT ![c] = NoReq]
    /\ cpc' = [cpc EXCEPT ![c] = "out"]
    /\ UNCHANGED <<items, producerVars>>

ProducerNext == \E p \in Producer :
    (\E r \in Req : Receive(p, r)) \/ CheckFull(p) \/ Push(p)

ConsumerNext == \E c \in Consumer :
    Pop(c) \/ PopWait(c) \/ PopResume(c) \/ SpuriousWake(c) \/ Finish(c)

Next == ProducerNext \/ ConsumerNext

Spec == Init /\ [][Next]_vars

(* The worker threads loop for ever and their requests come to an end; the *)
(* reactor finishes the handle_input it began.  Clients owe no request.    *)
Fairness ==
    /\ \A p \in Producer : WF_vars(CheckFull(p)) /\ WF_vars(Push(p))
    /\ \A c \in Consumer :
          /\ WF_vars(Pop(c)) /\ WF_vars(PopResume(c)) /\ WF_vars(Finish(c))

FairSpec == Spec /\ Fairness

----------------------------------------------------------------------------
(* X_Queue never holds more than _max_size items, whoever pushes.          *)
Bounded == MaxSize > 0 => Len(items) <= MaxSize

(* No worker sleeps while a request waits: pop waits only on an empty      *)
(* queue, and push wakes all.                                              *)
NoSleeperWithWork == items # <<>> => \A c \in Consumer : cpc[c] # "waiting"

(* With one reactor the queue cannot fill up between full() and push_req,  *)
(* so "push into req mgt failed" is never answered.                        *)
PushAfterCheckSucceeds == failed = {}

(* A request that was accepted reaches a worker.                           *)
AcceptedIsTaken == \A r \in Req :
    (\E i \in 1..Len(items) : items[i] = r) ~> (\E c \in Consumer : got[c] = r)

Queue == INSTANCE AbstractQueue
            WITH pending <- items, rejected <- rejected \cup failed

(* First in, first out, to one worker each; turned away only when full.    *)
ImplementsQueue == Queue!Spec
=============================================================================
