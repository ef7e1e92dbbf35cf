-------------------------- MODULE ReqQueue_proofs --------------------------
(***************************************************************************)
(* Proofs about ReqQueue for every set of producers, consumers and         *)
(* requests and every size limit.                                          *)
(***************************************************************************)
EXTENDS ReqQueue, SequenceTheorems, TLAPS

(* A producer between building its request and disposing of it has one; a  *)
(* consumer has one exactly while it works.                                *)
RequestInHand ==
    /\ \A p \in Producer : ppc[p] # "polling" => cur[p] \in Req
    /\ \A c \in Consumer : got[c] # NoReq <=> cpc[c] = "working"

IInv == TypeOK /\ RequestInHand /\ Bounded /\ NoSleeperWithWork

----------------------------------------------------------------------------
LEMMA InitIInv == Init => IInv
<1> SUFFICES ASSUME Init PROVE IInv
  OBVIOUS
<1>1. TypeOK
  BY DEF Init, TypeOK, ProducerPC, ConsumerPC
<1>2. RequestInHand
  BY DEF Init, RequestInHand
<1>3. Bounded /\ NoSleeperWithWork
  BY MaxSizeAssumption DEF Init, Bounded, NoSleeperWithWork
<1>4. QED
  BY <1>1, <1>2, <1>3 DEF IInv

(* The producer's steps that leave the queue alone.                        *)
LEMMA ReceiveIInv ==
  ASSUME IInv, NEW p \in Producer, NEW r \in Req, Receive(p, r)
  PROVE  IInv'
<1> USE DEF IInv, Receive, consumerVars
<1>1. TypeOK'
  BY DEF TypeOK, ProducerPC
<1>2. RequestInHand'
  BY DEF TypeOK, RequestInHand
<1>3. Bounded' /\ NoSleeperWithWork'
  BY DEF Bounded, NoSleeperWithWork
<1>4. QED
  BY <1>1, <1>2, <1>3

LEMMA CheckFullIInv ==
  ASSUME IInv, NEW p \in Producer, CheckFull(p)
  PROVE  IInv'
<1> USE DEF IInv, CheckFull, consumerVars
<1>1. cur[p] \in Req
  BY DEF RequestInHand
<1>2. TypeOK'
  BY <1>1 DEF TypeOK, ProducerPC
<1>3. RequestInHand'
  BY DEF TypeOK, RequestInHand
<1>4. Bounded' /\ NoSleeperWithWork'
  BY DEF Bounded, NoSleeperWithWork
<1>5. QED
  BY <1>2, <1>3, <1>4

(* push_req: the bound by its own test, no sleeper by the broadcast.       *)
LEMMA PushIInv ==
  ASSUME IInv, NEW p \in Producer, Push(p)
  PROVE  IInv'
<1>1. /\ cur[p] \in Req
      /\ cur' = [cur EXCEPT ![p] = NoReq]
      /\ ppc' = [ppc EXCEPT ![p] = "polling"]
      /\ UNCHANGED <<arrived, rejected, got>>
  BY DEF IInv, RequestInHand, Push
<1>2. CASE Full /\ failed' = failed \cup {cur[p]} /\ UNCHANGED <<items, cpc>>
  <2>1. TypeOK'
    BY <1>1, <1>2 DEF IInv, TypeOK, ProducerPC
  <2>2. RequestInHand'
    BY <1>1, <1>2 DEF IInv, TypeOK, RequestInHand
  <2>3. Bounded' /\ NoSleeperWithWork'
    BY <1>2 DEF IInv, Bounded, NoSleeperWithWork
  <2>4. QED
    BY <2>1, <2>2, <2>3 DEF IInv
<1>3. CASE ~Full /\ Enqueue(cur[p]) /\ Broadcast /\ UNCHANGED failed
  <2>1. items' = Append(items, cur[p]) /\ Len(items') = Len(items) + 1
    BY <1>1, <1>3 DEF IInv, TypeOK, Enqueue
  <2>2. \A c \in Consumer :
          /\ cpc'[c] \in ConsumerPC \ {"waiting"}
          /\ cpc'[c] = "working" <=> cpc[c] = "working"
    BY <1>3 DEF IInv, TypeOK, Broadcast, ConsumerPC
  <2>3. TypeOK'
    <3>1. items' \in Seq(Req)
      BY <1>1, <2>1 DEF IInv, TypeOK
    <3>2. cpc' \in [Consumer -> ConsumerPC]
      BY <1>3, <2>2 DEF Broadcast
    <3>3. QED
      BY <1>1, <1>3, <3>1, <3>2 DEF IInv, TypeOK, ProducerPC
  <2>4. RequestInHand'
    BY <1>1, <2>2 DEF IInv, TypeOK, RequestInHand
  <2>5. Bounded'
    BY <1>3, <2>1, MaxSizeAssumption DEF IInv, TypeOK, Full, Bounded
  <2>6. NoSleeperWithWork'
    BY <2>2 DEF NoSleeperWithWork
  <2>7. QED
    BY <2>3, <2>4, <2>5, <2>6 DEF IInv
<1>4. QED
  BY <1>2, <1>3 DEF Push

(* pop takes the front item.                                               *)
LEMMA TakeFrontIInv ==
  ASSUME IInv, NEW c \in Consumer, TakeFront(c), cpc[c] \in {"out", "woken"}
  PROVE  IInv'
<1>1. /\ items # <<>>
      /\ Head(items) \in Req
      /\ items' = Tail(items)
      /\ items' \in Seq(Req)
      /\ Len(items') = Len(items) - 1
  BY DEF IInv, TypeOK, TakeFront
<1>2. TypeOK'
  BY <1>1 DEF IInv, TypeOK, TakeFront, producerVars, ConsumerPC
<1>3. RequestInHand'
  BY <1>1, NoReqAssumption DEF IInv, TypeOK, RequestInHand, TakeFront, producerVars
<1>4. Bounded'
  BY <1>1, MaxSizeAssumption DEF IInv, TypeOK, Bounded
<1>5. NoSleeperWithWork'
  BY <1>1 DEF IInv, TypeOK, NoSleeperWithWork, TakeFront
<1>6. QED
  BY <1>2, <1>3, <1>4, <1>5 DEF IInv

(* A consumer's step that leaves the queue and its request alone.          *)
LEMMA ConsumerPcIInv ==
  ASSUME IInv, NEW c \in Consumer, NEW q \in ConsumerPC \ {"working"},
         cpc[c] # "working", q = "waiting" => items = <<>>,
         cpc' = [cpc EXCEPT ![c] = q], UNCHANGED <<items, got, producerVars>>
  PROVE  IInv'
<1>1. TypeOK'
  BY DEF IInv, TypeOK, producerVars
<1>2. RequestInHand'
  BY DEF IInv, TypeOK, RequestInHand, producerVars
<1>3. Bounded' /\ NoSleeperWithWork'
  BY DEF IInv, TypeOK, Bounded, NoSleeperWithWork
<1>4. QED
  BY <1>1, <1>2, <1>3 DEF IInv

LEMMA FinishIInv ==
  ASSUME IInv, NEW c \in Consumer, Finish(c)
  PROVE  IInv'
<1>1. TypeOK'
  BY DEF IInv, TypeOK, Finish, producerVars, ConsumerPC
<1>2. RequestInHand'
  BY DEF IInv, TypeOK, RequestInHand, Finish, producerVars
<1>3. Bounded' /\ NoSleeperWithWork'
  BY DEF IInv, TypeOK, Bounded, NoSleeperWithWork, Finish
<1>4. QED
  BY <1>1, <1>2, <1>3 DEF IInv

LEMMA NextIInv == IInv /\ [Next]_vars => IInv'
<1> SUFFICES ASSUME IInv, [Next]_vars PROVE IInv'
  OBVIOUS
<1>1. CASE ProducerNext
  BY <1>1, ReceiveIInv, CheckFullIInv, PushIInv DEF ProducerNext
<1>2. CASE ConsumerNext
  <2>1. PICK c \in Consumer :
          Pop(c) \/ PopWait(c) \/ PopResume(c) \/ SpuriousWake(c) \/ Finish(c)
    BY <1>2 DEF ConsumerNext
  <2>2. CASE Pop(c)
    BY <2>2, TakeFrontIInv DEF Pop
  <2>3. CASE PopWait(c)
    BY <2>3, ConsumerPcIInv DEF PopWait, ConsumerPC
  <2>4. CASE PopResume(c)
    BY <2>4, TakeFrontIInv, ConsumerPcIInv DEF PopResume, ConsumerPC
  <2>5. CASE SpuriousWake(c)
    BY <2>5, ConsumerPcIInv DEF SpuriousWake, ConsumerPC
  <2>6. CASE Finish(c)
    BY <2>6, FinishIInv
  <2>7. QED
    BY <2>1, <2>2, <2>3, <2>4, <2>5, <2>6
<1>3. CASE UNCHANGED vars
  BY <1>3 DEF IInv, TypeOK, RequestInHand, Bounded, NoSleeperWithWork,
              vars, producerVars, consumerVars
<1>4. QED
  BY <1>1, <1>2, <1>3 DEF Next

(* The types, the bound and what each place of a producer or consumer implies
   hold in every reachable state. *)
THEOREM Invariant == Spec => []IInv
BY InitIInv, NextIInv, PTL DEF Spec

(* X_Queue and its callers keep the types of their variables.              *)
THEOREM TypeCorrect == Spec => []TypeOK
<1>1. IInv => TypeOK
  BY DEF IInv
<1>2. QED
  BY Invariant, <1>1, PTL

(* The queue never grows beyond _max_size, however many threads push.      *)
THEOREM BoundHolds == Spec => []Bounded
<1>1. IInv => Bounded
  BY DEF IInv
<1>2. QED
  BY Invariant, <1>1, PTL

(* No worker sleeps in pop while a request waits in the queue.             *)
THEOREM NoSleeper == Spec => []NoSleeperWithWork
<1>1. IInv => NoSleeperWithWork
  BY DEF IInv
<1>2. QED
  BY Invariant, <1>1, PTL

----------------------------------------------------------------------------
(* One producer: what full() answered is still true at push_req, because   *)
(* in between the queue can only shrink.                                   *)
CheckStillValid ==
    /\ failed = {}
    /\ \A p \in Producer : ppc[p] = "pushing" => ~Full

LEMMA NextCheckStillValid ==
  ASSUME \A p, q \in Producer : p = q
  PROVE  IInv /\ CheckStillValid /\ [Next]_vars => CheckStillValid'
<1> SUFFICES ASSUME IInv, CheckStillValid, [Next]_vars PROVE CheckStillValid'
  OBVIOUS
<1>1. ASSUME NEW p \in Producer, NEW r \in Req, Receive(p, r)
      PROVE  CheckStillValid'
  BY <1>1 DEF IInv, TypeOK, CheckStillValid, Full, Receive, consumerVars
<1>2. ASSUME NEW p \in Producer, CheckFull(p) PROVE CheckStillValid'
  BY <1>2 DEF IInv, TypeOK, CheckStillValid, Full, CheckFull, consumerVars
<1>3. ASSUME NEW p \in Producer, Push(p) PROVE CheckStillValid'
  <2>1. ~Full /\ failed' = {}
    BY <1>3 DEF CheckStillValid, Push
  <2>2. \A q \in Producer : ppc'[q] = "polling"
    BY <1>3 DEF IInv, TypeOK, Push
  <2>3. QED
    BY <2>1, <2>2 DEF CheckStillValid
<1>4. ASSUME NEW c \in Consumer, TakeFront(c) PROVE CheckStillValid'
  <2>1. Len(items') < Len(items) /\ Len(items) \in Nat /\ Len(items') \in Nat
    BY <1>4 DEF IInv, TypeOK, TakeFront
  <2>2. ~Full => ~Full'
    BY <2>1, MaxSizeAssumption DEF Full
  <2>3. QED
    BY <1>4, <2>2 DEF CheckStillValid, TakeFront, producerVars
<1>5. ASSUME UNCHANGED <<items, producerVars>> PROVE CheckStillValid'
  BY <1>5 DEF CheckStillValid, Full, producerVars
<1>6. QED
  BY <1>1, <1>2, <1>3, <1>4, <1>5
  DEF Next, ProducerNext, ConsumerNext, Pop, PopWait, PopResume, SpuriousWake,
      Finish, vars

(* With the one reactor main() starts, push_req never fails after full()   *)
(* said there is room.                                                     *)
THEOREM OneProducerPushSucceeds ==
  ASSUME \A p, q \in Producer : p = q
  PROVE  Spec => []PushAfterCheckSucceeds
<1>1. Init => CheckStillValid
  BY DEF Init, CheckStillValid
<1>2. IInv /\ CheckStillValid /\ [Next]_vars => CheckStillValid'
  BY NextCheckStillValid
<1>3. CheckStillValid => PushAfterCheckSucceeds
  BY DEF CheckStillValid, PushAfterCheckSucceeds
<1>4. QED
  BY <1>1, <1>2, <1>3, Invariant, PTL DEF Spec

----------------------------------------------------------------------------
(* The refinement.                                                         *)
LEMMA NextQueue ==
  ASSUME IInv, [Next]_vars
  PROVE  [Queue!Next]_Queue!vars
<1> USE DEF Queue!vars
<1>1. ASSUME NEW p \in Producer, NEW r \in Req, Receive(p, r)
      PROVE  UNCHANGED Queue!vars
  BY <1>1 DEF Receive, consumerVars
<1>2. ASSUME NEW p \in Producer, CheckFull(p)
      PROVE  [Queue!Next]_Queue!vars
  <2>1. cur[p] \in Req
    BY <1>2 DEF IInv, RequestInHand, CheckFull
  <2>2. CASE ~Full
    BY <1>2, <2>2 DEF CheckFull, consumerVars
  <2>3. CASE Full
    <3>1. Queue!Reject(cur[p])
      BY <1>2, <2>3 DEF CheckFull, consumerVars, Full, Queue!Reject, Queue!IsFull
    <3>2. QED
      BY <2>1, <3>1 DEF Queue!Next
  <2>4. QED
    BY <2>2, <2>3
<1>3. ASSUME NEW p \in Producer, Push(p) PROVE Queue!Next
  <2>1. cur[p] \in Req
    BY <1>3 DEF IInv, RequestInHand, Push
  <2>2. CASE Full
    <3>1. Queue!Reject(cur[p])
      BY <1>3, <2>2 DEF Push, Full, Queue!Reject, Queue!IsFull
    <3>2. QED
      BY <2>1, <3>1 DEF Queue!Next
  <2>3. CASE ~Full
    <3>1. Queue!Accept(cur[p])
      BY <1>3, <2>3 DEF Push, Enqueue, Full, Queue!Accept, Queue!IsFull
    <3>2. QED
      BY <2>1, <3>1 DEF Queue!Next
  <2>4. QED
    BY <2>2, <2>3
<1>4. ASSUME NEW c \in Consumer, TakeFront(c), cpc[c] \in {"out", "woken"}
      PROVE  Queue!Next
  <2>1. got[c] = NoReq
    BY <1>4 DEF IInv, RequestInHand
  <2>2. Queue!Deliver(c)
    BY <1>4, <2>1 DEF TakeFront, producerVars, Queue!Deliver
  <2>3. QED
    BY <2>2 DEF Queue!Next
<1>5. ASSUME NEW c \in Consumer, Finish(c) PROVE Queue!Next
  <2>1. Queue!Finish(c)
    BY <1>5 DEF IInv, RequestInHand, Finish, producerVars, Queue!Finish
  <2>2. QED
    BY <2>1 DEF Queue!Next
<1>6. ASSUME UNCHANGED <<items, got, producerVars>> PROVE UNCHANGED Queue!vars
  BY <1>6 DEF producerVars
<1>7. QED
  BY <1>1, <1>2, <1>3, <1>4, <1>5, <1>6
  DEF Next, ProducerNext, ConsumerNext, Pop, PopWait, PopResume, SpuriousWake,
      vars, consumerVars

(* X_Queue with the reactor and the workers around it is a FIFO that gives *)
(* each request to one worker and rejects only when it is full.            *)
THEOREM QueueRefinement == Spec => ImplementsQueue
<1>1. Init => Queue!Init
  BY DEF Init, Queue!Init
<1>2. IInv /\ [Next]_vars => [Queue!Next]_Queue!vars
  BY NextQueue
<1>3. QED
  BY <1>1, <1>2, Invariant, PTL DEF Spec, ImplementsQueue, Queue!Spec
=============================================================================
