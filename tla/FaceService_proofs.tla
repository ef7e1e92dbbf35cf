------------------------- MODULE FaceService_proofs -------------------------
(***************************************************************************)
(* Proofs about FaceService for every set of clients and workers, every    *)
(* number of descriptors, handlers and requests and every size of the      *)
(* queue.  What is proved of the queue and of the pool alone carries over: *)
(* every step of the service is a step of each of them, or none.           *)
(***************************************************************************)
EXTENDS FaceService, SequenceTheorems, FiniteSetTheorems, TLAPS

QP == INSTANCE ReqQueue_proofs WITH Producer <- {Reactor}, Consumer <- Worker,
                                    Req <- Request, Spurious <- FALSE
PP == INSTANCE HandlerPool_proofs WITH Spurious <- FALSE

----------------------------------------------------------------------------
(* What is counted: a client's frames and requests, place by place.        *)
InReactor(c) == IF cur[Reactor] \in Request /\ cur[Reactor].from = c THEN 1 ELSE 0
From(s, c) == {i \in 1..Len(s) : s[i].from = c}
ServedBy(c) == {w \in Worker : got[w].from = c}
Turned(c) == {r \in rejected \cup failed : r.from = c}

(* The requests the reactor, the queue or a worker has.                    *)
InFlight == {r \in Request : \/ cur[Reactor] = r
                             \/ \E i \in 1..Len(items) : items[i] = r
                             \/ \E w \in Worker : got[w] = r}

(* r has been answered, to whomever.                                       *)
Replied(r) == \E c \in Client : \E k \in 1..Len(replies[c]) : replies[c][k].req = r

----------------------------------------------------------------------------
(* The inductive invariant.                                                *)
NetType ==
    /\ peer \in [Fd -> Client \cup {NoClient}]
    /\ opened \subseteq Client /\ closed \subseteq opened
    /\ inbox \in [Client -> Seq(Content)]
    /\ sent \in [Client -> 0..ReqNum]
    /\ replies \in [Client -> Seq([req : Request, out : Outcome])]

SvcType ==
    /\ g_mode \in {0, 1}
    /\ stage \in [Worker -> Stage]
    /\ out \in [Worker -> Outcome]

(* svc is at work exactly while it has a request; no frame is in a socket  *)
(* that was not sent.                                                      *)
StageInv ==
    /\ \A w \in Worker : stage[w] = "idle" <=> cpc[w] # "working"
    /\ \A c \in Client : Len(inbox[c]) <= sent[c]

(* A request is in one place only, and leaves InFlight for good.           *)
OnePlace ==
    /\ InFlight \cup rejected \subseteq arrived
    /\ ppc[Reactor] = "polling" <=> cur[Reactor] = NoReq
    /\ \A i, j \in 1..Len(items) : items[i] = items[j] => i = j
    /\ \A v, w \in Worker : got[v] = got[w] /\ got[v] # NoReq => v = w
    /\ \A i \in 1..Len(items) : \A w \in Worker : items[i] # got[w]
    /\ \A i \in 1..Len(items) : items[i] # cur[Reactor]
    /\ \A w \in Worker : got[w] = cur[Reactor] => got[w] = NoReq
    /\ cur[Reactor] \notin rejected
    /\ failed = {} /\ IsFiniteSet(rejected)

OneReply ==
    /\ AtMostOneReply
    /\ \A r \in Request : Replied(r) => r \in arrived /\ r \notin InFlight

(* While nobody leaves early a client is owed at most one reply, and the   *)
(* request it waits for carries its number and a descriptor that is its.   *)
Owed ==
    ~LeftEarly =>
        /\ \A c \in Client : sent[c] \in {Len(replies[c]), Len(replies[c]) + 1}
        /\ \A r \in InFlight : peer[r.fd] = r.from /\ r.n = sent[r.from]

(* What holds of the queue and of the pool (their own invariants) and of   *)
(* what lies between them.                                                 *)
IInv ==
    /\ QP!IInv /\ QP!CheckStillValid /\ PP!IInv
    /\ NetType /\ SvcType /\ StageInv
    /\ OnePlace /\ OneReply
    /\ Owed /\ NothingLost /\ PairedReplies

----------------------------------------------------------------------------
(* The service's steps as steps of the queue and of the pool.              *)
LEMMA NoReqFresh == NoReq \notin Request /\ \A c \in Client : NoReq.from # c
BY NoClientAssumption DEF NoReq, Request

(* The n-th frame read from the socket of c is its n-th request.           *)
LEMMA ReadRequest ==
  ASSUME NetType, StageInv, NEW fd \in Fd, peer[fd] # NoClient, inbox[peer[fd]] # <<>>
  PROVE  LET c == peer[fd]
             m == Head(inbox[c])
         IN  [from |-> c, n |-> sent[c] - Len(inbox[c]) + 1,
              fd |-> fd, kind |-> m.kind, mode |-> m.mode] \in Request
<1> DEFINE c == peer[fd]
           m == Head(inbox[c])
<1>1. c \in Client
  BY DEF NetType
<1>2. inbox[c] \in Seq(Content) /\ inbox[c] # <<>> /\ sent[c] \in 0..ReqNum
  BY <1>1 DEF NetType
<1>3. m \in Content /\ Len(inbox[c]) \in Nat \ {0}
  BY <1>2, HeadTailProperties, EmptySeq
<1>4. Len(inbox[c]) <= sent[c]
  BY <1>1 DEF StageInv
<1>5. sent[c] - Len(inbox[c]) + 1 \in 1..ReqNum
  BY <1>2, <1>3, <1>4, ReqNumAssumption
<1>6. QED
  BY <1>1, <1>3, <1>5 DEF Request, Content

LEMMA QueueStep ==
  ASSUME NetType, StageInv, [Next]_vars
  PROVE  [QP!Next]_(QP!vars)
<1> USE DEF QP!Next, QP!ProducerNext, QP!ConsumerNext
<1>1. ASSUME NEW fd \in Fd, Read(fd) PROVE QP!Next
  <2> DEFINE c == peer[fd]
             r == [from |-> c, n |-> sent[c] - Len(inbox[c]) + 1, fd |-> fd,
                   kind |-> Head(inbox[c]).kind, mode |-> Head(inbox[c]).mode]
  <2>1. r \in Request
    BY <1>1, ReadRequest DEF Read
  <2>2. QP!Receive(Reactor, r)
    BY <1>1 DEF Read, Q!Receive, QP!Receive, Q!consumerVars, QP!consumerVars
  <2> HIDE DEF r
  <2>3. QED
    BY <2>1, <2>2
<1>2. ASSUME CheckFull PROVE QP!Next
  <2>1. QP!CheckFull(Reactor)
    BY <1>2 DEF CheckFull, Q!CheckFull, QP!CheckFull, Q!Full, QP!Full,
                Q!consumerVars, QP!consumerVars
  <2>2. QED
    BY <2>1
<1>3. ASSUME Push PROVE QP!Next
  <2>1. QP!Push(Reactor)
    BY <1>3 DEF Push, Q!Push, QP!Push, Q!Full, QP!Full, Q!Enqueue, QP!Enqueue,
                Q!Broadcast, QP!Broadcast
  <2>2. QED
    BY <2>1
<1>4. ASSUME NEW w \in Worker, GetReq(w) PROVE QP!Next
  <2>1. QP!Pop(w) \/ QP!PopWait(w) \/ QP!PopResume(w)
    BY <1>4 DEF GetReq, Q!Pop, QP!Pop, Q!PopWait, QP!PopWait, Q!PopResume, QP!PopResume,
                Q!TakeFront, QP!TakeFront, Q!producerVars, QP!producerVars
  <2>2. QED
    BY <2>1
<1>5. ASSUME NEW w \in Worker, Send(w) PROVE QP!Next
  <2>1. QP!Finish(w)
    BY <1>5 DEF Send, Q!Finish, QP!Finish, Q!producerVars, QP!producerVars
  <2>2. QED
    BY <2>1
<1>6. ASSUME UNCHANGED queueVars PROVE UNCHANGED QP!vars
  BY <1>6 DEF queueVars, QP!vars, QP!producerVars, QP!consumerVars
<1>7. QED
  BY <1>1, <1>2, <1>3, <1>4, <1>5, <1>6
  DEF Next, ReactorNext, WorkerNext, ClientSend, ClientClose, Accept, CloseFd, Parse,
      GetHandler, Serve, PutHandler, vars

LEMMA PoolStep ==
  ASSUME [Next]_vars
  PROVE  [PP!Next]_(PP!vars)
<1> USE DEF PP!Next
<1>1. ASSUME NEW w \in Worker, GetHandler(w) PROVE PP!Next
  <2>1. PP!Get(w) \/ PP!Wait(w) \/ PP!Resume(w)
    BY <1>1 DEF GetHandler, P!Get, PP!Get, P!Wait, PP!Wait, P!Resume, PP!Resume,
                P!Scan, PP!Scan, P!FindNone, PP!FindNone, P!Take, PP!Take,
                P!FirstFree, PP!FirstFree, P!Free, PP!Free, P!Handler, PP!Handler
  <2>2. QED
    BY <2>1
<1>2. ASSUME NEW w \in Worker, PutHandler(w) PROVE PP!Next
  <2>1. PP!Put(w) \/ PP!PutNull(w)
    BY <1>2 DEF PutHandler, P!Put, PP!Put, P!PutNull, PP!PutNull, P!Signal, PP!Signal,
                P!NoHandler, PP!NoHandler
  <2>2. QED
    BY <2>1
<1>3. ASSUME UNCHANGED poolVars PROVE UNCHANGED PP!vars
  BY <1>3 DEF poolVars, PP!vars
<1>4. QED
  BY <1>1, <1>2, <1>3
  DEF Next, ReactorNext, WorkerNext, ClientSend, ClientClose, Accept, Read, CloseFd,
      CheckFull, Push, GetReq, Parse, Serve, Send, vars

LEMMA PartsIInv ==
  ASSUME QP!IInv, PP!IInv, NetType, StageInv, [Next]_vars
  PROVE  QP!IInv' /\ PP!IInv'
<1>1. QP!IInv'
  BY NoReqFresh, MaxSizeAssumption, QueueStep, QP!NextIInv
<1>2. PP!IsFiniteSet(Worker)
  BY WorkerAssumption DEF IsFiniteSet, PP!IsFiniteSet
<1>3. PP!IInv'
  BY <1>2, HandlerNumAssumption, PoolStep, PP!NextIInv
<1>4. QED
  BY <1>1, <1>3

(* What the queue's own invariant says, in this module's terms.            *)
LEMMA QueueFacts ==
  ASSUME QP!IInv
  PROVE  /\ items \in Seq(Request)
         /\ arrived \subseteq Request /\ rejected \subseteq Request
         /\ ppc \in [{Reactor} -> {"polling", "checking", "pushing"}]
         /\ cur \in [{Reactor} -> Request \cup {NoReq}]
         /\ cpc \in [Worker -> {"out", "waiting", "woken", "working"}]
         /\ got \in [Worker -> Request \cup {NoReq}]
         /\ ppc[Reactor] # "polling" => cur[Reactor] \in Request
         /\ \A w \in Worker : got[w] # NoReq <=> cpc[w] = "working"
BY DEF QP!IInv, QP!TypeOK, QP!ProducerPC, QP!ConsumerPC, QP!RequestInHand

----------------------------------------------------------------------------
(* Types and places in svc.                                                *)
LEMMA NetTypeStep ==
  ASSUME QP!IInv, NetType, SvcType, StageInv, [Next]_vars
  PROVE  NetType'
<1>1. ASSUME NEW c \in Client, ClientSend(c) PROVE NetType'
  <2>1. PICK m \in Content : inbox' = [inbox EXCEPT ![c] = Append(@, m)]
    BY <1>1 DEF ClientSend
  <2>2. inbox' \in [Client -> Seq(Content)]
    BY <2>1, AppendProperties DEF NetType
  <2>3. sent' \in [Client -> 0..ReqNum]
    BY <1>1, ReqNumAssumption DEF ClientSend, NetType
  <2>4. QED
    BY <1>1, <2>2, <2>3 DEF ClientSend, NetType
<1>2. ASSUME NEW c \in Client, ClientClose(c) PROVE NetType'
  BY <1>2 DEF ClientClose, NetType
<1>3. ASSUME NEW c \in Client, Accept(c) PROVE NetType'
  BY <1>3 DEF Accept, NetType
<1>4. ASSUME NEW fd \in Fd, Read(fd) PROVE NetType'
  <2>1. peer[fd] \in Client
    BY <1>4 DEF Read, NetType
  <2>2. inbox' \in [Client -> Seq(Content)]
    BY <1>4, <2>1, HeadTailProperties DEF Read, NetType
  <2>3. QED
    BY <1>4, <2>2 DEF Read, NetType
<1>5. ASSUME NEW fd \in Fd, CloseFd(fd) PROVE NetType'
  BY <1>5 DEF CloseFd, NetType
<1>6. ASSUME NEW w \in Worker, Send(w) PROVE NetType'
  <2> DEFINE c == peer[got[w].fd]
             a == [req |-> got[w], out |-> out[w]]
  <2>1. got[w] \in Request /\ out[w] \in Outcome
    BY <1>6, QueueFacts DEF Send, SvcType, StageInv
  <2>2. c \in Client \cup {NoClient}
    BY <2>1 DEF NetType, Request
  <2>3. CASE c = NoClient \/ c \in closed
    BY <1>6, <2>3 DEF Send, Deliver, NetType
  <2>4. CASE c \in Client
    <3>1. a \in [req : Request, out : Outcome]
      BY <2>1
    <3>2. [replies EXCEPT ![c] = Append(@, a)]
            \in [Client -> Seq([req : Request, out : Outcome])]
      BY <2>4, <3>1, AppendProperties DEF NetType
    <3>3. QED
      BY <1>6, <2>3, <3>2 DEF Send, Deliver, NetType
  <2>5. QED
    BY <2>2, <2>3, <2>4
<1>7. ASSUME UNCHANGED netVars PROVE NetType'
  BY <1>7 DEF netVars, NetType
<1>8. QED
  BY <1>1, <1>2, <1>3, <1>4, <1>5, <1>6, <1>7
  DEF Next, ReactorNext, WorkerNext, CheckFull, Push, GetReq, Parse, GetHandler, Serve,
      PutHandler, vars

LEMMA SvcTypeStep ==
  ASSUME QP!IInv, NetType, SvcType, StageInv, [Next]_vars
  PROVE  SvcType'
<1> USE DEF SvcType, Stage
<1>1. ASSUME NEW w \in Worker, GetReq(w) PROVE SvcType'
  BY <1>1 DEF GetReq, Empty, Outcome, AbsentMode, Modes
<1>2. ASSUME NEW w \in Worker, Parse(w) PROVE SvcType'
  <2>1. got[w] \in Request
    BY <1>2, QueueFacts DEF Parse, StageInv
  <2>2. g_mode' \in {0, 1}
    BY <1>2, <2>1, ModeAssumption DEF Parse, Request, Modes, AbsentMode
  <2>3. out' \in [Worker -> Outcome]
    BY <1>2 DEF Parse, Outcome
  <2>4. QED
    BY <1>2, <2>2, <2>3 DEF Parse
<1>3. ASSUME NEW w \in Worker, Serve(w) PROVE SvcType'
  BY <1>3 DEF Serve, Outcome, AbsentMode, Modes
<1>4. ASSUME NEW w \in Worker, PutHandler(w) \/ Send(w) PROVE SvcType'
  BY <1>4 DEF PutHandler, Send
<1>5. ASSUME UNCHANGED svcVars PROVE SvcType'
  BY <1>5 DEF svcVars
<1>6. QED
  BY <1>1, <1>2, <1>3, <1>4, <1>5
  DEF Next, ReactorNext, WorkerNext, ClientSend, ClientClose, Accept, Read, CloseFd,
      CheckFull, Push, GetHandler, vars

LEMMA StageStep ==
  ASSUME QP!IInv, NetType, SvcType, StageInv, [Next]_vars
  PROVE  StageInv'
<1>1. ASSUME NEW w \in Worker, GetReq(w) PROVE StageInv'
  <2>1. \A v \in Worker : v # w => cpc'[v] = cpc[v]
    BY <1>1, QueueFacts DEF GetReq, Q!Pop, Q!PopWait, Q!PopResume, Q!TakeFront
  <2>2. \A v \in Worker : v # w => stage'[v] = stage[v]
    BY <1>1 DEF GetReq, SvcType
  <2>3. stage'[w] = "idle" <=> cpc'[w] # "working"
    BY <1>1 DEF GetReq, SvcType
  <2>4. QED
    BY <1>1, <2>1, <2>2, <2>3 DEF GetReq, netVars, StageInv
<1>2. ASSUME NEW w \in Worker, Send(w) PROVE StageInv'
  <2>1. cpc' = [cpc EXCEPT ![w] = "out"] /\ stage' = [stage EXCEPT ![w] = "idle"]
    BY <1>2 DEF Send, Q!Finish
  <2>2. \A v \in Worker : stage'[v] = "idle" <=> cpc'[v] # "working"
    BY <2>1, QueueFacts DEF SvcType, StageInv
  <2>3. QED
    BY <1>2, <2>2 DEF Send, StageInv
<1>3. ASSUME NEW w \in Worker, Parse(w) \/ Serve(w) \/ PutHandler(w) PROVE StageInv'
  BY <1>3 DEF Parse, Serve, PutHandler, netVars, queueVars, SvcType, StageInv
<1>4. ASSUME NEW c \in Client, ClientSend(c) PROVE StageInv'
  <2>1. PICK m \in Content : inbox' = [inbox EXCEPT ![c] = Append(@, m)]
    BY <1>4 DEF ClientSend
  <2>2. \A d \in Client : inbox[d] \in Seq(Content) /\ sent[d] \in Nat
    BY DEF NetType
  <2>3. \A d \in Client : Len(inbox'[d]) <= sent'[d]
    BY <1>4, <2>1, <2>2, AppendProperties DEF ClientSend, NetType, StageInv
  <2>4. QED
    BY <1>4, <2>3 DEF ClientSend, svcVars, queueVars, StageInv
<1>5. ASSUME NEW fd \in Fd, Read(fd) PROVE StageInv'
  <2>1. peer[fd] \in Client /\ inbox' = [inbox EXCEPT ![peer[fd]] = Tail(@)]
        /\ inbox[peer[fd]] # <<>>
    BY <1>5 DEF Read, NetType
  <2>2. \A d \in Client : inbox[d] \in Seq(Content) /\ sent[d] \in Nat
    BY DEF NetType
  <2>3. \A d \in Client : Len(inbox'[d]) <= sent[d]
    BY <2>1, <2>2, HeadTailProperties, LenProperties DEF NetType, StageInv
  <2>4. QED
    BY <1>5, <2>3 DEF Read, svcVars, Q!Receive, Q!consumerVars, StageInv
<1>6. ASSUME CheckFull \/ Push PROVE StageInv'
  BY <1>6, QueueFacts DEF CheckFull, Push, Q!CheckFull, Q!Push, Q!consumerVars,
     Q!Broadcast, netVars, svcVars, StageInv
<1>7. ASSUME UNCHANGED <<inbox, sent, stage, cpc>> PROVE StageInv'
  BY <1>7 DEF StageInv
<1>8. QED
  BY <1>1, <1>2, <1>3, <1>4, <1>5, <1>6, <1>7
  DEF Next, ReactorNext, WorkerNext, ClientClose, Accept, CloseFd, GetHandler,
      vars, netVars, svcVars, queueVars

----------------------------------------------------------------------------
(* A request is in one place.                                              *)
LEMMA InFlightPlaces ==
  ASSUME QP!IInv
  PROVE  /\ \A i \in 1..Len(items) : items[i] \in InFlight
         /\ \A w \in Worker : got[w] # NoReq => got[w] \in InFlight
         /\ cur[Reactor] # NoReq => cur[Reactor] \in InFlight
<1>1. \A i \in 1..Len(items) : items[i] \in Request
  BY QueueFacts, ElementOfSeq
<1>2. QED
  BY <1>1, QueueFacts DEF InFlight

(* What each queue call does to the places of the requests.                *)
LEMMA ReadEffect ==
  ASSUME QP!IInv, NEW fd \in Fd, Read(fd)
  PROVE  /\ cur'[Reactor] \notin arrived /\ arrived' = arrived \cup {cur'[Reactor]}
         /\ InFlight' \subseteq InFlight \cup {cur'[Reactor]}
         /\ ppc[Reactor] = "polling" /\ ppc'[Reactor] = "checking"
         /\ UNCHANGED <<items, cpc, got, rejected, failed>>
<1>1. /\ cur'[Reactor] \notin arrived /\ arrived' = arrived \cup {cur'[Reactor]}
      /\ ppc[Reactor] = "polling" /\ ppc'[Reactor] = "checking"
      /\ UNCHANGED <<items, cpc, got, rejected, failed>>
  BY QueueFacts DEF Read, Q!Receive, Q!consumerVars
<1>2. QED
  BY <1>1 DEF InFlight

LEMMA CheckFullEffect ==
  ASSUME QP!IInv, CheckFull
  PROVE  /\ ppc[Reactor] = "checking"
         /\ \/ /\ rejected' = rejected \cup {cur[Reactor]}
               /\ cur'[Reactor] = NoReq /\ ppc'[Reactor] = "polling"
            \/ /\ rejected' = rejected
               /\ cur'[Reactor] = cur[Reactor] /\ ppc'[Reactor] = "pushing"
         /\ InFlight' \subseteq InFlight
         /\ UNCHANGED <<items, arrived, cpc, got, failed>>
<1>1. /\ ppc[Reactor] = "checking"
      /\ \/ /\ rejected' = rejected \cup {cur[Reactor]}
            /\ cur'[Reactor] = NoReq /\ ppc'[Reactor] = "polling"
         \/ /\ rejected' = rejected
            /\ cur'[Reactor] = cur[Reactor] /\ ppc'[Reactor] = "pushing"
      /\ UNCHANGED <<items, arrived, cpc, got, failed>>
  BY QueueFacts DEF CheckFull, Q!CheckFull, Q!consumerVars
<1>2. QED
  BY <1>1, NoReqFresh DEF InFlight

LEMMA PushEffect ==
  ASSUME QP!IInv, Push
  PROVE  /\ ppc[Reactor] = "pushing" /\ ppc'[Reactor] = "polling"
         /\ cur[Reactor] \in Request /\ cur'[Reactor] = NoReq
         /\ \/ failed' # {} /\ items' = items
            \/ failed' = failed /\ items' = Append(items, cur[Reactor])
         /\ InFlight' \subseteq InFlight
         /\ UNCHANGED <<arrived, rejected, got>>
<1>1. /\ ppc[Reactor] = "pushing" /\ ppc'[Reactor] = "polling"
      /\ cur[Reactor] \in Request /\ cur'[Reactor] = NoReq
      /\ \/ failed' # {} /\ items' = items
         \/ failed' = failed /\ items' = Append(items, cur[Reactor])
      /\ UNCHANGED <<arrived, rejected, got>>
  BY QueueFacts DEF Push, Q!Push, Q!Enqueue
<1>2. items' = Append(items, cur[Reactor]) =>
         \A i \in 1..Len(items') : \/ items'[i] = cur[Reactor]
                                   \/ \E j \in 1..Len(items) : items'[i] = items[j]
  BY <1>1, QueueFacts, AppendProperties, LenProperties
<1>3. QED
  BY <1>1, <1>2, NoReqFresh DEF InFlight

LEMMA GetReqEffect ==
  ASSUME QP!IInv, NEW w \in Worker, GetReq(w)
  PROVE  /\ got[w] = NoReq
         /\ \/ UNCHANGED <<items, got>>
            \/ /\ items # <<>> /\ items' = Tail(items)
               /\ got' = [got EXCEPT ![w] = Head(items)]
         /\ InFlight' \subseteq InFlight
         /\ UNCHANGED <<arrived, rejected, failed, ppc, cur>>
<1>1. /\ got[w] = NoReq
      /\ \/ UNCHANGED <<items, got>>
         \/ /\ items # <<>> /\ items' = Tail(items)
            /\ got' = [got EXCEPT ![w] = Head(items)]
      /\ UNCHANGED <<arrived, rejected, failed, ppc, cur>>
  BY QueueFacts DEF GetReq, Q!Pop, Q!PopWait, Q!PopResume, Q!TakeFront, Q!producerVars
<1>2. CASE UNCHANGED <<items, got>>
  BY <1>1, <1>2 DEF InFlight
<1>3. CASE /\ items # <<>> /\ items' = Tail(items)
           /\ got' = [got EXCEPT ![w] = Head(items)]
  <2>1. /\ Head(items) = items[1] /\ 1 \in 1..Len(items)
        /\ \A i \in 1..Len(items') : i + 1 \in 1..Len(items) /\ items'[i] = items[i + 1]
    BY <1>3, QueueFacts, HeadTailProperties, LenProperties
  <2>2. \A v \in Worker : got'[v] = got[v] \/ got'[v] = items[1]
    BY <1>3, <2>1, QueueFacts
  <2>3. QED
    BY <1>1, <2>1, <2>2 DEF InFlight
<1>4. QED
  BY <1>1, <1>2, <1>3

LEMMA SendEffect ==
  ASSUME QP!IInv, NEW w \in Worker, Send(w)
  PROVE  /\ got[w] \in Request /\ got' = [got EXCEPT ![w] = NoReq]
         /\ InFlight' \subseteq InFlight
         /\ UNCHANGED <<items, arrived, rejected, failed, ppc, cur>>
<1>1. /\ got[w] \in Request /\ got' = [got EXCEPT ![w] = NoReq]
      /\ UNCHANGED <<items, arrived, rejected, failed, ppc, cur>>
  BY QueueFacts DEF Send, Q!Finish, Q!producerVars
<1>2. QED
  BY <1>1, NoReqFresh, QueueFacts DEF InFlight

LEMMA OnePlaceStep ==
  ASSUME QP!IInv, QP!IInv', QP!CheckStillValid', OnePlace, [Next]_vars
  PROVE  OnePlace'
<1>0. failed' = {}
  BY DEF QP!CheckStillValid
<1>1. ASSUME NEW fd \in Fd, Read(fd) PROVE OnePlace'
  <2>1. cur'[Reactor] # NoReq
    BY <1>1, ReadEffect, NoReqFresh DEF QP!IInv, QP!RequestInHand
  <2>2. QED
    BY <1>0, <1>1, <2>1, ReadEffect, InFlightPlaces DEF OnePlace
<1>2. ASSUME CheckFull PROVE OnePlace'
  <2>1. IsFiniteSet(rejected \cup {cur[Reactor]})
    BY FS_AddElement DEF OnePlace
  <2>2. cur[Reactor] \in InFlight
    BY <1>2, CheckFullEffect, InFlightPlaces, QueueFacts, NoReqFresh
  <2>3. NoReq \notin rejected'
    BY <1>2, <2>2, CheckFullEffect, QueueFacts, NoReqFresh DEF InFlight
  <2>4. \A i \in 1..Len(items) : items[i] # NoReq
    BY QueueFacts, ElementOfSeq, NoReqFresh
  <2>5. QED
    BY <1>0, <1>2, <2>1, <2>2, <2>3, <2>4, CheckFullEffect DEF OnePlace
<1>3. ASSUME Push PROVE OnePlace'
  <2>1. items' = Append(items, cur[Reactor]) /\ cur[Reactor] \in Request
    BY <1>0, <1>3, PushEffect
  <2>2. /\ Len(items) \in Nat /\ Len(items') = Len(items) + 1
        /\ \A i \in 1..Len(items) : items'[i] = items[i]
        /\ items'[Len(items) + 1] = cur[Reactor]
    BY <2>1, QueueFacts, AppendProperties, LenProperties
  <2>3. \A i \in 1..Len(items') : i \in 1..Len(items) \/ i = Len(items) + 1
    BY <2>2
  <2>4. \A i, j \in 1..Len(items') : items'[i] = items'[j] => i = j
    BY <2>2, <2>3 DEF OnePlace
  <2>5. \A i \in 1..Len(items') : \A w \in Worker : items'[i] # got[w]
    BY <2>1, <2>2, <2>3, NoReqFresh DEF OnePlace
  <2>6. \A i \in 1..Len(items') : items'[i] # NoReq
    BY <2>1, <2>2, <2>3, QueueFacts, ElementOfSeq, NoReqFresh
  <2>7. InFlight' \cup rejected' \subseteq arrived' /\ cur'[Reactor] \notin rejected'
    BY <1>3, PushEffect, QueueFacts, NoReqFresh DEF OnePlace
  <2>8. QED
    BY <1>0, <1>3, <2>4, <2>5, <2>6, <2>7, PushEffect DEF OnePlace
<1>4. ASSUME NEW w \in Worker, GetReq(w) PROVE OnePlace'
  <2>1. CASE UNCHANGED <<items, got>>
    BY <1>0, <1>4, <2>1, GetReqEffect DEF OnePlace
  <2>2. CASE /\ items # <<>> /\ items' = Tail(items)
             /\ got' = [got EXCEPT ![w] = Head(items)]
    <3>1. /\ Head(items) = items[1] /\ 1 \in 1..Len(items) /\ items[1] \in Request
          /\ \A i \in 1..Len(items') :
                i \in Nat \ {0} /\ i + 1 \in 1..Len(items) /\ items'[i] = items[i + 1]
      BY <2>2, QueueFacts, HeadTailProperties, LenProperties, ElementOfSeq
    <3>2. \A v \in Worker : got'[v] = IF v = w THEN items[1] ELSE got[v]
      BY <2>2, <3>1, QueueFacts
    <3>3. \A i, j \in 1..Len(items') : items'[i] = items'[j] => i = j
      BY <3>1 DEF OnePlace
    <3>4. \A u, v \in Worker : got'[u] = got'[v] /\ got'[u] # NoReq => u = v
      BY <3>1, <3>2 DEF OnePlace
    <3>5. \A i \in 1..Len(items') : \A v \in Worker : items'[i] # got'[v]
      BY <3>1, <3>2 DEF OnePlace
    <3>6. \A i \in 1..Len(items') : items'[i] # cur[Reactor]
      BY <3>1 DEF OnePlace
    <3>7. \A v \in Worker : got'[v] = cur[Reactor] => got'[v] = NoReq
      BY <3>1, <3>2 DEF OnePlace
    <3>8. QED
      BY <1>0, <1>4, <3>3, <3>4, <3>5, <3>6, <3>7, GetReqEffect DEF OnePlace
  <2>3. QED
    BY <1>4, <2>1, <2>2, GetReqEffect
<1>5. ASSUME NEW w \in Worker, Send(w) PROVE OnePlace'
  <2>1. \A v \in Worker : got'[v] = IF v = w THEN NoReq ELSE got[v]
    BY <1>5, SendEffect, QueueFacts
  <2>2. \A i \in 1..Len(items) : items[i] # NoReq
    BY QueueFacts, ElementOfSeq, NoReqFresh
  <2>3. QED
    BY <1>0, <1>5, <2>1, <2>2, SendEffect DEF OnePlace
<1>6. ASSUME UNCHANGED queueVars PROVE OnePlace'
  BY <1>6 DEF queueVars, OnePlace, InFlight
<1>7. QED
  BY <1>1, <1>2, <1>3, <1>4, <1>5, <1>6
  DEF Next, ReactorNext, WorkerNext, ClientSend, ClientClose, Accept, CloseFd, Parse,
      GetHandler, Serve, PutHandler, vars

(* Only the reactor brings in requests, and only new ones.                 *)
LEMMA FlightStep ==
  ASSUME QP!IInv, [Next]_vars
  PROVE  /\ arrived \subseteq arrived'
         /\ \A r \in InFlight' : r \in InFlight \/ r \notin arrived
<1>1. ASSUME NEW fd \in Fd, Read(fd)
      PROVE  arrived \subseteq arrived' /\ InFlight' \ InFlight \subseteq InFlight' \ arrived
  BY <1>1, ReadEffect
<1>2. ASSUME UNCHANGED queueVars
      PROVE  arrived \subseteq arrived' /\ InFlight' \subseteq InFlight
  BY <1>2 DEF queueVars, InFlight
<1>3. QED
  BY <1>1, <1>2, CheckFullEffect, PushEffect, GetReqEffect, SendEffect
  DEF Next, ReactorNext, WorkerNext, ClientSend, ClientClose, Accept, CloseFd, Parse,
      GetHandler, Serve, PutHandler, vars

(* The reply of a worker, if there is anybody behind the descriptor.       *)
LEMMA SendReplies ==
  ASSUME QP!IInv, NetType, SvcType, StageInv, NEW w \in Worker, Send(w)
  PROVE  /\ got[w] \in Request
         /\ LET c == peer[got[w].fd]
            IN  \/ replies' = replies /\ (c = NoClient \/ c \in closed)
               \/ /\ c \in Client \ closed
                  /\ \A d \in Client \ {c} : replies'[d] = replies[d]
                  /\ Len(replies'[c]) = Len(replies[c]) + 1
                  /\ \A k \in 1..Len(replies[c]) : replies'[c][k] = replies[c][k]
                  /\ replies'[c][Len(replies[c]) + 1].req = got[w]
<1> DEFINE c == peer[got[w].fd]
           a == [req |-> got[w], out |-> out[w]]
<1>1. got[w] \in Request /\ out[w] \in Outcome
  BY SendEffect DEF SvcType
<1>2. c \in Client \cup {NoClient}
  BY <1>1 DEF NetType, Request
<1>3. CASE c = NoClient \/ c \in closed
  BY <1>1, <1>3 DEF Send, Deliver
<1>4. CASE c \in Client \ closed
  <2>1. replies' = [replies EXCEPT ![c] = Append(@, a)]
    BY <1>4, NoClientAssumption DEF Send, Deliver
  <2>2. a \in [req : Request, out : Outcome] /\ a.req = got[w]
    BY <1>1
  <2> HIDE DEF a, c
  <2>3. replies[c] \in Seq([req : Request, out : Outcome])
    BY <1>4 DEF NetType
  <2>4. replies'[c] = Append(replies[c], a) /\ \A d \in Client \ {c} : replies'[d] = replies[d]
    BY <1>4, <2>1 DEF NetType
  <2>5. /\ Len(replies'[c]) = Len(replies[c]) + 1
        /\ \A k \in 1..Len(replies[c]) : replies'[c][k] = replies[c][k]
        /\ replies'[c][Len(replies[c]) + 1] = a
    BY <2>2, <2>3, <2>4, AppendProperties
  <2>6. QED
    BY <1>1, <1>4, <2>2, <2>4, <2>5 DEF c
<1>5. QED
  BY <1>2, <1>3, <1>4

LEMMA OneReplyStep ==
  ASSUME QP!IInv, NetType, SvcType, StageInv, OnePlace, OnePlace', OneReply, [Next]_vars
  PROVE  OneReply'
<1>1. ASSUME UNCHANGED replies PROVE OneReply'
  BY <1>1, FlightStep DEF OneReply, AtMostOneReply, Replied
<1>2. ASSUME NEW w \in Worker, Send(w) PROVE OneReply'
  <2> DEFINE c == peer[got[w].fd]
             n == Len(replies[c]) + 1
  <2>1. CASE replies' = replies
    BY <1>1, <2>1
  <2>2. CASE /\ c \in Client
             /\ \A d \in Client \ {c} : replies'[d] = replies[d]
             /\ Len(replies'[c]) = Len(replies[c]) + 1
             /\ \A k \in 1..Len(replies[c]) : replies'[c][k] = replies[c][k]
             /\ replies'[c][Len(replies[c]) + 1].req = got[w]
    <3>1. got[w] \in InFlight /\ got[w] \in Request /\ got[w] \in arrived
      BY <1>2, SendEffect, InFlightPlaces, NoReqFresh DEF OnePlace
    <3>2. got[w] \notin InFlight'
      <4>1. \A v \in Worker : got'[v] = IF v = w THEN NoReq ELSE got[v]
        BY <1>2, SendEffect, QueueFacts
      <4>2. got[w] # NoReq /\ items' = items /\ cur' = cur
        BY <1>2, <3>1, SendEffect, NoReqFresh
      <4>3. QED
        BY <3>1, <4>1, <4>2 DEF OnePlace, InFlight
    <3>3. ~Replied(got[w])
      BY <3>1 DEF OneReply
    <3>4. \A d \in Client : Len(replies[d]) \in Nat
      BY LenProperties DEF NetType
    <3> HIDE DEF c
    <3>5. ASSUME NEW d \in Client, NEW k \in 1..Len(replies'[d])
          PROVE  \/ k \in 1..Len(replies[d]) /\ replies'[d][k] = replies[d][k]
                 \/ d = c /\ k = n /\ replies'[d][k].req = got[w]
      BY <2>2, <3>4
    <3>6. AtMostOneReply'
      <4>1. SUFFICES ASSUME NEW d \in Client, NEW e \in Client,
                            NEW i \in 1..Len(replies'[d]), NEW j \in 1..Len(replies'[e]),
                            replies'[d][i].req = replies'[e][j].req
                     PROVE  d = e /\ i = j
        BY DEF AtMostOneReply
      <4>2. CASE /\ i \in 1..Len(replies[d]) /\ replies'[d][i] = replies[d][i]
                 /\ j \in 1..Len(replies[e]) /\ replies'[e][j] = replies[e][j]
        BY <4>1, <4>2 DEF OneReply, AtMostOneReply
      <4>3. CASE /\ i \in 1..Len(replies[d]) /\ replies'[d][i] = replies[d][i]
                 /\ e = c /\ j = n /\ replies'[e][j].req = got[w]
        BY <3>3, <4>1, <4>3 DEF Replied
      <4>4. CASE /\ d = c /\ i = n /\ replies'[d][i].req = got[w]
                 /\ j \in 1..Len(replies[e]) /\ replies'[e][j] = replies[e][j]
        BY <3>3, <4>1, <4>4 DEF Replied
      <4>5. QED
        BY <3>5, <4>2, <4>3, <4>4
    <3>7. ASSUME NEW r \in Request, Replied(r)' PROVE r \in arrived' /\ r \notin InFlight'
      <4>1. Replied(r) \/ r = got[w]
        BY <3>5, <3>7 DEF Replied
      <4>2. QED
        BY <3>1, <3>2, <4>1, FlightStep DEF OneReply
    <3>8. QED
      BY <3>6, <3>7 DEF OneReply
  <2>3. QED
    BY <1>2, <2>1, <2>2, SendReplies
<1>3. QED
  BY <1>1, <1>2
  DEF Next, ReactorNext, WorkerNext, ClientSend, ClientClose, Accept, Read, CloseFd,
      CheckFull, Push, GetReq, Parse, GetHandler, Serve, PutHandler, vars, netVars

----------------------------------------------------------------------------
(* Counting.                                                               *)
One(b) == IF b THEN 1 ELSE 0

LEMMA FromFinite ==
  ASSUME NEW s \in Seq(Request), NEW c
  PROVE  IsFiniteSet(From(s, c)) /\ Cardinality(From(s, c)) \in Nat
<1>1. Len(s) \in Nat
  BY LenProperties
<1>2. IsFiniteSet(1..Len(s))
  BY <1>1, FS_Interval
<1>3. From(s, c) \in SUBSET (1..Len(s))
  BY DEF From
<1>4. QED
  BY <1>2, <1>3, FS_Subset, FS_CardinalityType

LEMMA ServedByFinite ==
  ASSUME NEW c
  PROVE  IsFiniteSet(ServedBy(c)) /\ Cardinality(ServedBy(c)) \in Nat
<1>1. ServedBy(c) \in SUBSET Worker
  BY DEF ServedBy
<1>2. QED
  BY <1>1, WorkerAssumption, FS_Subset, FS_CardinalityType

LEMMA CountAppend ==
  ASSUME NEW s \in Seq(Request), NEW r \in Request, NEW c
  PROVE  /\ Cardinality(From(s, c)) \in Nat
         /\ Cardinality(From(Append(s, r), c)) = Cardinality(From(s, c)) + One(r.from = c)
<1> DEFINE t == Append(s, r)
<1>1. /\ Len(s) \in Nat /\ Len(t) = Len(s) + 1
      /\ \A i \in 1..Len(s) : t[i] = s[i]
      /\ t[Len(s) + 1] = r
  BY AppendProperties, LenProperties
<1> HIDE DEF t
<1>2. IsFiniteSet(From(s, c)) /\ Cardinality(From(s, c)) \in Nat
  BY FromFinite
<1>3. Len(s) + 1 \notin From(s, c)
  BY <1>1 DEF From
<1>4. CASE r.from = c
  <2>1. From(t, c) = From(s, c) \cup {Len(s) + 1}
    BY <1>1, <1>4 DEF From
  <2>2. QED
    BY <1>2, <1>3, <1>4, <2>1, FS_AddElement DEF t, One
<1>5. CASE r.from # c
  <2>1. From(t, c) = From(s, c)
    BY <1>1, <1>5 DEF From
  <2>2. QED
    BY <1>2, <1>5, <2>1 DEF t, One
<1>6. QED
  BY <1>2, <1>4, <1>5

LEMMA CountTail ==
  ASSUME NEW s \in Seq(Request), s # <<>>, NEW c
  PROVE  /\ Cardinality(From(Tail(s), c)) \in Nat
         /\ Cardinality(From(s, c)) = Cardinality(From(Tail(s), c)) + One(Head(s).from = c)
<1> DEFINE t == Tail(s)
           R == From(s, c) \ {1}
<1>1. /\ Len(s) \in Nat \ {0} /\ Len(t) = Len(s) - 1
      /\ \A i \in 1..Len(t) : t[i] = s[i + 1]
      /\ Head(s) = s[1]
  BY HeadTailProperties, LenProperties, EmptySeq
<1> HIDE DEF t
<1>2. /\ IsFiniteSet(From(s, c)) /\ IsFiniteSet(From(t, c))
      /\ Cardinality(From(s, c)) \in Nat /\ Cardinality(From(t, c)) \in Nat
  <2>1. t \in Seq(Request)
    BY HeadTailProperties DEF t
  <2>2. QED
    BY <2>1, FromFinite
<1>3. Cardinality(From(t, c)) = Cardinality(R)
  <2> DEFINE f == [i \in From(t, c) |-> i + 1]
  <2>1. \A i \in From(t, c) : i + 1 \in R
    BY <1>1 DEF From
  <2>2. \A j \in R : j - 1 \in From(t, c) /\ (j - 1) + 1 = j
    BY <1>1 DEF From
  <2>3. \A i, j \in From(t, c) : i + 1 = j + 1 => i = j
    BY DEF From
  <2> HIDE DEF R
  <2>4. f \in Bijection(From(t, c), R)
    BY <2>1, <2>2, <2>3 DEF Bijection, Injection, Surjection, IsInjective
  <2> HIDE DEF f
  <2>5. ExistsBijection(From(t, c), R)
    BY <2>4 DEF ExistsBijection
  <2>6. QED
    BY <1>2, <2>5, FS_Bijection
<1>4. Cardinality(R) = Cardinality(From(s, c)) - One(s[1].from = c)
  <2>1. 1 \in From(s, c) <=> s[1].from = c
    BY <1>1 DEF From
  <2>2. Cardinality(R) = IF 1 \in From(s, c) THEN Cardinality(From(s, c)) - 1
                         ELSE Cardinality(From(s, c))
    BY <1>2, FS_RemoveElement
  <2>3. QED
    BY <1>2, <2>1, <2>2 DEF One
<1>5. QED
  BY <1>1, <1>2, <1>3, <1>4 DEF t, One

(* A worker takes a request, or is done with it.                           *)
LEMMA CountServed ==
  ASSUME got \in [Worker -> Request \cup {NoReq}], NEW w \in Worker, NEW c \in Client
  PROVE  /\ Cardinality(ServedBy(c)) \in Nat
         /\ \A r \in Request : got[w] = NoReq /\ got' = [got EXCEPT ![w] = r] =>
                Cardinality(ServedBy(c)') = Cardinality(ServedBy(c)) + One(r.from = c)
         /\ got[w] \in Request /\ got' = [got EXCEPT ![w] = NoReq] =>
                Cardinality(ServedBy(c)) = Cardinality(ServedBy(c)') + One(got[w].from = c)
                /\ Cardinality(ServedBy(c)') \in Nat
<1>1. IsFiniteSet(ServedBy(c)) /\ Cardinality(ServedBy(c)) \in Nat
  BY ServedByFinite
<1>2. ASSUME NEW r \in Request, got[w] = NoReq, got' = [got EXCEPT ![w] = r]
      PROVE  Cardinality(ServedBy(c)') = Cardinality(ServedBy(c)) + One(r.from = c)
  <2>1. w \notin ServedBy(c)
    BY <1>2, NoReqFresh DEF ServedBy
  <2>2. CASE r.from = c
    <3>1. ServedBy(c)' = ServedBy(c) \cup {w}
      BY <1>2, <2>2 DEF ServedBy
    <3>2. QED
      BY <1>1, <2>1, <2>2, <3>1, FS_AddElement DEF One
  <2>3. CASE r.from # c
    <3>1. ServedBy(c)' = ServedBy(c)
      BY <1>2, <2>1, <2>3 DEF ServedBy
    <3>2. QED
      BY <1>1, <2>3, <3>1 DEF One
  <2>4. QED
    BY <2>2, <2>3
<1>3. ASSUME got[w] \in Request, got' = [got EXCEPT ![w] = NoReq]
      PROVE  /\ Cardinality(ServedBy(c)) = Cardinality(ServedBy(c)') + One(got[w].from = c)
             /\ Cardinality(ServedBy(c)') \in Nat
  <2>1. ServedBy(c)' = ServedBy(c) \ {w}
    BY <1>3, NoReqFresh DEF ServedBy
  <2>2. w \in ServedBy(c) <=> got[w].from = c
    BY DEF ServedBy
  <2>3. Cardinality(ServedBy(c)') \in Nat
    BY <1>1, <2>1, FS_RemoveElement, FS_CardinalityType
  <2>4. Cardinality(ServedBy(c) \ {w}) = IF w \in ServedBy(c) THEN Cardinality(ServedBy(c)) - 1
                                         ELSE Cardinality(ServedBy(c))
    BY <1>1, FS_RemoveElement
  <2>5. QED
    BY <1>1, <2>1, <2>2, <2>3, <2>4 DEF One
<1>4. QED
  BY <1>1, <1>2, <1>3

LEMMA CountTurned ==
  ASSUME OnePlace, NEW c
  PROVE  /\ Cardinality(Turned(c)) \in Nat
         /\ rejected' = rejected /\ failed' = {} => Turned(c)' = Turned(c)
         /\ rejected' = rejected \cup {cur[Reactor]} /\ failed' = {} =>
               Cardinality(Turned(c)') = Cardinality(Turned(c)) + One(cur[Reactor].from = c)
<1>1. failed = {} /\ cur[Reactor] \notin rejected /\ IsFiniteSet(rejected)
  BY DEF OnePlace
<1>2. Turned(c) \in SUBSET rejected
  BY <1>1 DEF Turned
<1>3. IsFiniteSet(Turned(c)) /\ Cardinality(Turned(c)) \in Nat
  BY <1>1, <1>2, FS_Subset, FS_CardinalityType
<1>4. rejected' = rejected /\ failed' = {} => Turned(c)' = Turned(c)
  BY <1>1 DEF Turned
<1>5. ASSUME rejected' = rejected \cup {cur[Reactor]}, failed' = {}
      PROVE  Cardinality(Turned(c)') = Cardinality(Turned(c)) + One(cur[Reactor].from = c)
  <2>1. CASE cur[Reactor].from = c
    <3>1. Turned(c)' = Turned(c) \cup {cur[Reactor]} /\ cur[Reactor] \notin Turned(c)
      BY <1>1, <1>5, <2>1 DEF Turned
    <3>2. QED
      BY <1>3, <2>1, <3>1, FS_AddElement DEF One
  <2>2. CASE cur[Reactor].from # c
    <3>1. Turned(c)' = Turned(c)
      BY <1>1, <1>5, <2>2 DEF Turned
    <3>2. QED
      BY <1>3, <2>2, <3>1 DEF One
  <2>3. QED
    BY <2>1, <2>2
<1>6. QED
  BY <1>3, <1>4, <1>5

(* The sum of NothingLost.                                                 *)
Places(c) == Len(replies[c]) + Len(inbox[c]) + InReactor(c) + Cardinality(From(items, c))
             + Cardinality(ServedBy(c)) + Cardinality(Turned(c))

LEMMA LostIsPlaces == NothingLost <=> (~LeftEarly => \A c \in Client : sent[c] = Places(c))
BY DEF NothingLost, Places, InReactor, From, ServedBy, Turned

LEMMA CountTypes ==
  ASSUME QP!IInv, NetType, OnePlace, NEW c \in Client
  PROVE  /\ Len(replies[c]) \in Nat /\ Len(inbox[c]) \in Nat /\ InReactor(c) \in {0, 1}
         /\ Cardinality(From(items, c)) \in Nat /\ Cardinality(ServedBy(c)) \in Nat
         /\ Cardinality(Turned(c)) \in Nat
<1>1. Len(replies[c]) \in Nat /\ Len(inbox[c]) \in Nat
  BY LenProperties DEF NetType
<1>2. Cardinality(From(items, c)) \in Nat
  BY QueueFacts, FromFinite
<1>3. Cardinality(ServedBy(c)) \in Nat
  BY ServedByFinite
<1>4. QED
  BY <1>1, <1>2, <1>3, CountTurned DEF InReactor

(* Who is waited for in one of the places is owed a reply.                 *)
LEMMA InFlightCounts ==
  ASSUME QP!IInv, NetType, OnePlace, NEW r \in InFlight
  PROVE  r.from \in Client /\ Places(r.from) > Len(replies[r.from])
<1> DEFINE c == r.from
<1>1. r \in Request /\ c \in Client
  BY DEF InFlight, Request
<1>2. /\ Len(replies[c]) \in Nat /\ Len(inbox[c]) \in Nat /\ InReactor(c) \in {0, 1}
      /\ Cardinality(From(items, c)) \in Nat /\ Cardinality(ServedBy(c)) \in Nat
      /\ Cardinality(Turned(c)) \in Nat
  BY <1>1, CountTypes
<1>3. \/ InReactor(c) # 0
      \/ Cardinality(From(items, c)) # 0
      \/ Cardinality(ServedBy(c)) # 0
  <2>1. CASE cur[Reactor] = r
    BY <1>1, <2>1 DEF InReactor
  <2>2. CASE \E i \in 1..Len(items) : items[i] = r
    <3>1. From(items, c) # {}
      BY <2>2 DEF From
    <3>2. QED
      BY <3>1, QueueFacts, FromFinite, FS_EmptySet
  <2>3. CASE \E w \in Worker : got[w] = r
    <3>1. ServedBy(c) # {}
      BY <2>3 DEF ServedBy
    <3>2. QED
      BY <3>1, ServedByFinite, FS_EmptySet
  <2>4. QED
    BY <2>1, <2>2, <2>3 DEF InFlight
<1> HIDE DEF c
<1>4. Places(c) > Len(replies[c])
  <2> DEFINE m == Len(replies[c])
             n == Len(inbox[c])
             i == InReactor(c)
             q == Cardinality(From(items, c))
             s == Cardinality(ServedBy(c))
             t == Cardinality(Turned(c))
  <2>1. /\ m \in Nat /\ n \in Nat /\ i \in Nat /\ q \in Nat /\ s \in Nat /\ t \in Nat
        /\ i # 0 \/ q # 0 \/ s # 0
    BY <1>2, <1>3
  <2>2. Places(c) = m + n + i + q + s + t
    BY DEF Places
  <2> HIDE DEF m, n, i, q, s, t
  <2>3. Places(c) > m
    BY <2>1, <2>2
  <2>4. QED
    BY <2>3 DEF m
<1>5. QED
  BY <1>1, <1>4 DEF c

----------------------------------------------------------------------------
(* Step by step: what moves a request keeps the sum of the places, and     *)
(* what sends one adds to both sides.                                      *)
LEMMA ReactorCount ==
  ASSUME QP!IInv, NEW c \in Client
  PROVE  /\ InReactor(c) = One(cur[Reactor] # NoReq /\ cur[Reactor].from = c)
         /\ InReactor(c)' = One(cur'[Reactor] \in Request /\ cur'[Reactor].from = c)
BY QueueFacts, NoReqFresh DEF InReactor, One

LEMMA ReadCounts ==
  ASSUME QP!IInv, NetType, StageInv, OnePlace, OnePlace', NEW fd \in Fd, Read(fd),
         NEW c \in Client, sent[c] = Places(c)
  PROVE  sent'[c] = Places(c)'
<1> DEFINE d == peer[fd]
           m == Len(replies[c])
           n == Len(inbox[c])
           n1 == Len(inbox'[c])
           i == InReactor(c)
           i1 == InReactor(c)'
           q == Cardinality(From(items, c))
           s == Cardinality(ServedBy(c))
           t == Cardinality(Turned(c))
<1>1. m \in Nat /\ n \in Nat /\ q \in Nat /\ s \in Nat /\ t \in Nat
  BY CountTypes
<1>2. UNCHANGED <<sent, replies, items, got, rejected, failed>>
  BY ReadEffect DEF Read
<1>3. i = 0 /\ i1 = One(d = c)
  <2>1. cur[Reactor] = NoReq
    BY DEF Read, Polling, OnePlace
  <2>2. cur'[Reactor] \in Request /\ cur'[Reactor].from = d
    BY ReadRequest, QueueFacts DEF Read, Q!Receive
  <2>3. QED
    BY <2>1, <2>2, ReactorCount DEF One
<1>4. n1 \in Nat /\ n = n1 + One(d = c)
  <2>1. d \in Client /\ inbox[d] # <<>> /\ inbox' = [inbox EXCEPT ![d] = Tail(@)]
    BY DEF Read, NetType
  <2>2. inbox[c] \in Seq(Content) /\ inbox'[c] = IF d = c THEN Tail(inbox[c]) ELSE inbox[c]
    BY <2>1 DEF NetType
  <2>3. CASE d = c
    <3>1. inbox[c] # <<>> /\ inbox'[c] = Tail(inbox[c])
      BY <2>1, <2>2, <2>3
    <3>2. Len(inbox'[c]) = Len(inbox[c]) - 1 /\ Len(inbox'[c]) \in Nat
      BY <2>2, <3>1, HeadTailProperties, LenProperties
    <3>3. QED
      BY <1>1, <2>3, <3>2 DEF One
  <2>4. CASE d # c
    BY <1>1, <2>2, <2>4 DEF One
  <2>5. QED
    BY <2>3, <2>4
<1>5. t = Cardinality(Turned(c)')
  BY <1>2 DEF Turned
<1>6. Places(c) = m + n + i + q + s + t /\ Places(c)' = m + n1 + i1 + q + s + t
  BY <1>2, <1>5 DEF Places, From, ServedBy
<1> HIDE DEF m, n, n1, i, i1, q, s, t, d
<1>7. One(d = c) \in Nat
  BY DEF One
<1>8. Places(c)' = Places(c)
  BY <1>1, <1>3, <1>4, <1>6, <1>7
<1>9. QED
  BY <1>2, <1>8

LEMMA CheckFullCounts ==
  ASSUME QP!IInv, NetType, OnePlace, OnePlace', CheckFull,
         NEW c \in Client, sent[c] = Places(c)
  PROVE  sent'[c] = Places(c)'
<1> DEFINE m == Len(replies[c])
           n == Len(inbox[c])
           i == InReactor(c)
           i1 == InReactor(c)'
           q == Cardinality(From(items, c))
           s == Cardinality(ServedBy(c))
           t == Cardinality(Turned(c))
           t1 == Cardinality(Turned(c)')
           b == One(cur[Reactor].from = c)
<1>1. m \in Nat /\ n \in Nat /\ q \in Nat /\ s \in Nat /\ t \in Nat
  BY CountTypes
<1>2. UNCHANGED <<sent, replies, inbox, items, got, failed>> /\ failed' = {}
  BY CheckFullEffect DEF CheckFull, netVars, OnePlace
<1>3. cur[Reactor] # NoReq /\ i = b
  BY CheckFullEffect, ReactorCount, QueueFacts, NoReqFresh DEF One
<1>4. i1 + t1 = i + t /\ i1 \in Nat /\ t1 \in Nat
  <2>1. CASE rejected' = rejected \cup {cur[Reactor]} /\ cur'[Reactor] = NoReq
    <3>1. i1 = 0
      BY <2>1, ReactorCount, NoReqFresh DEF One
    <3>2. t1 = t + b
      BY <1>2, <2>1, CountTurned
    <3> HIDE DEF i, i1, t, t1
    <3>3. QED
      BY <1>1, <1>3, <3>1, <3>2 DEF One
  <2>2. CASE rejected' = rejected /\ cur'[Reactor] = cur[Reactor]
    <3>1. i1 = i
      BY <2>2 DEF InReactor
    <3>2. t1 = t
      BY <1>2, <2>2, CountTurned
    <3> HIDE DEF i, i1, t, t1
    <3>3. QED
      BY <1>1, <1>3, <3>1, <3>2 DEF One
  <2>3. QED
    BY <2>1, <2>2, CheckFullEffect
<1>5. Places(c) = m + n + i + q + s + t /\ Places(c)' = m + n + i1 + q + s + t1
  BY <1>2 DEF Places, From, ServedBy
<1>6. i \in Nat
  BY <1>3 DEF One
<1> HIDE DEF m, n, i, i1, q, s, t, t1
<1>7. Places(c)' = Places(c)
  BY <1>1, <1>4, <1>5, <1>6
<1>8. QED
  BY <1>2, <1>7

LEMMA PushCounts ==
  ASSUME QP!IInv, NetType, OnePlace, OnePlace', Push,
         NEW c \in Client, sent[c] = Places(c)
  PROVE  sent'[c] = Places(c)'
<1> DEFINE m == Len(replies[c])
           n == Len(inbox[c])
           i == InReactor(c)
           i1 == InReactor(c)'
           q == Cardinality(From(items, c))
           q1 == Cardinality(From(items', c))
           s == Cardinality(ServedBy(c))
           t == Cardinality(Turned(c))
           b == One(cur[Reactor].from = c)
<1>1. m \in Nat /\ n \in Nat /\ q \in Nat /\ s \in Nat /\ t \in Nat
  BY CountTypes
<1>2. UNCHANGED <<sent, replies, inbox, got, rejected, failed>> /\ failed' = {}
  BY PushEffect DEF Push, netVars, OnePlace
<1>3. cur[Reactor] # NoReq /\ i = b /\ i1 = 0
  BY PushEffect, ReactorCount, NoReqFresh DEF One
<1>4. q1 = q + b
  <2>1. items' = Append(items, cur[Reactor]) /\ cur[Reactor] \in Request
    BY <1>2, PushEffect
  <2>2. QED
    BY <2>1, CountAppend, QueueFacts
<1>5. t = Cardinality(Turned(c)')
  BY <1>2 DEF Turned
<1>6. Places(c) = m + n + i + q + s + t /\ Places(c)' = m + n + i1 + q1 + s + t
  BY <1>2, <1>5 DEF Places, From, ServedBy
<1>7. b \in Nat
  BY DEF One
<1> HIDE DEF m, n, i, i1, q, q1, s, t, b
<1>8. Places(c)' = Places(c)
  BY <1>1, <1>3, <1>4, <1>6, <1>7
<1>9. QED
  BY <1>2, <1>8

LEMMA GetReqCounts ==
  ASSUME QP!IInv, NetType, OnePlace, NEW w \in Worker, GetReq(w),
         NEW c \in Client, sent[c] = Places(c)
  PROVE  sent'[c] = Places(c)'
<1> DEFINE m == Len(replies[c])
           n == Len(inbox[c])
           i == InReactor(c)
           q == Cardinality(From(items, c))
           q1 == Cardinality(From(items', c))
           s == Cardinality(ServedBy(c))
           s1 == Cardinality(ServedBy(c)')
           t == Cardinality(Turned(c))
           b == One(Head(items).from = c)
<1>1. m \in Nat /\ n \in Nat /\ i \in Nat /\ q \in Nat /\ s \in Nat /\ t \in Nat
  BY CountTypes
<1>2. UNCHANGED <<sent, replies, inbox, rejected, failed, cur>>
  BY GetReqEffect DEF GetReq, netVars
<1>3. q1 + s1 = q + s /\ q1 \in Nat /\ s1 \in Nat
  <2>1. CASE UNCHANGED <<items, got>>
    <3>1. q1 = q /\ s1 = s
      BY <2>1 DEF From, ServedBy
    <3>2. QED
      BY <1>1, <3>1
  <2>2. CASE /\ items # <<>> /\ items' = Tail(items)
             /\ got' = [got EXCEPT ![w] = Head(items)]
    <3>1. Head(items) \in Request /\ items \in Seq(Request) /\ got[w] = NoReq
      BY <2>2, QueueFacts, HeadTailProperties, GetReqEffect
    <3>2. q = q1 + b /\ q1 \in Nat
      BY <2>2, <3>1, CountTail
    <3>3. s1 = s + b
      BY <2>2, <3>1, QueueFacts, CountServed
    <3>4. b \in Nat
      BY DEF One
    <3> HIDE DEF q, q1, s, s1, b
    <3>5. QED
      BY <1>1, <3>2, <3>3, <3>4
  <2>3. QED
    BY <2>1, <2>2, GetReqEffect
<1>4. Places(c) = m + n + i + q + s + t /\ Places(c)' = m + n + i + q1 + s1 + t
  BY <1>2 DEF Places, InReactor, Turned, From
<1> HIDE DEF m, n, i, q, q1, s, s1, t
<1>5. Places(c)' = Places(c)
  BY <1>1, <1>3, <1>4
<1>6. QED
  BY <1>2, <1>5

(* The reply is on its way to the client whose request leaves the worker.  *)
LEMMA SendCounts ==
  ASSUME QP!IInv, NetType, SvcType, StageInv, OnePlace, NEW w \in Worker, Send(w),
         peer[got[w].fd] = got[w].from, got[w].from \notin closed,
         NEW c \in Client, sent[c] = Places(c)
  PROVE  sent'[c] = Places(c)'
<1> DEFINE m == Len(replies[c])
           m1 == Len(replies'[c])
           n == Len(inbox[c])
           i == InReactor(c)
           q == Cardinality(From(items, c))
           s == Cardinality(ServedBy(c))
           s1 == Cardinality(ServedBy(c)')
           t == Cardinality(Turned(c))
           b == One(got[w].from = c)
<1>1. m \in Nat /\ n \in Nat /\ i \in Nat /\ q \in Nat /\ s \in Nat /\ t \in Nat
  BY CountTypes
<1>2. UNCHANGED <<sent, inbox, items, rejected, failed, cur>>
  BY SendEffect DEF Send
<1>3. got[w] \in Request /\ got' = [got EXCEPT ![w] = NoReq]
  BY SendEffect
<1>4. s = s1 + b /\ s1 \in Nat
  BY <1>3, QueueFacts, CountServed
<1>5. m1 = m + b
  <2>1. got[w].from \in Client
    BY <1>3 DEF Request
  <2>2. /\ \A d \in Client \ {got[w].from} : replies'[d] = replies[d]
        /\ Len(replies'[got[w].from]) = Len(replies[got[w].from]) + 1
    BY <2>1, NoClientAssumption, SendReplies
  <2>3. CASE got[w].from = c
    BY <2>2, <2>3 DEF One
  <2>4. CASE got[w].from # c
    BY <1>1, <2>2, <2>4 DEF One
  <2>5. QED
    BY <2>3, <2>4
<1>6. Places(c) = m + n + i + q + s + t /\ Places(c)' = m1 + n + i + q + s1 + t
  BY <1>2 DEF Places, InReactor, Turned, From
<1>7. b \in Nat
  BY DEF One
<1> HIDE DEF m, m1, n, i, q, s, s1, t, b
<1>8. Places(c)' = Places(c)
  BY <1>1, <1>4, <1>5, <1>6, <1>7
<1>9. QED
  BY <1>2, <1>8

LEMMA ClientSendCounts ==
  ASSUME QP!IInv, NetType, OnePlace, NEW d \in Client, ClientSend(d),
         NEW c \in Client, sent[c] = Places(c)
  PROVE  sent'[c] = Places(c)'
<1> DEFINE m == Len(replies[c])
           n == Len(inbox[c])
           n1 == Len(inbox'[c])
           i == InReactor(c)
           q == Cardinality(From(items, c))
           s == Cardinality(ServedBy(c))
           t == Cardinality(Turned(c))
           b == One(d = c)
<1>1. m \in Nat /\ n \in Nat /\ i \in Nat /\ q \in Nat /\ s \in Nat /\ t \in Nat
  BY CountTypes
<1>2. UNCHANGED <<replies, items, got, rejected, failed, cur>>
  BY DEF ClientSend, queueVars
<1>3. sent[c] \in Nat /\ sent'[c] = sent[c] + b
  BY DEF ClientSend, NetType, One
<1>4. n1 = n + b
  <2>1. PICK x \in Content : inbox' = [inbox EXCEPT ![d] = Append(@, x)]
    BY DEF ClientSend
  <2>2. /\ inbox[c] \in Seq(Content)
        /\ inbox'[c] = IF d = c THEN Append(inbox[c], x) ELSE inbox[c]
    BY <2>1 DEF NetType
  <2>3. CASE d = c
    BY <2>2, <2>3, AppendProperties DEF One
  <2>4. CASE d # c
    BY <1>1, <2>2, <2>4 DEF One
  <2>5. QED
    BY <2>3, <2>4
<1>5. Places(c) = m + n + i + q + s + t /\ Places(c)' = m + n1 + i + q + s + t
  BY <1>2 DEF Places, InReactor, Turned, From, ServedBy
<1>6. b \in Nat
  BY DEF One
<1> HIDE DEF m, n, n1, i, q, s, t, b
<1>7. QED
  BY <1>1, <1>3, <1>4, <1>5, <1>6

----------------------------------------------------------------------------
(* What is owed.                                                           *)

(* A client that has left without its reply never gets it.                 *)
LEMMA LeftEarlyStable ==
  ASSUME QP!IInv, NetType, SvcType, StageInv, [Next]_vars, LeftEarly
  PROVE  LeftEarly'
<1>1. PICK c \in closed : ~AllAnswered(c)
  BY DEF LeftEarly
<1>2. c \in Client
  BY DEF NetType
<1>3. closed \subseteq closed'
  BY DEF Next, ReactorNext, WorkerNext, ClientSend, ClientClose, Accept, Read, CloseFd,
         CheckFull, Push, GetReq, Parse, GetHandler, Serve, PutHandler, Send, vars, netVars
<1>4. sent'[c] = sent[c]
  <2>1. ASSUME NEW d \in Client, ClientSend(d) PROVE sent'[c] = sent[c]
    BY <1>1, <1>2, <2>1 DEF ClientSend, NetType
  <2>2. QED
    BY <2>1
    DEF Next, ReactorNext, WorkerNext, ClientClose, Accept, Read, CloseFd, CheckFull,
        Push, GetReq, Parse, GetHandler, Serve, PutHandler, Send, vars, netVars
<1>5. replies'[c] = replies[c]
  <2>1. ASSUME NEW w \in Worker, Send(w) PROVE replies'[c] = replies[c]
    BY <1>1, <1>2, <2>1, SendReplies
  <2>2. QED
    BY <2>1
    DEF Next, ReactorNext, WorkerNext, ClientSend, ClientClose, Accept, Read, CloseFd,
        CheckFull, Push, GetReq, Parse, GetHandler, Serve, PutHandler, vars, netVars
<1>6. QED
  BY <1>1, <1>3, <1>4, <1>5 DEF LeftEarly, AllAnswered

(* Whose request is in flight still waits, at the descriptor it came from. *)
LEMMA Waiting ==
  ASSUME QP!IInv, NetType, OnePlace, Owed, NothingLost, ~LeftEarly, NEW r \in InFlight
  PROVE  /\ r.from \in Client \ closed /\ peer[r.fd] = r.from
         /\ r.n = sent[r.from] /\ sent[r.from] = Len(replies[r.from]) + 1
<1>1. r.from \in Client /\ Places(r.from) > Len(replies[r.from])
  BY InFlightCounts
<1>2. sent[r.from] = Places(r.from)
  BY <1>1, LostIsPlaces
<1>3. sent[r.from] \in {Len(replies[r.from]), Len(replies[r.from]) + 1}
      /\ peer[r.fd] = r.from /\ r.n = sent[r.from]
  BY <1>1 DEF Owed
<1>4. Len(replies[r.from]) \in Nat /\ sent[r.from] \in Nat
  BY <1>1, LenProperties DEF NetType
<1>5. sent[r.from] = Len(replies[r.from]) + 1
  BY <1>1, <1>2, <1>3, <1>4
<1>6. r.from \notin closed
  BY <1>4, <1>5 DEF LeftEarly, AllAnswered
<1>7. QED
  BY <1>1, <1>3, <1>5, <1>6

(* A frame the reactor has not read is the only thing its client waits for.*)
LEMMA OneFrame ==
  ASSUME QP!IInv, NetType, OnePlace, Owed, NothingLost, ~LeftEarly,
         NEW c \in Client, inbox[c] # <<>>
  PROVE  Len(inbox[c]) = 1
<1> DEFINE m == Len(replies[c])
           n == Len(inbox[c])
           i == InReactor(c)
           q == Cardinality(From(items, c))
           s == Cardinality(ServedBy(c))
           t == Cardinality(Turned(c))
<1>1. m \in Nat /\ n \in Nat /\ i \in Nat /\ q \in Nat /\ s \in Nat /\ t \in Nat
  BY CountTypes
<1>2. sent[c] = m + n + i + q + s + t
  BY LostIsPlaces DEF Places
<1>3. sent[c] \in {m, m + 1}
  BY DEF Owed
<1>4. n # 0
  BY EmptySeq DEF NetType
<1> HIDE DEF m, i, q, s, t
<1>5. n = 1
  <2> HIDE DEF n
  <2>1. QED
    BY <1>1, <1>2, <1>3, <1>4
<1>6. QED
  BY <1>5

LEMMA LostStep ==
  ASSUME QP!IInv, NetType, SvcType, StageInv, OnePlace, OnePlace', Owed, NothingLost,
         [Next]_vars
  PROVE  NothingLost'
<1> SUFFICES ASSUME ~LeftEarly, NEW c \in Client PROVE sent'[c] = Places(c)'
  BY LeftEarlyStable DEF NothingLost, Places, InReactor, From, ServedBy, Turned
<1>1. sent[c] = Places(c)
  BY LostIsPlaces
<1>2. ASSUME NEW w \in Worker, Send(w) PROVE sent'[c] = Places(c)'
  <2>1. got[w] \in InFlight
    BY <1>2, SendEffect, InFlightPlaces, NoReqFresh
  <2>2. peer[got[w].fd] = got[w].from /\ got[w].from \notin closed
    BY <2>1, Waiting
  <2>3. QED
    BY <1>1, <1>2, <2>2, SendCounts
<1>3. ASSUME UNCHANGED <<sent, replies, inbox, queueVars>> PROVE sent'[c] = Places(c)'
  BY <1>1, <1>3 DEF queueVars, Places, InReactor, From, ServedBy, Turned
<1>4. ASSUME NEW fd \in Fd, Read(fd) PROVE sent'[c] = Places(c)'
  BY <1>1, <1>4, ReadCounts
<1>5. ASSUME CheckFull PROVE sent'[c] = Places(c)'
  BY <1>1, <1>5, CheckFullCounts
<1>6. ASSUME Push PROVE sent'[c] = Places(c)'
  BY <1>1, <1>6, PushCounts
<1>7. ASSUME NEW w \in Worker, GetReq(w) PROVE sent'[c] = Places(c)'
  BY <1>1, <1>7, GetReqCounts
<1>8. ASSUME NEW d \in Client, ClientSend(d) PROVE sent'[c] = Places(c)'
  BY <1>1, <1>8, ClientSendCounts
<1>9. QED
  BY <1>2, <1>3, <1>4, <1>5, <1>6, <1>7, <1>8
  DEF Next, ReactorNext, WorkerNext, ClientClose, Accept, CloseFd, Parse, GetHandler,
      Serve, PutHandler, vars, netVars

LEMMA OwedStep ==
  ASSUME QP!IInv, NetType, SvcType, StageInv, OnePlace, Owed, NothingLost, [Next]_vars
  PROVE  Owed'
<1> SUFFICES ASSUME ~LeftEarly
             PROVE  /\ \A c \in Client : sent'[c] \in {Len(replies'[c]), Len(replies'[c]) + 1}
                    /\ \A r \in InFlight' : peer'[r.fd] = r.from /\ r.n = sent'[r.from]
  BY LeftEarlyStable DEF Owed
<1> DEFINE SentOK == \A c \in Client : sent'[c] \in {Len(replies'[c]), Len(replies'[c]) + 1}
           FlightOK == \A r \in InFlight' : peer'[r.fd] = r.from /\ r.n = sent'[r.from]
<1>1. ASSUME UNCHANGED <<sent, replies>> PROVE SentOK
  BY <1>1 DEF Owed
<1>2. ASSUME UNCHANGED <<sent, peer>>, InFlight' \subseteq InFlight PROVE FlightOK
  BY <1>2 DEF Owed
<1>3. UNCHANGED queueVars => InFlight' = InFlight
  BY DEF queueVars, InFlight
<1>4. ASSUME NEW d \in Client, ClientSend(d) PROVE SentOK /\ FlightOK
  <2>1. /\ Len(replies[d]) = sent[d] /\ sent' = [sent EXCEPT ![d] = @ + 1]
        /\ InFlight' = InFlight /\ UNCHANGED <<peer, replies>>
    BY <1>3, <1>4 DEF ClientSend, AllAnswered
  <2>2. SentOK
    BY <2>1 DEF Owed, NetType
  <2>3. \A r \in InFlight : r.from # d
    <3>1. Len(replies[d]) \in Nat
      BY LenProperties DEF NetType
    <3>2. \A r \in InFlight : sent[r.from] = Len(replies[r.from]) + 1
      BY Waiting
    <3>3. QED
      BY <2>1, <3>1, <3>2
  <2>4. FlightOK
    BY <2>1, <2>3, Waiting DEF NetType
  <2>5. QED
    BY <2>2, <2>4
<1>5. ASSUME NEW c \in Client, Accept(c) PROVE SentOK /\ FlightOK
  <2>1. PICK fd \in Fd : peer[fd] = NoClient /\ peer' = [peer EXCEPT ![fd] = c]
    BY <1>5 DEF Accept, FreeFd
  <2>2. UNCHANGED <<sent, replies>> /\ InFlight' = InFlight
    BY <1>3, <1>5 DEF Accept
  <2>3. \A r \in InFlight : r.fd \in Fd /\ r.fd # fd
    BY <2>1, Waiting, NoClientAssumption DEF InFlight, Request
  <2>4. FlightOK
    BY <2>1, <2>2, <2>3, Waiting DEF NetType
  <2>5. QED
    BY <1>1, <2>2, <2>4
<1>6. ASSUME NEW fd \in Fd, CloseFd(fd) PROVE SentOK /\ FlightOK
  <2>1. /\ peer[fd] \in closed /\ peer' = [peer EXCEPT ![fd] = NoClient]
        /\ UNCHANGED <<sent, replies>> /\ InFlight' = InFlight
    BY <1>3, <1>6 DEF CloseFd
  <2>2. \A r \in InFlight : r.fd \in Fd /\ r.fd # fd
    BY <2>1, Waiting DEF InFlight, Request
  <2>3. FlightOK
    BY <2>1, <2>2, Waiting DEF NetType
  <2>4. QED
    BY <1>1, <2>1, <2>3
<1>7. ASSUME NEW fd \in Fd, Read(fd) PROVE SentOK /\ FlightOK
  <2> DEFINE c == peer[fd]
  <2>1. c \in Client /\ inbox[c] # <<>> /\ UNCHANGED <<peer, sent, replies>>
    BY <1>7 DEF Read, NetType
  <2>2. Len(inbox[c]) = 1
    BY <2>1, OneFrame
  <2>3. /\ cur'[Reactor].fd = fd /\ cur'[Reactor].from = c
        /\ cur'[Reactor].n = sent[c] - Len(inbox[c]) + 1
    BY <1>7, QueueFacts DEF Read, Q!Receive
  <2>4. cur'[Reactor].n = sent[c]
    BY <2>1, <2>2, <2>3 DEF NetType
  <2>5. ASSUME NEW r \in InFlight' PROVE peer'[r.fd] = r.from /\ r.n = sent'[r.from]
    <3>1. CASE r \in InFlight
      BY <2>1, <3>1, Waiting
    <3>2. CASE r = cur'[Reactor]
      BY <2>1, <2>3, <2>4, <3>2
    <3>3. QED
      BY <1>7, <3>1, <3>2, ReadEffect
  <2>6. QED
    BY <1>1, <2>1, <2>5
<1>8. ASSUME NEW w \in Worker, Send(w) PROVE SentOK /\ FlightOK
  <2>1. got[w] \in InFlight /\ got[w] \in Request
    BY <1>8, SendEffect, InFlightPlaces, NoReqFresh
  <2> DEFINE d == got[w].from
  <2>2. d \in Client \ closed /\ peer[got[w].fd] = d /\ sent[d] = Len(replies[d]) + 1
    BY <2>1, Waiting
  <2>3. /\ \A c \in Client \ {d} : replies'[c] = replies[c]
        /\ Len(replies'[d]) = Len(replies[d]) + 1
    <3> HIDE DEF d
    <3>1. QED
      BY <1>8, <2>2, NoClientAssumption, SendReplies
  <2>4. UNCHANGED <<peer, sent>> /\ InFlight' \subseteq InFlight
    BY <1>8, SendEffect DEF Send
  <2> HIDE DEF d
  <2>5. ASSUME NEW c \in Client PROVE sent'[c] \in {Len(replies'[c]), Len(replies'[c]) + 1}
    <3>1. CASE c = d
      BY <2>2, <2>3, <2>4, <3>1
    <3>2. CASE c # d
      BY <2>3, <2>4, <3>2 DEF Owed
    <3>3. QED
      BY <3>1, <3>2
  <2>6. QED
    BY <1>2, <2>4, <2>5
<1>9. ASSUME UNCHANGED <<sent, replies, peer>>, InFlight' \subseteq InFlight
      PROVE  SentOK /\ FlightOK
  BY <1>1, <1>2, <1>9
<1> HIDE DEF SentOK, FlightOK
<1>10. SentOK /\ FlightOK
  BY <1>3, <1>4, <1>5, <1>6, <1>7, <1>8, <1>9, CheckFullEffect, PushEffect, GetReqEffect
  DEF Next, ReactorNext, WorkerNext, ClientClose, CheckFull, Push, GetReq, Parse,
      GetHandler, Serve, PutHandler, vars, netVars
<1>11. QED
  BY <1>10 DEF SentOK, FlightOK

LEMMA PairedStep ==
  ASSUME QP!IInv, NetType, SvcType, StageInv, OnePlace, Owed, NothingLost, PairedReplies,
         [Next]_vars
  PROVE  PairedReplies'
<1>1. ASSUME UNCHANGED replies PROVE PairedReplies'
  BY <1>1, LeftEarlyStable DEF PairedReplies
<1>2. ASSUME NEW w \in Worker, Send(w) PROVE PairedReplies'
  <2> SUFFICES ASSUME ~LeftEarly, NEW c \in Client, NEW k \in 1..Len(replies'[c])
               PROVE  replies'[c][k].req.from = c /\ replies'[c][k].req.n = k
    BY LeftEarlyStable DEF PairedReplies
  <2>1. got[w] \in InFlight /\ got[w] \in Request
    BY <1>2, SendEffect, InFlightPlaces, NoReqFresh
  <2> DEFINE d == got[w].from
  <2>2. /\ d \in Client \ closed /\ peer[got[w].fd] = d
        /\ got[w].n = sent[d] /\ sent[d] = Len(replies[d]) + 1
    BY <2>1, Waiting
  <2>3. /\ \A e \in Client \ {d} : replies'[e] = replies[e]
        /\ Len(replies'[d]) = Len(replies[d]) + 1
        /\ \A j \in 1..Len(replies[d]) : replies'[d][j] = replies[d][j]
        /\ replies'[d][Len(replies[d]) + 1].req = got[w]
    BY <1>2, <2>2, NoClientAssumption, SendReplies
  <2>4. Len(replies[d]) \in Nat
    BY <2>2, LenProperties DEF NetType
  <2>5. CASE c = d /\ k = Len(replies[d]) + 1
    BY <2>2, <2>3, <2>5
  <2>6. CASE ~(c = d /\ k = Len(replies[d]) + 1)
    <3> HIDE DEF d
    <3>1. k \in 1..Len(replies[c]) /\ replies'[c][k] = replies[c][k]
      BY <2>3, <2>4, <2>6
    <3>2. QED
      BY <3>1 DEF PairedReplies
  <2>7. QED
    BY <2>5, <2>6
<1>3. QED
  BY <1>1, <1>2
  DEF Next, ReactorNext, WorkerNext, ClientSend, ClientClose, Accept, Read, CloseFd,
      CheckFull, Push, GetReq, Parse, GetHandler, Serve, PutHandler, vars, netVars

----------------------------------------------------------------------------
(* The invariant.                                                          *)
LEMMA InitIInv == Init => IInv
<1> SUFFICES ASSUME Init PROVE IInv
  OBVIOUS
<1>1. QP!IInv /\ QP!CheckStillValid
  <2>1. QP!Init
    BY DEF Init, Q!Init, QP!Init
  <2>2. QP!IInv
    BY <2>1, NoReqFresh, MaxSizeAssumption, QP!InitIInv
  <2>3. QED
    BY <2>1, <2>2 DEF QP!Init, QP!CheckStillValid
<1>2. PP!IInv
  <2>1. PP!Init
    BY DEF Init, P!Init, PP!Init, P!Handler, PP!Handler, P!NoHandler, PP!NoHandler
  <2>2. PP!IsFiniteSet(Worker)
    BY WorkerAssumption DEF IsFiniteSet, PP!IsFiniteSet
  <2>3. QED
    BY <2>1, <2>2, HandlerNumAssumption, PP!InitIInv
<1>3. NetType
  BY ReqNumAssumption, EmptySeq DEF Init, NetType
<1>4. SvcType
  BY DEF Init, SvcType, Stage, Empty, Outcome, Modes, AbsentMode
<1>5. /\ items = <<>> /\ rejected = {} /\ failed = {} /\ ppc[Reactor] = "polling"
      /\ cur[Reactor] = NoReq
      /\ \A w \in Worker : got[w] = NoReq /\ cpc[w] = "out"
      /\ \A c \in Client : replies[c] = <<>> /\ inbox[c] = <<>> /\ sent[c] = 0
  BY DEF Init, Q!Init
<1>6. InFlight = {} /\ Len(items) = 0
  BY <1>5, NoReqFresh, EmptySeq DEF InFlight
<1>7. StageInv
  BY <1>5, EmptySeq DEF Init, StageInv
<1>8. OnePlace
  BY <1>5, <1>6, FS_EmptySet DEF OnePlace
<1>9. OneReply /\ PairedReplies
  BY <1>5 DEF OneReply, AtMostOneReply, Replied, PairedReplies
<1>10. Owed
  BY <1>5, <1>6 DEF Owed
<1>11. NothingLost
  <2> SUFFICES ASSUME NEW c \in Client PROVE sent[c] = Places(c)
    BY LostIsPlaces
  <2>1. InReactor(c) = 0
    BY <1>5, NoReqFresh DEF InReactor
  <2>2. From(items, c) = {} /\ ServedBy(c) = {} /\ Turned(c) = {}
    BY <1>5, <1>6, NoReqFresh DEF From, ServedBy, Turned
  <2>3. Cardinality({}) = 0
    BY FS_EmptySet
  <2>4. Len(replies[c]) = 0 /\ Len(inbox[c]) = 0 /\ sent[c] = 0
    BY <1>5
  <2>5. QED
    BY <2>1, <2>2, <2>3, <2>4 DEF Places
<1>12. QED
  BY <1>1, <1>2, <1>3, <1>4, <1>7, <1>8, <1>9, <1>10, <1>11 DEF IInv

LEMMA NextIInv == IInv /\ [Next]_vars => IInv'
<1> SUFFICES ASSUME IInv, [Next]_vars PROVE IInv'
  OBVIOUS
<1> USE DEF IInv
<1>1. QP!IInv' /\ PP!IInv'
  BY PartsIInv
<1>2. QP!CheckStillValid'
  <2>1. \A p, q \in {Reactor} : p = q
    OBVIOUS
  <2>2. QED
    BY <2>1, NoReqFresh, MaxSizeAssumption, QueueStep, QP!NextCheckStillValid
<1>3. NetType' /\ SvcType' /\ StageInv'
  BY NetTypeStep, SvcTypeStep, StageStep
<1>4. OnePlace'
  BY <1>1, <1>2, OnePlaceStep
<1>5. OneReply'
  BY <1>4, OneReplyStep
<1>6. Owed' /\ NothingLost' /\ PairedReplies'
  BY <1>4, OwedStep, LostStep, PairedStep
<1>7. QED
  BY <1>1, <1>2, <1>3, <1>4, <1>5, <1>6

(* Everything below follows from this: clients that come, wait and go in   *)
(* any order, one reactor, and any number of workers on one queue and one  *)
(* pool.                                                                   *)
THEOREM Invariant == Spec => []IInv
BY InitIInv, NextIInv, PTL DEF Spec

(* Sockets, svc, queue and pool keep the types of their variables.         *)
THEOREM TypeCorrect == Spec => []TypeOK
<1>1. QP!IInv => Q!TypeOK
  BY DEF QP!IInv, QP!TypeOK, Q!TypeOK, QP!ProducerPC, Q!ProducerPC, QP!ConsumerPC,
     Q!ConsumerPC
<1>2. PP!IInv => P!TypeOK
  BY DEF PP!IInv, PP!TypeOK, P!TypeOK, PP!PC, P!PC, PP!Handler, P!Handler,
         PP!NoHandler, P!NoHandler
<1>3. IInv => TypeOK
  BY <1>1, <1>2 DEF IInv, TypeOK, NetType, SvcType
<1>4. QED
  BY Invariant, <1>3, PTL

(* One reactor: a request that full() let through is never refused by      *)
(* push_req, although workers pop in between (req_tcp_event_handler.cpp).  *)
THEOREM PushNeverFails == Spec => []PushAfterCheckSucceeds
<1>1. IInv => PushAfterCheckSucceeds
  BY DEF IInv, QP!CheckStillValid, PushAfterCheckSucceeds, Q!PushAfterCheckSucceeds
<1>2. QED
  BY Invariant, <1>1, PTL

(* svc answers no request twice, even when its descriptor has been handed  *)
(* to another client in the meantime.                                      *)
THEOREM NoSecondReply == Spec => []AtMostOneReply
<1>1. IInv => AtMostOneReply
  BY DEF IInv, OneReply
<1>2. QED
  BY Invariant, <1>1, PTL

(* Every frame a client sent has been answered, or is in the socket, in    *)
(* the reactor, in the queue, with a worker or turned away - as long as no *)
(* client leaves before its reply.                                         *)
THEOREM AllAccountedFor == Spec => []NothingLost
<1>1. IInv => NothingLost
  BY DEF IInv
<1>2. QED
  BY Invariant, <1>1, PTL

(* While no client leaves early, descriptors that are reused do not mix up *)
(* the replies: the k-th one a client reads answers its k-th request.      *)
THEOREM RepliesPaired == Spec => []PairedReplies
<1>1. IInv => PairedReplies
  BY DEF IInv
<1>2. QED
  BY Invariant, <1>1, PTL

(* No two workers have the same handler in hand: what is proved of the     *)
(* pool alone holds of the pool inside the service.                        *)
THEOREM HandlersNotShared == Spec => []P!HandlerExclusive
<1>1. IInv => P!HandlerExclusive
  BY DEF IInv, PP!IInv, PP!HandlerExclusive, P!HandlerExclusive, PP!NoHandler, P!NoHandler
<1>2. QED
  BY Invariant, <1>1, PTL

(* Seen from the queue the service is one producer and the workers: it     *)
(* keeps what AbstractQueue promises, first in, first out, nothing lost.   *)
THEOREM QueueInService == Spec => QP!ImplementsQueue
<1>1. Init => QP!Init
  BY DEF Init, Q!Init, QP!Init
<1>2. IInv /\ [Next]_vars => [QP!Next]_(QP!vars)
  BY QueueStep DEF IInv
<1>3. QP!Spec => QP!ImplementsQueue
  BY NoReqFresh, MaxSizeAssumption, QP!QueueRefinement
<1>4. QED
  BY <1>1, <1>2, <1>3, Invariant, PTL DEF Spec, QP!Spec

(* Seen from the pool the service is its workers: whatever they are doing, *)
(* handlers are given out as AbstractPool promises.                        *)
THEOREM PoolInService == Spec => PP!ImplementsPool
<1>1. Init => PP!Init
  BY DEF Init, P!Init, PP!Init, P!Handler, PP!Handler, P!NoHandler, PP!NoHandler
<1>2. [Next]_vars => [PP!Next]_(PP!vars)
  BY PoolStep
<1>3. PP!IsFiniteSet(Worker)
  BY WorkerAssumption DEF IsFiniteSet, PP!IsFiniteSet
<1>4. PP!Spec => PP!ImplementsPool
  BY <1>3, HandlerNumAssumption, PP!PoolRefinement
<1>5. QED
  BY <1>1, <1>2, <1>4, PTL DEF Spec, PP!Spec
=============================================================================
