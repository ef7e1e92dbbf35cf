----------------------------- MODULE RequestLife -----------------------------
(***************************************************************************)
(* The life of what a request needs: the Request object, handed by counted *)
(* pointers from the reactor to the queue and on to a worker; the MySQL    *)
(* connection the worker borrows; the reply, sent under one mutex for all  *)
(* connections; and, before all that, the start of the server.             *)
(*                                                                         *)
(* Waiting and waking at the queue, and the face handlers, are in ReqQueue *)
(* and HandlerPool; here the queue is its list and its mutex.  Any number  *)
(* of workers may be in the database at a time: the one face handler of    *)
(* face_handler_mgt.cpp:27 allows fewer.                                   *)
(***************************************************************************)
EXTENDS SharedPtr, ConnPool, ReplyChannel, Startup

CONSTANT MaxSize      \* _max_queue_size

ASSUME MaxSizeAssumption == MaxSize \in Nat \ {0}

Reactor == "reactor"
ASSUME ReactorAssumption == Reactor \notin Worker

VARIABLES
  queue,        \* X_Queue::_lst_item, the requests its elements point to
  popper,       \* the worker that holds the queue's mutex between the two
                \* statements of pop that move the pointer
  at,           \* where the reactor is in handle_input
  pc,           \* where each worker is in svc
  fd            \* Request::_fd

queueVars == <<queue, popper>>
vars == <<ptrVars, poolVars, replyVars, startVars, queueVars, at, pc, fd>>

(* The pointer variables.  A request's: handle_input's local, push_req's
   parameter, the queue's element, svc's local.  A connection's: the pool's
   element, the local of the User_Mgt operation, the guard's member. *)
Local == <<"req", Reactor>>
Param == <<"param", Reactor>>
Item(r) == <<"item", r>>
Mine(w) == <<"req", w>>
Pooled(c) == <<"pool", c>>
ConnOf(w) == <<"conn", w>>
Guard(w) == <<"guard", w>>
AllSlots == {Local, Param} \cup {Item(r) : r \in Request} \cup {Pooled(c) : c \in Conn}
            \cup UNION {{Mine(w), ConnOf(w), Guard(w)} : w \in Worker}
AllObjects == Request \cup Conn

ASSUME SlotAssumption == Slot = AllSlots /\ Object = AllObjects

ReactorAt == {"idle", "made", "pass", "push", "unparam", "drop"}
PC == {"pop", "popping", "serve", "scan", "scanning", "guard", "query", "unguard",
       "unconn", "reply", "send", "drop"}

TypeOK ==
  /\ PtrTypeOK /\ PoolTypeOK /\ ReplyTypeOK /\ StartTypeOK
  /\ queue \in Seq(Request)
  /\ popper \in Worker \cup {Nobody}
  /\ at \in ReactorAt
  /\ pc \in [Worker -> PC]
  /\ fd \in [Request -> Fd]

Init ==
  /\ PtrInit /\ PoolInit /\ ReplyInit /\ StartInit
  /\ queue = <<>>
  /\ popper = Nobody
  /\ at = "idle"
  /\ pc = [w \in Worker |-> "pop"]
  /\ fd \in [Request -> Fd]

Goto(w, now, next) == pc[w] = now /\ pc' = [pc EXCEPT ![w] = next]
ReactorGoto(now, next) == at = now /\ at' = next

---------------------------------------------------------------------------
(* The start.  mysql_mgt::init makes one connection after the other; main
   goes on when the vector is full. *)
MakeConn ==
  /\ stage = "conf"
  /\ \E c \in Conn :
       /\ \A d \in Conn : ptr[Pooled(d)] = NullPtr <=> d >= c
       /\ Construct(Pooled(c), c)
  /\ UNCHANGED <<poolVars, replyVars, startVars, queueVars, at, pc, fd>>

StartStep ==
  /\ StartNext
  /\ stage = "conf" /\ stage' = "log" => \A c \in Conn : ptr[Pooled(c)] = c
  /\ UNCHANGED <<ptrVars, poolVars, replyVars, queueVars, at, pc, fd>>

---------------------------------------------------------------------------
(* The reactor: the end of handle_input, from the new Request on. *)
Receive(r) ==
  /\ serving
  /\ ReactorGoto("idle", "made")
  /\ Construct(Local, r)
  /\ UNCHANGED <<poolVars, replyVars, startVars, queueVars, pc, fd>>

(* full(): a request too many is only logged; it dies with the local. *)
CheckFull ==
  /\ popper = Nobody
  /\ ReactorGoto("made", IF Len(queue) >= MaxSize THEN "drop" ELSE "pass")
  /\ UNCHANGED <<ptrVars, poolVars, replyVars, startVars, queueVars, pc, fd>>

(* push_req takes its parameter by value, *)
PassParam ==
  /\ ReactorGoto("pass", "push")
  /\ Copy(Param, Local)
  /\ UNCHANGED <<poolVars, replyVars, startVars, queueVars, pc, fd>>

(* X_Queue::push copies it once more under the queue's mutex, unless the
   queue is full by now, *)
Push ==
  /\ popper = Nobody
  /\ ReactorGoto("push", "unparam")
  /\ IF Len(queue) >= MaxSize
     THEN UNCHANGED <<ptrVars, queue>>
     ELSE Copy(Item(ptr[Param]), Param) /\ queue' = Append(queue, ptr[Param])
  /\ UNCHANGED <<poolVars, replyVars, startVars, popper, pc, fd>>

(* and the parameter and the local end with their functions. *)
DropParam ==
  /\ ReactorGoto("unparam", "drop")
  /\ Drop(Param)
  /\ UNCHANGED <<poolVars, replyVars, startVars, queueVars, pc, fd>>

DropLocal ==
  /\ ReactorGoto("drop", "idle")
  /\ Drop(Local)
  /\ UNCHANGED <<poolVars, replyVars, startVars, queueVars, pc, fd>>

ReactorNext ==
  \/ \E r \in Request : Receive(r)
  \/ CheckFull \/ PassParam \/ Push \/ DropParam \/ DropLocal

---------------------------------------------------------------------------
(* A worker.  pop: item = front() makes a second pointer, pop_front() takes
   the queue's away, both under the queue's mutex. *)
PopFront(w) ==
  /\ w \in running
  /\ popper = Nobody
  /\ queue # <<>>
  /\ Goto(w, "pop", "popping")
  /\ Copy(Mine(w), Item(Head(queue)))
  /\ popper' = w
  /\ UNCHANGED <<poolVars, replyVars, startVars, queue, at, fd>>

PopErase(w) ==
  /\ popper = w
  /\ Goto(w, "popping", "serve")
  /\ Drop(Item(Head(queue)))
  /\ queue' = Tail(queue)
  /\ popper' = Nobody
  /\ UNCHANGED <<poolVars, replyVars, startVars, at, fd>>

(* Registering and withdrawing use the database, the other requests do not. *)
Serve(w) ==
  /\ Goto(w, "serve", "scan") \/ Goto(w, "serve", "reply")
  /\ UNCHANGED <<ptrVars, poolVars, replyVars, startVars, queueVars, at, fd>>

GetConn(w) ==
  /\ \/ Goto(w, "scan", "scanning") /\ ScanBegin(w) /\ UNCHANGED ptrVars
     \/ Goto(w, "scanning", IF itr \in Conn THEN "scanning" ELSE "reply")
        /\ ScanOn(w) /\ UNCHANGED ptrVars
     \/ Goto(w, "scanning", "guard") /\ ScanTake(w) /\ Copy(ConnOf(w), Pooled(itr))
  /\ UNCHANGED <<replyVars, startVars, queueVars, at, fd>>

MakeGuard(w) ==
  /\ Goto(w, "guard", "query")
  /\ Copy(Guard(w), ConnOf(w))
  /\ UNCHANGED <<poolVars, replyVars, startVars, queueVars, at, fd>>

(* The operation returns: the guard's destructor gives the connection back
   and drops its pointer, then the local goes. *)
ReturnConn(w) ==
  /\ \/ Goto(w, "query", "unguard") /\ release(w) /\ UNCHANGED ptrVars
     \/ Goto(w, "unguard", "unconn") /\ Drop(Guard(w)) /\ UNCHANGED poolVars
     \/ Goto(w, "unconn", "reply") /\ Drop(ConnOf(w)) /\ UNCHANGED poolVars
  /\ UNCHANGED <<replyVars, startVars, queueVars, at, fd>>

BeginReply(w) ==
  /\ Goto(w, "reply", "send")
  /\ Acquire(w)
  /\ UNCHANGED <<ptrVars, poolVars, startVars, queueVars, at, fd>>

(* send_n, on the descriptor that is read from the request object. *)
SendReply(w) ==
  /\ pc[w] = "send"
  /\ LET r == ptr[Mine(w)] IN
       \/ SendSome(w, fd[r], r)
       \/ SendNothing(w, fd[r])
       \/ SendTimeout(w, r)
       \/ SendError(w, fd[r], r)
  /\ pc' = [pc EXCEPT ![w] = IF mutex' = Nobody THEN "drop" ELSE @]
  /\ UNCHANGED <<ptrVars, poolVars, startVars, queueVars, at, fd>>

(* The end of svc. *)
DropRequest(w) ==
  /\ Goto(w, "drop", "pop")
  /\ Drop(Mine(w))
  /\ UNCHANGED <<poolVars, replyVars, startVars, queueVars, at, fd>>

WorkerNext(w) ==
  \/ PopFront(w) \/ PopErase(w) \/ Serve(w)
  \/ GetConn(w) \/ MakeGuard(w) \/ ReturnConn(w)
  \/ BeginReply(w) \/ SendReply(w) \/ DropRequest(w)

DeleteObject ==
  /\ \E o \in Object : Delete(o)
  /\ UNCHANGED <<poolVars, replyVars, startVars, queueVars, at, pc, fd>>

ClientNext ==
  /\ \E f \in Fd : ClientReads(f) \/ ClientLeaves(f)
  /\ UNCHANGED <<ptrVars, poolVars, startVars, queueVars, at, pc, fd>>

Alive == stage # "gone"

Next ==
  /\ Alive
  /\ \/ MakeConn \/ StartStep \/ ReactorNext \/ DeleteObject \/ ClientNext
     \/ \E w \in Worker : WorkerNext(w)

Spec == Init /\ [][Next]_vars

(* Every thread runs; the second of send_n passes.  Nothing is assumed of the
   clients, nor that the start works. *)
Fairness ==
  /\ WF_vars(ReactorNext)
  /\ WF_vars(DeleteObject)
  /\ \A w \in Worker : WF_vars(WorkerNext(w))

FairSpec == Spec /\ Fairness

---------------------------------------------------------------------------
(* Every request that was read is done with and its object deleted, although
   clients stop reading in the middle of a reply, if some worker could be
   started: a slow client holds the others up for one time-out (send_n), and no
   pointer is forgotten (RefCounter). *)
EveryRequestReleased == \A r \in Request :
  life[r] = "alive" /\ running # {} ~> life[r] = "deleted"
=============================================================================
