---------------------------- MODULE FaceService ----------------------------
(***************************************************************************)
(* The server end to end: clients, the reactor thread that accepts, reads  *)
(* and closes connections, the request queue, the worker threads running   *)
(* Req_Processor::svc, the handler pool, and the replies.  A reply goes to *)
(* the file descriptor noted in the request, whoever is behind it by then. *)
(*                                                                         *)
(* Queue and pool are the modules ReqQueue and HandlerPool; this module    *)
(* adds what happens between their calls.                                  *)
(***************************************************************************)
EXTENDS Naturals, Sequences, FiniteSets

CONSTANTS Client, NoClient,
          FdNum,        \* descriptors accept() can hand out
          Worker, HandlerNum, MaxSize,
          Kind,         \* what a request may contain, a subset of Kinds
          Mode,         \* values of the "mode" member, a subset of Modes
          ReqNum        \* bound: requests per client

(* "bad": req_parse fails; "noimage": img_data is empty; "badimage": the   *)
(* image cannot be decoded; "noface": no face is detected; "face": one is. *)
Kinds == {"bad", "noimage", "badimage", "noface", "face"}
AbsentMode == 2         \* a request without the optional member "mode"
Modes == {0, 1, AbsentMode}

ASSUME NoClientAssumption == NoClient \notin Client
ASSUME KindAssumption == Kind \subseteq Kinds
ASSUME ModeAssumption == Mode \subseteq Modes
ASSUME WorkerAssumption == IsFiniteSet(Worker)
ASSUME HandlerNumAssumption == HandlerNum \in Nat \ {0}
ASSUME MaxSizeAssumption == MaxSize \in Nat
ASSUME FdNumAssumption == FdNum \in Nat \ {0}
ASSUME ReqNumAssumption == ReqNum \in Nat

Fd == 1..FdNum
Content == [kind : Kind, mode : Mode]
Request == [from : Client, n : 1..ReqNum, fd : Fd, kind : Kind, mode : Mode]
NoReq == [from |-> NoClient]
Reactor == "reactor"

VARIABLES
    \* the sockets and their clients
    peer,       \* peer[fd]: the client at the other end, or NoClient
    opened,     \* the clients that have connected
    closed,     \* the clients that have closed their end
    inbox,      \* inbox[c]: frames c sent and the reactor has not read
    sent,       \* sent[c]: how many requests c has sent
    replies,    \* replies[c]: the replies that arrived at c
    \* svc
    g_mode,     \* the global conf_mgt.cpp defines and req_parse writes
    stage,      \* stage[w]: where worker w is in svc
    out,        \* out[w]: json_str, with the mode the face was served in
    \* ReqQueue
    items, arrived, ppc, cur, cpc, got, rejected, failed,
    \* HandlerPool
    busy, free, pc, held

netVars == <<peer, opened, closed, inbox, sent, replies>>
svcVars == <<g_mode, stage, out>>
queueVars == <<items, arrived, ppc, cur, cpc, got, rejected, failed>>
poolVars == <<busy, free, pc, held>>
vars == <<netVars, svcVars, queueVars, poolVars>>

Q == INSTANCE ReqQueue WITH Producer <- {Reactor}, Consumer <- Worker,
                            Req <- Request, Spurious <- FALSE
P == INSTANCE HandlerPool WITH Spurious <- FALSE

Stage == {"idle", "parse", "handler", "put", "send"}
Empty == [what |-> "empty", mode |-> AbsentMode]
Outcome == [what : {"empty", "error", "result"}, mode : Modes]

TypeOK ==
    /\ peer \in [Fd -> Client \cup {NoClient}]
    /\ opened \subseteq Client /\ closed \subseteq opened
    /\ inbox \in [Client -> Seq(Content)]
    /\ sent \in [Client -> 0..ReqNum]
    /\ replies \in [Client -> Seq([req : Request, out : Outcome])]
    /\ g_mode \in {0, 1}
    /\ stage \in [Worker -> Stage]
    /\ out \in [Worker -> Outcome]
    /\ Q!TypeOK
    /\ P!TypeOK

Init ==
    /\ peer = [fd \in Fd |-> NoClient]
    /\ opened = {} /\ closed = {}
    /\ inbox = [c \in Client |-> <<>>]
    /\ sent = [c \in Client |-> 0]
    /\ replies = [c \in Client |-> <<>>]
    /\ g_mode = 0
    /\ stage = [w \in Worker |-> "idle"]
    /\ out = [w \in Worker |-> Empty]
    /\ Q!Init
    /\ P!Init

----------------------------------------------------------------------------
(* The clients.  Like test/cli.cpp and test/register.py they wait for the  *)
(* reply before they send the next request; they may be closed at any time.*)
AllAnswered(c) == Len(replies[c]) = sent[c]

ClientSend(c) ==
    /\ c \in opened \ closed
    /\ sent[c] < ReqNum
    /\ AllAnswered(c)
    /\ \E m \in Content : inbox' = [inbox EXCEPT ![c] = Append(@, m)]
    /\ sent' = [sent EXCEPT ![c] = @ + 1]
    /\ UNCHANGED <<peer, opened, closed, replies, svcVars, queueVars, poolVars>>

ClientClose(c) ==
    /\ c \in opened \ closed
    /\ closed' = closed \cup {c}
    /\ UNCHANGED <<peer, opened, inbox, sent, replies, svcVars, queueVars, poolVars>>

----------------------------------------------------------------------------
(* The reactor thread: one event at a time, to its end.                    *)
Polling == ppc[Reactor] = "polling"

(* accept() takes the lowest descriptor that is free.                      *)
FreeFd(fd) == peer[fd] = NoClient /\ \A e \in 1..(fd - 1) : peer[e] # NoClient

Accept(c) ==
    /\ Polling
    /\ c \notin opened
    /\ \E fd \in Fd : FreeFd(fd) /\ peer' = [peer EXCEPT ![fd] = c]
    /\ opened' = opened \cup {c}
    /\ UNCHANGED <<closed, inbox, sent, replies, svcVars, queueVars, poolVars>>

Read_LastFd(fd) ==                                          \* mutant
    /\ Polling
    /\ peer[fd] # NoClient
    /\ inbox[peer[fd]] # <<>>
    /\ LET c == peer[fd]
           m == Head(inbox[c])
       IN  /\ Q!Receive(Reactor, [from |-> c, n |-> sent[c] - Len(inbox[c]) + 1,
                                  fd |-> FdNum, kind |-> m.kind, mode |-> m.mode])
           /\ inbox' = [inbox EXCEPT ![c] = Tail(@)]
    /\ UNCHANGED <<peer, opened, closed, sent, replies, svcVars, poolVars>>

(* handle_input up to the Request it builds.  The n-th frame of a client   *)
(* is the one after those the reactor has read.                            *)
Read(fd) ==
    /\ Polling
    /\ peer[fd] # NoClient
    /\ inbox[peer[fd]] # <<>>
    /\ LET c == peer[fd]
           m == Head(inbox[c])
       IN  /\ Q!Receive(Reactor, [from |-> c, n |-> sent[c] - Len(inbox[c]) + 1,
                                  fd |-> fd, kind |-> m.kind, mode |-> m.mode])
           /\ inbox' = [inbox EXCEPT ![c] = Tail(@)]
    /\ UNCHANGED <<peer, opened, closed, sent, replies, svcVars, poolVars>>

(* full(); a full queue is answered by Msg_Oper::send_msg, which sends     *)
(* the zero bytes of its empty buffer.                                     *)
CheckFull == Q!CheckFull(Reactor) /\ UNCHANGED <<netVars, svcVars, poolVars>>

Push == Q!Push(Reactor) /\ UNCHANGED <<netVars, svcVars, poolVars>>

(* recv returned 0: handle_input returns -1 and the reactor closes the     *)
(* descriptor.  Requests that carry it are not looked for.                 *)
CloseFd(fd) ==
    /\ Polling
    /\ peer[fd] \in closed
    /\ inbox[peer[fd]] = <<>>
    /\ peer' = [peer EXCEPT ![fd] = NoClient]
    /\ UNCHANGED <<opened, closed, inbox, sent, replies, svcVars, queueVars, poolVars>>

ReactorNext ==
    \/ \E c \in Client : Accept(c)
    \/ \E fd \in Fd : Read(fd) \/ CloseFd(fd)
    \/ CheckFull
    \/ Push

----------------------------------------------------------------------------
(* svc, one disjunct per stretch between two shared operations.            *)
GetReq(w) ==
    /\ stage[w] = "idle"
    /\ Q!Pop(w) \/ Q!PopWait(w) \/ Q!PopResume(w)
    /\ stage' = [stage EXCEPT ![w] = IF cpc'[w] = "working" THEN "parse" ELSE "idle"]
    /\ out' = [out EXCEPT ![w] = Empty]
    /\ UNCHANGED <<netVars, g_mode, poolVars>>

Parse_WritesAbsent(w) ==                                    \* mutant
    LET r == got[w]
    IN  /\ stage[w] = "parse"
        /\ g_mode' = r.mode
        /\ out' = [out EXCEPT ![w].what =
                      IF r.kind \in {"bad", "badimage"} THEN "error" ELSE "empty"]
        /\ stage' = [stage EXCEPT ![w] =
                      IF r.kind \in {"noface", "face"} THEN "handler" ELSE "send"]
        /\ UNCHANGED <<netVars, queueVars, poolVars>>

Parse_ReturnsEarly(w) ==                                    \* mutant
    LET r == got[w]
    IN  /\ stage[w] = "parse"
        /\ g_mode' = IF r.kind = "bad" \/ r.mode = AbsentMode THEN g_mode ELSE r.mode
        /\ IF r.kind = "bad"
           THEN Q!Finish(w) /\ stage' = [stage EXCEPT ![w] = "idle"]
           ELSE /\ stage' = [stage EXCEPT ![w] =
                      IF r.kind \in {"noface", "face"} THEN "handler" ELSE "send"]
                /\ UNCHANGED queueVars
        /\ UNCHANGED <<netVars, out, poolVars>>

(* req_parse, which writes "mode" through to the global, and the decoding  *)
(* of the image.                                                           *)
Parse(w) ==
    LET r == got[w]
    IN  /\ stage[w] = "parse"
        /\ g_mode' = IF r.kind = "bad" \/ r.mode = AbsentMode THEN g_mode ELSE r.mode
        /\ out' = [out EXCEPT ![w].what =
                      IF r.kind \in {"bad", "badimage"} THEN "error" ELSE "empty"]
        /\ stage' = [stage EXCEPT ![w] =
                      IF r.kind \in {"noface", "face"} THEN "handler" ELSE "send"]
        /\ UNCHANGED <<netVars, queueVars, poolVars>>

GetHandler(w) ==
    /\ stage[w] = "handler"
    /\ P!Get(w) \/ P!Wait(w) \/ P!Resume(w)
    /\ UNCHANGED <<netVars, svcVars, queueVars>>

(* Detection, then registration, withdrawal or recognition: the work done  *)
(* with a handler in hand, in the mode the global has at that moment.      *)
Serve(w) ==
    /\ stage[w] = "handler"
    /\ pc[w] = "using"
    /\ out' = [out EXCEPT ![w] = IF got[w].kind = "face"
                                 THEN [what |-> "result", mode |-> g_mode]
                                 ELSE [what |-> "error", mode |-> AbsentMode]]
    /\ stage' = [stage EXCEPT ![w] = "put"]
    /\ UNCHANGED <<netVars, g_mode, queueVars, poolVars>>

PutHandler_Skipped(w) ==                                    \* mutant
    /\ stage[w] = "put"
    /\ stage' = [stage EXCEPT ![w] = "send"]
    /\ UNCHANGED <<netVars, g_mode, out, queueVars, poolVars>>

(* put_handler; without a handler svc comes straight here.                 *)
PutHandler(w) ==
    /\ \/ stage[w] = "put" /\ P!Put(w)
       \/ stage[w] = "handler" /\ P!PutNull(w)
    /\ stage' = [stage EXCEPT ![w] = "send"]
    /\ UNCHANGED <<netVars, g_mode, out, queueVars>>

(* send_evg_msg(req->_fd, json_str): to whoever is behind that descriptor  *)
(* now; a closed descriptor or a client that has gone loses the reply.     *)
Deliver(w) ==
    LET c == peer[got[w].fd]
    IN  replies' = IF c = NoClient \/ c \in closed THEN replies
                   ELSE [replies EXCEPT ![c] = Append(@, [req |-> got[w], out |-> out[w]])]

Send_Repeated(w) ==                                         \* mutant
    /\ stage[w] = "send"
    /\ Deliver(w)
    /\ \/ Q!Finish(w) /\ stage' = [stage EXCEPT ![w] = "idle"]
       \/ UNCHANGED <<stage, queueVars>>
    /\ UNCHANGED <<peer, opened, closed, inbox, sent, g_mode, out, poolVars>>

Send(w) ==
    /\ stage[w] = "send"
    /\ Deliver(w)
    /\ Q!Finish(w)
    /\ stage' = [stage EXCEPT ![w] = "idle"]
    /\ UNCHANGED <<peer, opened, closed, inbox, sent, g_mode, out, poolVars>>

WorkerNext(w) == GetReq(w) \/ Parse(w) \/ GetHandler(w) \/ Serve(w) \/ PutHandler(w) \/ Send(w)

Next ==
    \/ \E c \in Client : ClientSend(c) \/ ClientClose(c)
    \/ ReactorNext
    \/ \E w \in Worker : WorkerNext(w)

Spec == Init /\ [][Next]_vars

(* The reactor's loop never stops and epoll reports every ready descriptor *)
(* (level triggered); worker threads loop for ever.  Clients owe nothing.  *)
Fairness ==
    /\ \A fd \in Fd : WF_vars(Read(fd)) /\ WF_vars(CloseFd(fd))
    /\ WF_vars(CheckFull) /\ WF_vars(Push)
    /\ \A w \in Worker : WF_vars(WorkerNext(w))

FairSpec == Spec /\ Fairness

----------------------------------------------------------------------------
(* The reply a worker sends reaches the client the request came from       *)
(* (request.h:51, "_fd; // fd of the front end").                          *)
ReplyToAsker == \A c \in Client : \A k \in 1..Len(replies[c]) :
    replies[c][k].req.from = c

(* Some client has closed without waiting for a reply it is owed.          *)
LeftEarly == \E c \in closed : ~AllAnswered(c)

(* While no client leaves early: the k-th reply a client reads answers its *)
(* k-th request, which is how test/cli.cpp and test/register.py pair them; *)
(* the reply carries no request number.                                    *)
PairedReplies == ~LeftEarly =>
    \A c \in Client : \A k \in 1..Len(replies[c]) :
        replies[c][k].req.from = c /\ replies[c][k].req.n = k

(* No request is answered twice, whatever the clients do and whoever gets  *)
(* a reused descriptor.                                                    *)
AtMostOneReply == \A c, d \in Client :
    \A i \in 1..Len(replies[c]), j \in 1..Len(replies[d]) :
        replies[c][i].req = replies[d][j].req => c = d /\ i = j

(* A request without its reply is in one place: the socket, the reactor,   *)
(* the queue, a worker, or among the rejected.                             *)
NothingLost == ~LeftEarly => \A c \in Client :
    sent[c] = Len(replies[c]) + Len(inbox[c])
              + (IF cur[Reactor] \in Request /\ cur[Reactor].from = c THEN 1 ELSE 0)
              + Cardinality({i \in 1..Len(items) : items[i].from = c})
              + Cardinality({w \in Worker : got[w].from = c})
              + Cardinality({r \in rejected \cup failed : r.from = c})

(* There is one reactor, so the queue cannot fill up between full() and    *)
(* push_req.                                                               *)
PushAfterCheckSucceeds == Q!PushAfterCheckSucceeds

(* A client that waits is answered in the end, or met a full queue.        *)
EveryRequestAnswered == \A c \in Client :
    ~AllAnswered(c) ~> (AllAnswered(c) \/ LeftEarly \/ \E r \in rejected : r.from = c)

(* A request turned away by a full queue is told so ("req mgt is full.",   *)
(* req_tcp_event_handler.cpp:170).                                         *)
BusyIsAnswered == \A c \in Client :
    (\E r \in rejected : r.from = c) ~> (AllAnswered(c) \/ c \in closed)

(* A face is served in the mode its request asked for (test/cli.cpp:464,   *)
(* "1: test mode").                                                        *)
ServedInAskedMode == \A c \in Client : \A k \in 1..Len(replies[c]) :
    LET a == replies[c][k]
    IN  a.out.what = "result" /\ a.req.mode # AbsentMode => a.out.mode = a.req.mode
=============================================================================
