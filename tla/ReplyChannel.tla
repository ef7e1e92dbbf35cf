---------------------------- MODULE ReplyChannel ----------------------------
(***************************************************************************)
(* How replies leave the server: Msg_Oper::send_evg_msg (msg_oper.cpp) and *)
(* Socket_Oper::send_n (base/base_socket_oper.cpp).                        *)
(*                                                                         *)
(* One mutex, the same for all connections, is held for the whole of       *)
(* send_n.  The socket does not block: send takes what the kernel has room *)
(* for, or nothing, and send_n tries again until everything is out or a    *)
(* second has gone by.  Then it gives up, wherever it is, and the          *)
(* connection stays open.  The clock is looked at before every attempt but *)
(* the first.                                                              *)
(*                                                                         *)
(* A message is Len units long: how many bytes a unit has does not matter, *)
(* only that a message can be cut.                                         *)
(***************************************************************************)
EXTENDS Server, Sequences

CONSTANTS
  MsgLen,     \* units in the reply to a request
  Room        \* units the kernel holds for a client that does not read

ASSUME ReplyAssumption == MsgLen \in Nat \ {0} /\ Room \in Nat \ {0}

VARIABLES
  mutex,      \* Msg_Oper::_mutex_msg
  len,        \* units of the message that are out (send_n's len)
  tried,      \* end_usec # 0: an attempt was made, the clock counts now
  wire,       \* everything the kernel took for the connection, in order
  unread,     \* how much of it the client has not read
  open,       \* whether the client is there
  cut         \* requests whose reply was given up

replyVars == <<mutex, len, tried, wire, unread, open, cut>>

Unit == [msg : Request, at : 1..MsgLen]

ReplyTypeOK ==
  /\ mutex \in Worker \cup {Nobody}
  /\ len \in 0..MsgLen
  /\ tried \in BOOLEAN
  /\ wire \in [Fd -> Seq(Unit)]
  /\ unread \in [Fd -> 0..Room]
  /\ open \in [Fd -> BOOLEAN]
  /\ cut \subseteq Request

ReplyInit ==
  /\ mutex = Nobody
  /\ len = 0
  /\ tried = FALSE
  /\ wire = [f \in Fd |-> <<>>]
  /\ unread = [f \in Fd |-> 0]
  /\ open = [f \in Fd |-> TRUE]
  /\ cut = {}

Acquire_NoLock(w) ==                                             \* mutant
  /\ mutex' = w
  /\ len' = 0
  /\ tried' = FALSE
  /\ UNCHANGED <<wire, unread, open, cut>>

Acquire(w) ==
  /\ mutex = Nobody
  /\ mutex' = w
  /\ len' = 0
  /\ tried' = FALSE
  /\ UNCHANGED <<wire, unread, open, cut>>

(* Units i..j of message m. *)
Units(m, i, j) == [k \in 1..(j + 1 - i) |-> [msg |-> m, at |-> i + k - 1]]

(* ::send takes k units: all that are left, or as many as there is room for.
   The last one ends send_n, which returns 0, and the mutex is released. *)
SendSome(w, f, m) ==
  /\ mutex = w
  /\ open[f]
  /\ \E k \in 1..(MsgLen - len) :
       /\ unread[f] + k <= Room
       /\ wire' = [wire EXCEPT ![f] = @ \o Units(m, len + 1, len + k)]
       /\ unread' = [unread EXCEPT ![f] = @ + k]
       /\ len' = len + k
       /\ tried' = TRUE
       /\ mutex' = IF len + k = MsgLen THEN Nobody ELSE w
  /\ UNCHANGED <<open, cut>>

(* EAGAIN: no room.  EINTR takes the same way, whatever room there is. *)
SendNothing(w, f) ==
  /\ mutex = w
  /\ open[f]
  /\ ~tried
  /\ tried' = TRUE
  /\ UNCHANGED <<mutex, len, wire, unread, open, cut>>

SendTimeout_BeforeFirst(w, m) ==                                 \* mutant
  /\ mutex = w /\ tried /\ len = 0
  /\ mutex' = Nobody
  /\ cut' = cut \cup {m}
  /\ UNCHANGED <<len, tried, wire, unread, open>>

(* The second is over: send_n returns 2. *)
SendTimeout(w, m) ==
  /\ mutex = w
  /\ tried
  /\ mutex' = Nobody
  /\ cut' = cut \cup {m}
  /\ UNCHANGED <<len, tried, wire, unread, open>>

(* The client is gone: ::send fails and send_n returns its result. *)
SendError(w, f, m) ==
  /\ mutex = w
  /\ ~open[f]
  /\ mutex' = Nobody
  /\ cut' = cut \cup {m}
  /\ UNCHANGED <<len, tried, wire, unread, open>>

(* The client reads, or leaves. *)
ClientReads(f) ==
  /\ unread[f] > 0
  /\ unread' = [unread EXCEPT ![f] = @ - 1]
  /\ UNCHANGED <<mutex, len, tried, wire, open, cut>>

ClientLeaves(f) ==
  /\ open[f]
  /\ open' = [open EXCEPT ![f] = FALSE]
  /\ UNCHANGED <<mutex, len, tried, wire, unread, cut>>

---------------------------------------------------------------------------
(* Whether unit b may follow unit a on a connection. *)
Follows(a, b) ==
  IF b.msg = a.msg THEN b.at = a.at + 1
  ELSE b.at = 1 /\ (a.at = MsgLen \/ a.msg \in cut)

(* What a client sees is one reply after the other: replies of several
   workers to one connection do not mix, none is sent twice, and each is
   whole, except those that were given up and the one under way
   (send_evg_msg's mutex around send_n). *)
RepliesWhole == \A f \in Fd :
  /\ wire[f] # <<>> => Head(wire[f]).at = 1
  /\ \A k \in 1..Len(wire[f]) - 1 : Follows(wire[f][k], wire[f][k + 1])
  /\ \A j, k \in DOMAIN wire[f] : wire[f][j] = wire[f][k] => j = k
  /\ wire[f] # <<>> /\ wire[f][Len(wire[f])].at < MsgLen =>
       \/ wire[f][Len(wire[f])].msg \in cut
       \/ mutex # Nobody /\ len = wire[f][Len(wire[f])].at
=============================================================================
