------------------------------- MODULE Framing -------------------------------
(***************************************************************************)
(* How the reactor thread cuts the byte streams of its connections into    *)
(* requests: Reactor::svc over epoll, Req_TCP_Event_Handler::handle_input, *)
(* and Socket_Oper::recv and recv_n on non-blocking sockets.  A frame is a *)
(* length of four bytes, big-endian, and a body of that length.            *)
(*                                                                         *)
(* Connections are already accepted; what happens to a request that was    *)
(* read is in ReqQueue and FaceService.                                    *)
(***************************************************************************)
EXTENDS Naturals, Sequences

CONSTANTS Conn, NoConn, \* the connections; none
          Base,         \* values of a byte: 256
          Stream,       \* Stream[c]: the bytes client c has to send
          Start         \* Start[c][i]: bytes before frame i; the last entry
                        \* is the length of the stream

HeaderLen == 4          \* sizeof(buf_len)

Frames(c) == 1..(Len(Start[c]) - 1)

(* ntohl(buf_len) when the one recv for the header yields n bytes after    *)
(* the first pos of the stream; buf_len was 0 before.                      *)
Length(c, pos, n) ==
    LET byte(i) == IF i <= n THEN Stream[c][pos + i] ELSE 0
    IN  Base * (Base * (Base * byte(1) + byte(2)) + byte(3)) + byte(4)

ASSUME ConnAssumption == NoConn \notin Conn
ASSUME BaseAssumption == Base \in Nat
ASSUME StreamAssumption == Stream \in [Conn -> Seq(0..(Base - 1))]

(* Clients send whole frames with bodies that are not empty.               *)
ASSUME StartAssumption ==
    /\ Start \in [Conn -> Seq(Nat)]
    /\ \A c \in Conn :
          /\ Start[c] # <<>> /\ Start[c][1] = 0
          /\ Start[c][Len(Start[c])] = Len(Stream[c])
          /\ \A i, j \in 1..Len(Start[c]) : i < j => Start[c][i] < Start[c][j]
          /\ \A i \in Frames(c) :
                /\ Start[c][i] + HeaderLen < Start[c][i + 1]
                /\ Start[c][i + 1] = Start[c][i] + HeaderLen
                                     + Length(c, Start[c][i], HeaderLen)

VARIABLES
    arrived,    \* arrived[c]: bytes that reached the server's socket
    end,        \* end[c]: whether the client has closed, or reset
    read,       \* read[c]: bytes the server has read
    open,       \* open[c]: c is in _handlers and in the epoll set
    batch,      \* events of the last epoll_wait still to be handled
    cur,        \* the connection whose body recv_n is reading
    from, want, \* where that body starts; the length the header gave
    tried,      \* has recv_n called ::recv (so that it looks at the clock)?
    taken,      \* taken[c]: the spans of the stream that became requests
    upset       \* history: a header came in pieces, or a body timed out

clientVars == <<arrived, end>>
recvVars == <<cur, from, want, tried>>
vars == <<clientVars, read, open, batch, recvVars, taken, upset>>

TypeOK ==
    /\ arrived \in [Conn -> Nat] /\ read \in [Conn -> Nat]
    /\ \A c \in Conn : read[c] <= arrived[c] /\ arrived[c] <= Len(Stream[c])
    /\ end \in [Conn -> {"open", "fin", "reset"}]
    /\ open \in [Conn -> BOOLEAN]
    /\ batch \subseteq Conn /\ upset \subseteq Conn
    /\ cur \in Conn \cup {NoConn}
    /\ from \in Nat /\ want \in Nat /\ tried \in BOOLEAN
    /\ taken \in [Conn -> Seq(Nat \X Nat)]

Init ==
    /\ arrived = [c \in Conn |-> 0] /\ read = [c \in Conn |-> 0]
    /\ end = [c \in Conn |-> "open"]
    /\ open = [c \in Conn |-> TRUE]
    /\ batch = {} /\ upset = {}
    /\ cur = NoConn /\ from = 0 /\ want = 0 /\ tried = FALSE
    /\ taken = [c \in Conn |-> <<>>]

----------------------------------------------------------------------------
(* The clients and the network: bytes arrive in pieces of any size, and a  *)
(* client may close, or reset, anywhere in its stream.                     *)
Arrive(c) ==
    /\ open[c] /\ end[c] = "open"
    /\ \E n \in (arrived[c] + 1)..Len(Stream[c]) :
          arrived' = [arrived EXCEPT ![c] = n]
    /\ UNCHANGED <<end, read, open, batch, recvVars, taken, upset>>

Leave(c) ==
    /\ open[c] /\ end[c] = "open"
    /\ \E how \in {"fin", "reset"} : end' = [end EXCEPT ![c] = how]
    /\ UNCHANGED <<arrived, read, open, batch, recvVars, taken, upset>>

----------------------------------------------------------------------------
Unread(c) == arrived[c] - read[c]

AtMost(m, n) == IF m <= n THEN m ELSE n

Ready_BytesOnly == {c \in Conn : open[c] /\ Unread(c) > 0}          \* mutant

(* What epoll_wait reports, level-triggered.                               *)
Ready == {c \in Conn : open[c] /\ (Unread(c) > 0 \/ end[c] # "open")}

(* epoll_wait at the head of svc.                                          *)
Wait ==
    /\ cur = NoConn /\ batch = {}
    /\ Ready # {}
    /\ batch' = Ready
    /\ UNCHANGED <<clientVars, read, open, recvVars, taken, upset>>

(* handle_input returned -1: svc closes the descriptor.                    *)
Close(c) == open' = [open EXCEPT ![c] = FALSE]

(* The next event of the batch.                                            *)
Dispatch(c) == cur = NoConn /\ c \in batch /\ batch' = batch \ {c}

(* recv for the header yields what is there, up to four bytes; whatever    *)
(* that was, recv_n for the body follows.                                  *)
Header_CountsFour(c) ==                                             \* mutant
    /\ Dispatch(c) /\ Unread(c) > 0
    /\ cur' = c /\ tried' = FALSE
    /\ LET n == AtMost(Unread(c), HeaderLen)
       IN  /\ read' = [read EXCEPT ![c] = @ + HeaderLen]
           /\ from' = read[c] + HeaderLen
           /\ want' = Length(c, read[c], n)
           /\ upset' = IF n < HeaderLen THEN upset \cup {c} ELSE upset
    /\ UNCHANGED <<clientVars, open, taken>>

Header(c) ==
    /\ Dispatch(c) /\ Unread(c) > 0
    /\ cur' = c /\ tried' = FALSE
    /\ LET n == AtMost(Unread(c), HeaderLen)
       IN  /\ read' = [read EXCEPT ![c] = @ + n]
           /\ from' = read[c] + n
           /\ want' = Length(c, read[c], n)
           /\ upset' = IF n < HeaderLen THEN upset \cup {c} ELSE upset
    /\ UNCHANGED <<clientVars, open, taken>>

(* recv for the header returns 0: the client has closed.                   *)
HeaderEof_HangupFirst(c) ==                                         \* mutant
    /\ Dispatch(c) /\ end[c] = "fin"
    /\ Close(c)
    /\ UNCHANGED <<clientVars, read, recvVars, taken, upset>>

HeaderEof(c) ==
    /\ Dispatch(c) /\ Unread(c) = 0 /\ end[c] = "fin"
    /\ Close(c)
    /\ UNCHANGED <<clientVars, read, recvVars, taken, upset>>

(* The socket's error is reported once, then it reads as closed; after an  *)
(* error handle_input returns 0 and the connection stays.                  *)
HeaderError(c) ==
    /\ Dispatch(c) /\ Unread(c) = 0 /\ end[c] = "reset"
    /\ end' = [end EXCEPT ![c] = "fin"]
    /\ UNCHANGED <<arrived, read, open, recvVars, taken, upset>>

----------------------------------------------------------------------------
(* recv_n for the body: the reactor polls the one connection.              *)
Missing == from + want - read[cur]

(* handle_input returns, and its locals are gone.                          *)
Return == cur' = NoConn /\ from' = 0 /\ want' = 0 /\ tried' = FALSE

RecvSome_Once ==                                                    \* mutant
    /\ cur \in Conn /\ Missing > 0 /\ Unread(cur) > 0
    /\ LET n == AtMost(Unread(cur), Missing)
       IN  /\ read' = [read EXCEPT ![cur] = @ + n]
           /\ taken' = [taken EXCEPT ![cur] = Append(@, <<from, from + n>>)]
    /\ Return
    /\ UNCHANGED <<clientVars, open, batch, upset>>

RecvSome ==
    /\ cur \in Conn /\ Missing > 0 /\ Unread(cur) > 0
    /\ read' = [read EXCEPT ![cur] = @ + AtMost(Unread(cur), Missing)]
    /\ \/ /\ Unread(cur) >= Missing
          /\ taken' = [taken EXCEPT ![cur] = Append(@, <<from, from + want>>)]
          /\ Return
       \/ /\ Unread(cur) < Missing
          /\ tried' = TRUE
          /\ UNCHANGED <<taken, cur, from, want>>
    /\ UNCHANGED <<clientVars, open, batch, upset>>

(* EAGAIN.                                                                 *)
RecvNothing ==
    /\ cur \in Conn /\ Unread(cur) = 0 /\ end[cur] = "open"
    /\ ~tried /\ tried' = TRUE
    /\ UNCHANGED <<clientVars, read, open, batch, cur, from, want, taken, upset>>

(* ::recv returns 0: the client has closed, or the length was 0.           *)
RecvEof ==
    /\ cur \in Conn
    /\ want = 0 \/ (Unread(cur) = 0 /\ end[cur] = "fin")
    /\ Close(cur)
    /\ Return
    /\ UNCHANGED <<clientVars, read, batch, taken, upset>>

RecvError ==
    /\ cur \in Conn /\ Unread(cur) = 0 /\ end[cur] = "reset"
    /\ end' = [end EXCEPT ![cur] = "fin"]
    /\ Return
    /\ UNCHANGED <<arrived, read, open, batch, taken, upset>>

Timeout_Never == FALSE /\ UNCHANGED vars                            \* mutant

(* The second has passed since recv_n began, whether or not bytes came:    *)
(* what was read is dropped and the connection stays.                      *)
Timeout ==
    /\ cur \in Conn /\ tried
    /\ upset' = upset \cup {cur}
    /\ Return
    /\ UNCHANGED <<clientVars, read, open, batch, taken>>

Client == \E c \in Conn : Arrive(c) \/ Leave(c)

Recv == RecvSome \/ RecvNothing \/ RecvEof \/ RecvError \/ Timeout

Reactor ==
    \/ Wait
    \/ \E c \in Conn : Header(c) \/ HeaderEof(c) \/ HeaderError(c)
    \/ Recv

Next == Client \/ Reactor

Spec == Init /\ [][Next]_vars

(* The reactor thread calls svc for ever, and recv_n reads the clock in    *)
(* every turn of its loop.  Clients and network owe nothing.               *)
FairSpec == Spec /\ WF_vars(Reactor)

----------------------------------------------------------------------------
(* Whatever pieces the bytes arrive in and wherever other connections      *)
(* stall, the requests handle_input builds from a connection that was not  *)
(* upset are its client's frames, in order, from the first byte of a body  *)
(* to the last.                                                            *)
FramesIntact ==
    \A c \in Conn \ upset : \A i \in 1..Len(taken[c]) :
        i \in Frames(c) /\ taken[c][i] = <<Start[c][i] + HeaderLen, Start[c][i + 1]>>

(* When svc closes a connection that was not upset, every frame of which   *)
(* the last byte had arrived has become a request, also when the client's  *)
(* close or reset was there before the frame was read.                     *)
NoArrivedFrameLost ==
    \A c \in Conn \ upset : ~open[c] =>
        \A i \in Frames(c) : Start[c][i + 1] <= arrived[c] => i <= Len(taken[c])

(* A client whose frames have all arrived gets them all read, or is upset, *)
(* even if another client stops in the middle of a frame.                  *)
EveryFrameTaken == \A c \in Conn :
    arrived[c] = Len(Stream[c]) ~>
        (c \in upset \/ Len(taken[c]) = Len(Start[c]) - 1)

(* A connection its client has left is closed in the end, upset or not.    *)
LeaveIsNoticed == \A c \in Conn : end[c] # "open" ~> ~open[c]
=============================================================================
