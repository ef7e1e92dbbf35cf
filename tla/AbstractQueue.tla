--------------------------- MODULE AbstractQueue ---------------------------
(***************************************************************************)
(* What the request queue promises: requests leave it in the order they    *)
(* were accepted, each to exactly one consumer, and a request is rejected  *)
(* only while the queue is full.                                           *)
(***************************************************************************)
EXTENDS Naturals, Sequences

CONSTANTS Consumer, Req, NoReq, MaxSize

VARIABLES
    pending,    \* accepted, not yet delivered, in order
    got,        \* got[c]: the request consumer c works on, or NoReq
    rejected    \* the requests answered with "busy"

vars == <<pending, got, rejected>>

IsFull == MaxSize > 0 /\ Len(pending) >= MaxSize

Init ==
    /\ pending = <<>>
    /\ got = [c \in Consumer |-> NoReq]
    /\ rejected = {}

Accept(r) ==
    /\ ~IsFull
    /\ pending' = Append(pending, r)
    /\ UNCHANGED <<got, rejected>>

Reject(r) ==
    /\ IsFull
    /\ rejected' = rejected \cup {r}
    /\ UNCHANGED <<pending, got>>

Deliver(c) ==
    /\ got[c] = NoReq
    /\ pending # <<>>
    /\ got' = [got EXCEPT ![c] = Head(pending)]
    /\ pending' = Tail(pending)
    /\ UNCHANGED rejected

Finish(c) ==
    /\ got[c] # NoReq
    /\ got' = [got EXCEPT ![c] = NoReq]
    /\ UNCHANGED <<pending, rejected>>

Next ==
    \/ \E r \in Req : Accept(r) \/ Reject(r)
    \/ \E c \in Consumer : Deliver(c) \/ Finish(c)

Spec == Init /\ [][Next]_vars
=============================================================================
