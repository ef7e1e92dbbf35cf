---------------------------- MODULE AbstractPool ----------------------------
(***************************************************************************)
(* What Face_Handler_Mgt promises its callers, without counter, mutex or   *)
(* condition variable: a handler has at most one owner, and a caller is    *)
(* turned away only while every handler has one.                           *)
(***************************************************************************)
EXTENDS Naturals

CONSTANTS Worker, HandlerNum

Handler == 1..HandlerNum

VARIABLES
    owner,      \* owner[h]: the workers that hold h
    refused     \* the workers whose last call came back without a handler

vars == <<owner, refused>>

Owns(w) == \E h \in Handler : w \in owner[h]

Init ==
    /\ owner = [h \in Handler |-> {}]
    /\ refused = {}

Acquire(w, h) ==
    /\ ~Owns(w) /\ w \notin refused
    /\ owner[h] = {}
    /\ owner' = [owner EXCEPT ![h] = {w}]
    /\ UNCHANGED refused

Refuse(w) ==
    /\ ~Owns(w) /\ w \notin refused
    /\ \A h \in Handler : owner[h] # {}
    /\ refused' = refused \cup {w}
    /\ UNCHANGED owner

Release(w, h) ==
    /\ owner[h] = {w}
    /\ owner' = [owner EXCEPT ![h] = {}]
    /\ UNCHANGED refused

GiveUp(w) ==
    /\ w \in refused
    /\ refused' = refused \ {w}
    /\ UNCHANGED owner

Next == \E w \in Worker :
    \/ Refuse(w)
    \/ GiveUp(w)
    \/ \E h \in Handler : Acquire(w, h) \/ Release(w, h)

Spec == Init /\ [][Next]_vars
=============================================================================
