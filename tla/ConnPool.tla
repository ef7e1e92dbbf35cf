------------------------------ MODULE ConnPool ------------------------------
(***************************************************************************)
(* The MySQL connection pool (mysql_mgt.cpp).  get_conn goes through the   *)
(* vector under the mutex of g_mysql_mgt and takes the first connection    *)
(* that is not marked as used; it never waits.  MySQL_Guard gives the      *)
(* connection back through another mysql_mgt object, the singleton, whose  *)
(* mutex is another one: the mark is taken off while somebody else may be  *)
(* in the middle of get_conn.  So the scan is not atomic here.             *)
(*                                                                         *)
(* Every connection of the vector is connected: init gives up otherwise,   *)
(* and nothing calls ping or release_conn afterwards.                      *)
(***************************************************************************)
EXTENDS Server

CONSTANT ExtraConn    \* EXTRA_CONNCTION_POOL_NUM

ASSUME ExtraConnAssumption == ExtraConn \in Nat

ConnNum_OneLess == Cardinality(Worker) + ExtraConn - 1          \* mutant

(* Conf_Mgt::refresh: one connection per worker, and some more. *)
ConnNum == Cardinality(Worker) + ExtraConn
Conn == 1..ConnNum
NoConn == 0

VARIABLES
  used,      \* _used of every connection
  scanner,   \* who holds the mutex of g_mysql_mgt
  itr,       \* where its scan is
  got        \* the connection each user has taken

poolVars == <<used, scanner, itr, got>>

PoolTypeOK ==
  /\ used \in [Conn -> BOOLEAN]
  /\ scanner \in Worker \cup {Nobody}
  /\ itr \in 1..(ConnNum + 1)
  /\ got \in [Worker -> Conn \cup {NoConn}]

PoolInit ==
  /\ used = [c \in Conn |-> FALSE]
  /\ scanner = Nobody
  /\ itr = 1
  /\ got = [w \in Worker |-> NoConn]

(* get_conn: the mutex is taken, the iterator stands at the beginning. *)
ScanBegin(w) ==
  /\ scanner = Nobody
  /\ got[w] = NoConn
  /\ scanner' = w
  /\ itr' = 1
  /\ UNCHANGED <<used, got>>

(* One more turn of the loop: this one is in use.  After the last one
   get_conn returns false and the mutex is released. *)
ScanOn(w) ==
  /\ scanner = w
  /\ itr \in Conn => used[itr]
  /\ IF itr \in Conn
     THEN itr' = itr + 1 /\ scanner' = w
     ELSE itr' = itr /\ scanner' = Nobody
  /\ UNCHANGED <<used, got>>

ScanTake_Unmarked(w) ==                                          \* mutant
  /\ scanner = w /\ itr \in Conn /\ ~used[itr]
  /\ got' = [got EXCEPT ![w] = itr]
  /\ scanner' = Nobody
  /\ UNCHANGED <<used, itr>>

(* This one is free: it is marked and the mutex is released. *)
ScanTake(w) ==
  /\ scanner = w
  /\ itr \in Conn
  /\ ~used[itr]
  /\ used' = [used EXCEPT ![itr] = TRUE]
  /\ got' = [got EXCEPT ![w] = itr]
  /\ scanner' = Nobody
  /\ UNCHANGED itr

(* ~MySQL_Guard: release, under the mutex of the other object. *)
release(w) ==
  /\ got[w] # NoConn
  /\ used' = [used EXCEPT ![got[w]] = FALSE]
  /\ got' = [got EXCEPT ![w] = NoConn]
  /\ UNCHANGED <<scanner, itr>>

PoolNext == \E w \in Worker :
  ScanBegin(w) \/ ScanOn(w) \/ ScanTake(w) \/ release(w)

PoolSpec == PoolInit /\ [][PoolNext]_poolVars

---------------------------------------------------------------------------
(* A connection, and with it an open transaction, belongs to one user at a
   time although release is not synchronised with get_conn. *)
ConnExclusive == \A v, w \in Worker :
  got[v] # NoConn /\ got[v] = got[w] => v = w

(* The pool is sized so that get_conn need not wait: a scan that reaches the
   end of the vector would mean a request refused for want of a connection. *)
ConnAlwaysFound == scanner # Nobody => itr \in Conn
=============================================================================
