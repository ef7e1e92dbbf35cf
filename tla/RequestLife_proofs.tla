------------------------- MODULE RequestLife_proofs -------------------------
(***************************************************************************)
(* Proofs about RequestLife and the components it is built from: first     *)
(* SharedPtr, for every set of objects and every finite set of pointer     *)
(* variables, whatever threads do with them; then ConnPool, for every      *)
(* finite set of workers and every number of extra connections.  The steps *)
(* of the server are steps of its components, so what is proved of a       *)
(* component for every use of it holds of the server.  Then what is the    *)
(* server's own: in whose hands a request is, and what its replies leave   *)
(* on the connections.                                                     *)
(***************************************************************************)
EXTENDS RequestLife, SequenceTheorems, FiniteSetTheorems, TLAPS

-----------------------------------------------------------------------------
(* Smart pointers (SharedPtr)                                              *)

(* An object never made, doomed or deleted has no pointers; together with
   ReferencesExact this is inductive. *)
PtrInv == PtrTypeOK /\ ReferencesExact

---------------------------------------------------------------------------
LEMMA PointersFinite ==
  ASSUME NEW o
  PROVE  IsFiniteSet(Pointers(o)) /\ Cardinality(Pointers(o)) \in Nat
<1>1. Pointers(o) \in SUBSET Slot
  BY DEF Pointers
<1>2. QED
  BY <1>1, SharedPtrAssumption, FS_Subset, FS_CardinalityType

(* What gaining and losing a pointer does to an object's pointers, and that
   nothing happens to the other objects'. *)
LEMMA Gain ==
  ASSUME PtrTypeOK, NEW s \in Slot, NEW o \in Object, ptr[s] = NullPtr,
         ptr' = [ptr EXCEPT ![s] = o]
  PROVE  /\ Cardinality(Pointers(o)') = Cardinality(Pointers(o)) + 1
         /\ Pointers(o)' # {}
         /\ \A p \in Object \ {o} : Pointers(p)' = Pointers(p)
<1>1. s \notin Pointers(o) /\ Pointers(o)' = Pointers(o) \cup {s}
  BY SharedPtrAssumption DEF PtrTypeOK, Pointers
<1>2. \A p \in Object \ {o} : Pointers(p)' = Pointers(p)
  BY SharedPtrAssumption DEF PtrTypeOK, Pointers
<1>3. QED
  BY <1>1, <1>2, PointersFinite, FS_AddElement

LEMMA Lose ==
  ASSUME PtrTypeOK, NEW s \in Slot, NEW o \in Object, ptr[s] = o,
         ptr' = [ptr EXCEPT ![s] = NullPtr]
  PROVE  /\ Cardinality(Pointers(o)') = Cardinality(Pointers(o)) - 1
         /\ Pointers(o) # {}
         /\ Pointers(o)' = {} <=> Cardinality(Pointers(o)) = 1
         /\ \A p \in Object \ {o} : Pointers(p)' = Pointers(p)
<1>1. s \in Pointers(o) /\ Pointers(o)' = Pointers(o) \ {s}
  BY SharedPtrAssumption DEF PtrTypeOK, Pointers
<1>2. \A p \in Object \ {o} : Pointers(p)' = Pointers(p)
  BY SharedPtrAssumption DEF PtrTypeOK, Pointers
<1>3. Cardinality(Pointers(o)') = Cardinality(Pointers(o)) - 1
  BY <1>1, PointersFinite, FS_RemoveElement
<1>4. IsFiniteSet(Pointers(o)')
  BY <1>1, PointersFinite, FS_RemoveElement
<1>5. Pointers(o)' = {} <=> Cardinality(Pointers(o)') = 0
  BY <1>4, FS_EmptySet
<1>6. QED
  BY <1>1, <1>2, <1>3, <1>5, PointersFinite

LEMMA InitPtrInv == PtrInit => PtrInv
<1> SUFFICES ASSUME PtrInit PROVE PtrInv
  OBVIOUS
<1>1. PtrTypeOK
  BY DEF PtrInit, PtrTypeOK, Life
<1>2. \A o \in Object : Pointers(o) = {}
  BY SharedPtrAssumption DEF PtrInit, Pointers
<1>3. QED
  BY <1>1, <1>2, FS_EmptySet DEF PtrInv, PtrInit, ReferencesExact

LEMMA ConstructKeeps ==
  ASSUME PtrInv, NEW s \in Slot, NEW o \in Object, Construct(s, o)
  PROVE  PtrInv'
<1> USE DEF PtrInv
<1>1. PtrTypeOK'
  BY DEF Construct, PtrTypeOK, Life, inc_ref
<1>2. count'[o] = Cardinality(Pointers(o)') /\ life'[o] = "alive" /\ Pointers(o)' # {}
  BY Gain DEF Construct, PtrTypeOK, ReferencesExact, inc_ref
<1>3. ASSUME NEW p \in Object \ {o}
      PROVE  count'[p] = count[p] /\ life'[p] = life[p] /\ Pointers(p)' = Pointers(p)
  BY Gain DEF Construct, PtrTypeOK
<1>4. QED
  BY <1>1, <1>2, <1>3 DEF ReferencesExact

LEMMA CopyKeeps ==
  ASSUME PtrInv, NEW s \in Slot, NEW t \in Slot, Copy(s, t)
  PROVE  PtrInv'
<1> USE DEF PtrInv
<1>0. PICK o \in Object : o = ptr[t] /\ t \in Pointers(o)
  BY DEF Copy, PtrTypeOK, Pointers
<1>1. PtrTypeOK'
  BY <1>0 DEF Copy, PtrTypeOK, inc_ref
<1>2. count'[o] = Cardinality(Pointers(o)') /\ life'[o] = "alive" /\ Pointers(o)' # {}
  BY <1>0, Gain DEF Copy, PtrTypeOK, ReferencesExact, inc_ref
<1>3. ASSUME NEW p \in Object \ {o}
      PROVE  count'[p] = count[p] /\ life'[p] = life[p] /\ Pointers(p)' = Pointers(p)
  BY <1>0, Gain DEF Copy, PtrTypeOK
<1>4. QED
  BY <1>1, <1>2, <1>3 DEF ReferencesExact

LEMMA DropKeeps ==
  ASSUME PtrInv, NEW s \in Slot, Drop(s)
  PROVE  PtrInv'
<1> USE DEF PtrInv
<1>0. PICK o \in Object : o = ptr[s]
  BY DEF Drop, PtrTypeOK
<1>1. PtrTypeOK'
  BY <1>0 DEF Drop, PtrTypeOK, Life, dec_ref
<1>2. /\ Cardinality(Pointers(o)') = Cardinality(Pointers(o)) - 1
      /\ Pointers(o) # {}
      /\ Pointers(o)' = {} <=> Cardinality(Pointers(o)) = 1
  BY <1>0, Lose DEF Drop
<1>3. count[o] = Cardinality(Pointers(o)) /\ life[o] = "alive" /\ count[o] \in Nat \ {0}
  <2>1. Cardinality(Pointers(o)) # 0
    BY <1>2, PointersFinite, FS_EmptySet
  <2>2. QED
    BY <1>0, <1>2, <2>1 DEF ReferencesExact, PtrTypeOK
<1>4. count'[o] = Cardinality(Pointers(o)')
  BY <1>0, <1>2, <1>3 DEF Drop, PtrTypeOK, dec_ref
<1>5. life'[o] = "alive" <=> Pointers(o)' # {}
  BY <1>0, <1>2, <1>3 DEF Drop, PtrTypeOK, dec_ref
<1>6. ASSUME NEW p \in Object \ {o}
      PROVE  count'[p] = count[p] /\ life'[p] = life[p] /\ Pointers(p)' = Pointers(p)
  BY <1>0, Lose DEF Drop, PtrTypeOK
<1>7. QED
  BY <1>1, <1>4, <1>5, <1>6 DEF ReferencesExact

LEMMA DeleteKeeps ==
  ASSUME PtrInv, NEW o \in Object, Delete(o)
  PROVE  PtrInv'
<1>1. \A p \in Object : Pointers(p)' = Pointers(p)
  BY DEF Delete, Pointers
<1>2. PtrTypeOK'
  BY DEF PtrInv, Delete, PtrTypeOK, Life
<1>3. QED
  BY <1>1, <1>2 DEF PtrInv, PtrTypeOK, Delete, ReferencesExact

LEMMA PtrStep == PtrInv /\ [PtrNext]_ptrVars => PtrInv'
<1> SUFFICES ASSUME PtrInv, [PtrNext]_ptrVars PROVE PtrInv'
  OBVIOUS
<1>1. CASE UNCHANGED ptrVars
  BY <1>1 DEF PtrInv, PtrTypeOK, ReferencesExact, Pointers, ptrVars
<1>2. QED
  BY <1>1, ConstructKeeps, CopyKeeps, DropKeeps, DeleteKeeps DEF PtrNext

---------------------------------------------------------------------------
(* However the threads interleave, a counted object is deleted once and only
   when its last pointer is gone (base_smart_ptr_t.h). *)
THEOREM PtrInvariant == PtrSpec => []PtrInv
BY InitPtrInv, PtrStep, PTL DEF PtrSpec

(* A count is always the number of pointers to the object, which lives exactly
   as long as there is one (Smart_Ptr_T, RefCounter). *)
THEOREM CountsAreExact == PtrSpec => []ReferencesExact
<1>1. PtrInv => ReferencesExact
  BY DEF PtrInv
<1>2. QED
  BY <1>1, PtrInvariant, PTL

-----------------------------------------------------------------------------
(* The connection pool (ConnPool)                                          *)

(* The connections a scan has still to look at and will find in use. *)
UsedAhead == {c \in itr..ConnNum : used[c]}

(* The inductive invariant.  The last conjunct is why a scan finds
   something: a connection it has passed was in use by a worker that cannot
   have taken another one since, because the scanner holds the mutex; so the
   connections passed and those in use ahead of the scan together are fewer
   than the workers. *)
PoolInv ==
  /\ PoolTypeOK
  /\ ConnExclusive
  /\ \A c \in Conn : used[c] <=> \E w \in Worker : got[w] = c
  /\ scanner # Nobody => got[scanner] = NoConn
  /\ scanner # Nobody => Cardinality(UsedAhead) + itr <= Cardinality(Worker)

---------------------------------------------------------------------------
LEMMA WorkersCounted == Cardinality(Worker) \in Nat \ {0} /\ ConnNum \in Nat \ {0}
<1>1. Cardinality(Worker) \in Nat
  BY WorkerAssumption, FS_CardinalityType
<1>2. Cardinality(Worker) # 0
  BY WorkerAssumption, FS_EmptySet
<1>3. QED
  BY <1>1, <1>2, ExtraConnAssumption DEF ConnNum

(* A set of connections is finite. *)
LEMMA ConnsFinite ==
  ASSUME NEW a \in Nat \ {0}, NEW T \in SUBSET (a..ConnNum)
  PROVE  IsFiniteSet(T) /\ Cardinality(T) \in Nat
<1>1. IsFiniteSet(a..ConnNum)
  BY WorkersCounted, FS_Interval
<1>2. QED
  BY <1>1, FS_Subset, FS_CardinalityType

(* When a worker without a connection begins to scan, fewer connections are
   in use than there are workers. *)
LEMMA ScanBeginsWithFree ==
  ASSUME PoolInv, NEW w \in Worker, ScanBegin(w)
  PROVE  Cardinality(UsedAhead') + 1 <= Cardinality(Worker)
<1> DEFINE Others == Worker \ {w}
           Holder == [c \in UsedAhead' |-> CHOOSE v \in Worker : got[v] = c]
<1>1. UsedAhead' = {c \in Conn : used[c]}
  BY DEF ScanBegin, UsedAhead, Conn
<1>2. IsFiniteSet(Others) /\ Cardinality(Others) = Cardinality(Worker) - 1
  BY WorkerAssumption, FS_RemoveElement
<1>3. ASSUME NEW c \in UsedAhead'
      PROVE  Holder[c] \in Others /\ got[Holder[c]] = c
  <2>1. c \in Conn /\ used[c]
    BY <1>1, <1>3
  <2>2. \E v \in Worker : got[v] = c
    BY <2>1 DEF PoolInv
  <2>3. Holder[c] \in Worker /\ got[Holder[c]] = c
    BY <1>3, <2>2
  <2>4. c # NoConn
    BY <2>1 DEF Conn, NoConn
  <2>5. Holder[c] # w
    BY <2>3, <2>4 DEF ScanBegin
  <2>6. QED
    BY <2>3, <2>5
<1>4. Holder \in [UsedAhead' -> Others]
  BY <1>3
<1>5. \A c, d \in UsedAhead' : Holder[c] = Holder[d] => c = d
  BY <1>3
<1>6. Holder \in Injection(UsedAhead', Others)
  BY <1>4, <1>5 DEF Injection, IsInjective
<1>7. Cardinality(UsedAhead') <= Cardinality(Others)
  BY <1>2, <1>6, FS_Injection
<1>8. Cardinality(UsedAhead') \in Nat
  <2>1. UsedAhead' \in SUBSET (1..ConnNum)
    BY <1>1 DEF Conn
  <2>2. QED
    BY <2>1, ConnsFinite
<1>9. QED
  BY <1>2, <1>7, <1>8, WorkersCounted

(* A turn of the loop passes one used connection: one fewer is ahead. *)
LEMMA ScanOnPasses ==
  ASSUME PoolInv, NEW w \in Worker, ScanOn(w), itr \in Conn
  PROVE  Cardinality(UsedAhead') = Cardinality(UsedAhead) - 1
<1>1. itr \in UsedAhead /\ UsedAhead' = UsedAhead \ {itr}
  BY WorkersCounted DEF PoolInv, PoolTypeOK, ScanOn, UsedAhead, Conn
<1>2. IsFiniteSet(UsedAhead)
  <2>1. itr \in Nat \ {0} /\ UsedAhead \in SUBSET (itr..ConnNum)
    BY WorkersCounted DEF Conn, UsedAhead
  <2>2. QED
    BY <2>1, ConnsFinite
<1>3. QED
  BY <1>1, <1>2, FS_RemoveElement

LEMMA ScanFinds == PoolInv => ConnAlwaysFound
<1> SUFFICES ASSUME PoolInv, scanner # Nobody PROVE itr \in Conn
  BY DEF ConnAlwaysFound
<1>1. Cardinality(UsedAhead) \in Nat
  BY ConnsFinite, WorkersCounted DEF PoolInv, PoolTypeOK, UsedAhead
<1>2. itr <= Cardinality(Worker)
  BY <1>1, WorkersCounted DEF PoolInv, PoolTypeOK
<1>3. QED
  BY <1>2, WorkersCounted, ExtraConnAssumption DEF PoolInv, PoolTypeOK, Conn, ConnNum

LEMMA InitPoolInv == PoolInit => PoolInv
BY WorkersCounted DEF PoolInit, PoolInv, PoolTypeOK, ConnExclusive, Conn, NoConn

LEMMA BeginKeeps ==
  ASSUME PoolInv, NEW w \in Worker, ScanBegin(w)
  PROVE  PoolInv'
<1>1. Cardinality(UsedAhead') + 1 <= Cardinality(Worker)
  BY ScanBeginsWithFree
<1>2. PoolTypeOK' /\ ConnExclusive'
  BY WorkersCounted DEF PoolInv, PoolTypeOK, ConnExclusive, ScanBegin
<1>3. QED
  BY <1>1, <1>2 DEF PoolInv, ScanBegin

LEMMA OnKeeps ==
  ASSUME PoolInv, NEW w \in Worker, ScanOn(w)
  PROVE  PoolInv'
<1>1. w # Nobody /\ itr \in Conn
  BY ScanFinds, WorkerAssumption DEF ConnAlwaysFound, ScanOn
<1>2. Cardinality(UsedAhead) \in Nat
  BY ConnsFinite, WorkersCounted DEF PoolInv, PoolTypeOK, UsedAhead
<1>3. Cardinality(UsedAhead') = Cardinality(UsedAhead) - 1
  BY <1>1, ScanOnPasses
<1>4. Cardinality(UsedAhead') + itr' <= Cardinality(Worker)
  BY <1>1, <1>2, <1>3, WorkersCounted DEF PoolInv, PoolTypeOK, ScanOn
<1>5. PoolTypeOK' /\ ConnExclusive'
  BY <1>1, WorkersCounted DEF PoolInv, PoolTypeOK, ConnExclusive, ScanOn, Conn
<1>6. QED
  BY <1>1, <1>4, <1>5 DEF PoolInv, ScanOn

LEMMA TakeKeeps ==
  ASSUME PoolInv, NEW w \in Worker, ScanTake(w)
  PROVE  PoolInv'
<1>1. PoolTypeOK'
  BY DEF PoolInv, PoolTypeOK, ScanTake
<1>2. \A v \in Worker : got[v] # itr
  BY DEF PoolInv, ScanTake
<1>3. ConnExclusive'
  BY <1>2 DEF PoolInv, PoolTypeOK, ConnExclusive, ScanTake
<1>4. got[w] = NoConn
  BY WorkerAssumption DEF PoolInv, ScanTake
<1>5. ASSUME NEW c \in Conn PROVE used'[c] <=> \E v \in Worker : got'[v] = c
  <2>1. CASE c = itr
    BY <2>1 DEF PoolInv, PoolTypeOK, ScanTake
  <2>2. CASE c # itr
    <3>1. used'[c] <=> used[c]
      BY <2>2 DEF PoolInv, PoolTypeOK, ScanTake
    <3>2. \A v \in Worker : got'[v] = c <=> got[v] = c
      BY <1>4, <2>2 DEF PoolInv, PoolTypeOK, ScanTake, Conn, NoConn
    <3>3. QED
      BY <3>1, <3>2 DEF PoolInv
  <2>3. QED
    BY <2>1, <2>2
<1>6. QED
  BY <1>1, <1>3, <1>5 DEF PoolInv, ScanTake, Conn

(* A release takes at most something away from what is ahead of a scan. *)
LEMMA ReleaseKeeps ==
  ASSUME PoolInv, NEW w \in Worker, release(w)
  PROVE  PoolInv'
<1>0. got[w] \in Conn
  BY DEF PoolInv, PoolTypeOK, release
<1>1. PoolTypeOK'
  BY DEF PoolInv, PoolTypeOK, release
<1>2. ConnExclusive'
  BY DEF PoolInv, PoolTypeOK, ConnExclusive, release
<1>3. ASSUME NEW c \in Conn PROVE used'[c] <=> \E v \in Worker : got'[v] = c
  <2>1. c # NoConn
    BY DEF Conn, NoConn
  <2>2. CASE c = got[w]
    <3>1. ~used'[c]
      BY <2>2 DEF PoolInv, PoolTypeOK, release
    <3>2. \A v \in Worker : got'[v] # c
      BY <2>1, <2>2 DEF PoolInv, PoolTypeOK, ConnExclusive, release
    <3>3. QED
      BY <3>1, <3>2
  <2>3. CASE c # got[w]
    <3>1. used'[c] <=> used[c]
      BY <2>3 DEF PoolInv, PoolTypeOK, release
    <3>2. \A v \in Worker : got'[v] = c <=> got[v] = c
      BY <2>1, <2>3 DEF PoolInv, PoolTypeOK, release
    <3>3. QED
      BY <3>1, <3>2 DEF PoolInv
  <2>4. QED
    BY <2>2, <2>3
<1>4. scanner # Nobody => got'[scanner'] = NoConn
  BY DEF PoolInv, PoolTypeOK, release
<1>5. ASSUME scanner # Nobody
      PROVE  Cardinality(UsedAhead') + itr' <= Cardinality(Worker)
  <2>1. IsFiniteSet(UsedAhead) /\ Cardinality(UsedAhead) \in Nat
    BY ConnsFinite, WorkersCounted DEF PoolInv, PoolTypeOK, UsedAhead
  <2>2. UsedAhead' \in SUBSET UsedAhead
    BY <1>0, WorkersCounted DEF PoolInv, PoolTypeOK, UsedAhead, release, Conn
  <2>3. Cardinality(UsedAhead') <= Cardinality(UsedAhead) /\ IsFiniteSet(UsedAhead')
    BY <2>1, <2>2, FS_Subset
  <2>4. Cardinality(UsedAhead') \in Nat
    BY <2>3, FS_CardinalityType
  <2>5. QED
    BY <1>5, <2>1, <2>3, <2>4, WorkersCounted DEF PoolInv, PoolTypeOK, release
<1>6. QED
  BY <1>1, <1>2, <1>3, <1>4, <1>5 DEF PoolInv, release

LEMMA PoolStep == PoolInv /\ [PoolNext]_poolVars => PoolInv'
<1> SUFFICES ASSUME PoolInv, [PoolNext]_poolVars PROVE PoolInv'
  OBVIOUS
<1>1. CASE UNCHANGED poolVars
  BY <1>1 DEF PoolInv, PoolTypeOK, ConnExclusive, UsedAhead, poolVars
<1>2. ASSUME NEW w \in Worker,
             ScanBegin(w) \/ ScanOn(w) \/ ScanTake(w) \/ release(w)
      PROVE  PoolInv'
  BY <1>2, BeginKeeps, OnKeeps, TakeKeeps, ReleaseKeeps
<1>3. QED
  BY <1>1, <1>2 DEF PoolNext

---------------------------------------------------------------------------
(* The pool's invariant, for whatever order the workers come and go in. *)
THEOREM PoolInvariant == PoolSpec => []PoolInv
BY InitPoolInv, PoolStep, PTL DEF PoolSpec

(* A connection has one user at a time although release is not synchronised
   with get_conn (mysql_mgt.cpp:90). *)
THEOREM ConnectionExclusive == PoolSpec => []ConnExclusive
<1>1. PoolInv => ConnExclusive
  BY DEF PoolInv
<1>2. QED
  BY <1>1, PoolInvariant, PTL

(* With a connection per worker (conf_mgt.cpp:339) get_conn never comes to
   the end of the vector: no request is refused for want of a connection. *)
THEOREM ConnectionFound == PoolSpec => []ConnAlwaysFound
BY ScanFinds, PoolInvariant, PTL

-----------------------------------------------------------------------------
(* Start up, and the server as a whole                                     *)

(* Startup's inductive invariant: while run's loop goes round, the reference
   of the newest thread may be missing. *)
StartInv ==
  /\ StartTypeOK
  /\ fresh => stage = "workers" /\ running # {} /\ tries < Cardinality(Worker)
  /\ Cardinality(running) = refs + (IF fresh THEN 1 ELSE 0)
  /\ refs <= tries

---------------------------------------------------------------------------
(* Every pointer variable is a slot, every request and connection an object. *)
LEMMA SlotsAreSlots ==
  /\ Local \in Slot /\ Param \in Slot
  /\ \A r \in Request : Item(r) \in Slot
  /\ \A c \in Conn : Pooled(c) \in Slot
  /\ \A w \in Worker : Mine(w) \in Slot /\ ConnOf(w) \in Slot /\ Guard(w) \in Slot
  /\ Request \subseteq Object /\ Conn \subseteq Object
BY SlotAssumption DEF AllSlots, AllObjects

(* Which objects the request pointers may point to: without it the queue's
   element could be no slot. *)
Optional == Request \cup {NullPtr}
RoleInv ==
  /\ ptr[Local] \in Optional /\ ptr[Param] \in Optional
  /\ \A r \in Request : ptr[Item(r)] \in Optional
  /\ \A w \in Worker : ptr[Mine(w)] \in Optional
  /\ queue \in Seq(Request)
  /\ popper # Nobody => queue # <<>>

LEMMA InitRole == Init => RoleInv
BY SlotsAreSlots DEF Init, PtrInit, RoleInv, Optional

(* A pointer that takes over a request pointer points to a request. *)
LEMMA ReactorKeepsRole ==
  ASSUME PtrTypeOK, RoleInv, ReactorNext
  PROVE  RoleInv'
<1> USE SlotsAreSlots DEF RoleInv, Optional, PtrTypeOK, queueVars, ptrVars
<1>1. ASSUME NEW r \in Request, Receive(r) PROVE RoleInv'
  BY <1>1 DEF Receive, Construct
<1>2. CASE CheckFull
  BY <1>2 DEF CheckFull
<1>3. CASE PassParam
  BY <1>3 DEF PassParam, Copy
<1>4. CASE Push
  <2>1. CASE UNCHANGED <<ptrVars, queue>>
    BY <1>4, <2>1 DEF Push
  <2>2. CASE Copy(Item(ptr[Param]), Param) /\ queue' = Append(queue, ptr[Param])
    <3>1. ptr[Param] \in Request
      BY <2>2 DEF Copy
    <3>2. queue' \in Seq(Request) /\ popper' = Nobody
      BY <1>4, <2>2, <3>1 DEF Push
    <3>3. \A s \in Slot : ptr'[s] = ptr[s] \/ ptr'[s] = ptr[Param]
      BY <2>2 DEF Copy
    <3>4. QED
      BY <3>1, <3>2, <3>3
  <2>3. QED
    BY <1>4, <2>1, <2>2 DEF Push
<1>5. CASE DropParam \/ DropLocal
  BY <1>5 DEF DropParam, DropLocal, Drop
<1>6. QED
  BY <1>1, <1>2, <1>3, <1>4, <1>5 DEF ReactorNext

LEMMA WorkerKeepsRole ==
  ASSUME PtrTypeOK, RoleInv, NEW w \in Worker, WorkerNext(w)
  PROVE  RoleInv'
<1> USE SlotsAreSlots DEF RoleInv, Optional, PtrTypeOK, queueVars, ptrVars
<1>1. CASE PopFront(w)
  BY <1>1 DEF PopFront, Copy
<1>2. CASE PopErase(w)
  <2>1. queue # <<>>
    BY <1>2, WorkerAssumption DEF PopErase
  <2>2. QED
    BY <1>2, <2>1 DEF PopErase, Drop
<1>3. CASE GetConn(w)
  <2>1. CASE UNCHANGED ptrVars
    BY <1>3, <2>1 DEF GetConn
  <2>2. CASE Copy(ConnOf(w), Pooled(itr))
    <3>1. \A s \in Slot \ {ConnOf(w)} : ptr'[s] = ptr[s]
      BY <2>2 DEF Copy
    <3>2. QED
      BY <1>3, <3>1 DEF GetConn, Local, Param, Item, Mine, ConnOf
  <2>3. QED
    BY <1>3, <2>1, <2>2 DEF GetConn
<1>4. CASE MakeGuard(w)
  <2>1. \A s \in Slot \ {Guard(w)} : ptr'[s] = ptr[s]
    BY <1>4 DEF MakeGuard, Copy
  <2>2. QED
    BY <1>4, <2>1 DEF MakeGuard, Local, Param, Item, Mine, Guard
<1>5. CASE ReturnConn(w)
  <2>1. \A s \in Slot \ {Guard(w), ConnOf(w)} : ptr'[s] = ptr[s]
    BY <1>5 DEF ReturnConn, Drop
  <2>2. QED
    BY <1>5, <2>1 DEF ReturnConn, Local, Param, Item, Mine, Guard, ConnOf
<1>6. CASE DropRequest(w)
  BY <1>6 DEF DropRequest, Drop
<1>7. CASE Serve(w) \/ BeginReply(w) \/ SendReply(w)
  BY <1>7 DEF Serve, BeginReply, SendReply
<1>8. QED
  BY <1>1, <1>2, <1>3, <1>4, <1>5, <1>6, <1>7 DEF WorkerNext

LEMMA RoleStep == PtrTypeOK /\ RoleInv /\ [Next]_vars => RoleInv'
<1> SUFFICES ASSUME PtrTypeOK, RoleInv, [Next]_vars PROVE RoleInv'
  OBVIOUS
<1> USE DEF ptrVars, queueVars
<1>1. CASE UNCHANGED vars \/ StartStep \/ ClientNext
  BY <1>1 DEF vars, StartStep, ClientNext, RoleInv
<1>2. CASE MakeConn
  <2>1. PICK c \in Conn : Construct(Pooled(c), c) /\ UNCHANGED <<queue, popper>>
    BY <1>2 DEF MakeConn
  <2>2. \A s \in Slot \ {Pooled(c)} : ptr'[s] = ptr[s]
    BY <2>1, SlotsAreSlots DEF Construct, PtrTypeOK
  <2>3. QED
    BY <2>1, <2>2, SlotsAreSlots DEF RoleInv, Local, Param, Item, Mine, Pooled
<1>3. CASE DeleteObject
  BY <1>3 DEF DeleteObject, Delete, RoleInv
<1>4. QED
  BY <1>1, <1>2, <1>3, ReactorKeepsRole, WorkerKeepsRole DEF Next

---------------------------------------------------------------------------
(* Every step moves the counted pointers as SharedPtr says. *)
LEMMA ReactorMovesPointers ==
  ASSUME RoleInv, ReactorNext
  PROVE  [PtrNext]_ptrVars
<1> USE SlotsAreSlots DEF PtrNext, ptrVars
<1>1. ASSUME NEW r \in Request, Receive(r) PROVE [PtrNext]_ptrVars
  BY <1>1 DEF Receive
<1>2. CASE CheckFull
  BY <1>2 DEF CheckFull
<1>3. CASE PassParam
  BY <1>3 DEF PassParam
<1>4. CASE Push
  <2>1. CASE Copy(Item(ptr[Param]), Param)
    <3>1. ptr[Param] \in Request
      BY <2>1 DEF Copy, RoleInv, Optional
    <3>2. QED
      BY <2>1, <3>1
  <2>2. QED
    BY <1>4, <2>1 DEF Push
<1>5. CASE DropParam \/ DropLocal
  BY <1>5 DEF DropParam, DropLocal
<1>6. QED
  BY <1>1, <1>2, <1>3, <1>4, <1>5 DEF ReactorNext

LEMMA WorkerMovesPointers ==
  ASSUME RoleInv, PoolTypeOK, NEW w \in Worker, WorkerNext(w)
  PROVE  [PtrNext]_ptrVars
<1> USE SlotsAreSlots DEF PtrNext, ptrVars
<1>1. CASE PopFront(w)
  BY <1>1 DEF PopFront, RoleInv
<1>2. CASE PopErase(w)
  <2>1. Head(queue) \in Request
    BY <1>2, WorkerAssumption DEF PopErase, RoleInv
  <2>2. QED
    BY <1>2, <2>1 DEF PopErase
<1>3. CASE GetConn(w)
  <2>1. CASE ScanTake(w) /\ Copy(ConnOf(w), Pooled(itr))
    BY <2>1 DEF ScanTake
  <2>2. QED
    BY <1>3, <2>1 DEF GetConn
<1>4. CASE MakeGuard(w) \/ ReturnConn(w) \/ DropRequest(w)
  BY <1>4 DEF MakeGuard, ReturnConn, DropRequest
<1>5. CASE Serve(w) \/ BeginReply(w) \/ SendReply(w)
  BY <1>5 DEF Serve, BeginReply, SendReply
<1>6. QED
  BY <1>1, <1>2, <1>3, <1>4, <1>5 DEF WorkerNext

LEMMA MovesPointers == RoleInv /\ PoolTypeOK /\ [Next]_vars => [PtrNext]_ptrVars
<1> SUFFICES ASSUME RoleInv, PoolTypeOK, [Next]_vars PROVE [PtrNext]_ptrVars
  OBVIOUS
<1> USE SlotsAreSlots DEF ptrVars
<1>1. CASE UNCHANGED vars \/ StartStep \/ ClientNext
  BY <1>1 DEF vars, StartStep, ClientNext
<1>2. CASE MakeConn
  BY <1>2 DEF MakeConn, PtrNext
<1>3. CASE DeleteObject
  BY <1>3 DEF DeleteObject, PtrNext
<1>4. QED
  BY <1>1, <1>2, <1>3, ReactorMovesPointers, WorkerMovesPointers DEF Next

(* Every step uses the connection pool as ConnPool says. *)
LEMMA UsesPool == [Next]_vars => [PoolNext]_poolVars
<1> SUFFICES ASSUME [Next]_vars PROVE [PoolNext]_poolVars
  OBVIOUS
<1> USE DEF poolVars
<1>1. ASSUME NEW w \in Worker, WorkerNext(w) PROVE [PoolNext]_poolVars
  <2>1. CASE GetConn(w) \/ ReturnConn(w)
    BY <2>1 DEF GetConn, ReturnConn, PoolNext
  <2>2. CASE PopFront(w) \/ PopErase(w) \/ Serve(w) \/ MakeGuard(w)
    BY <2>2 DEF PopFront, PopErase, Serve, MakeGuard
  <2>3. CASE BeginReply(w) \/ SendReply(w) \/ DropRequest(w)
    BY <2>3 DEF BeginReply, SendReply, DropRequest
  <2>4. QED
    BY <1>1, <2>1, <2>2, <2>3 DEF WorkerNext
<1>2. CASE ReactorNext
  BY <1>2 DEF ReactorNext, Receive, CheckFull, PassParam, Push, DropParam, DropLocal
<1>3. CASE MakeConn \/ StartStep \/ DeleteObject \/ ClientNext \/ UNCHANGED vars
  BY <1>3 DEF MakeConn, StartStep, DeleteObject, ClientNext, vars
<1>4. QED
  BY <1>1, <1>2, <1>3 DEF Next

(* Only the start's own steps change how far it is. *)
LEMMA Starts == [Next]_vars => [StartNext]_startVars
<1> SUFFICES ASSUME [Next]_vars PROVE [StartNext]_startVars
  OBVIOUS
<1> USE DEF startVars
<1>1. ASSUME NEW w \in Worker, WorkerNext(w) PROVE UNCHANGED startVars
  <2>1. CASE PopFront(w) \/ PopErase(w) \/ Serve(w) \/ MakeGuard(w)
    BY <2>1 DEF PopFront, PopErase, Serve, MakeGuard
  <2>2. CASE GetConn(w) \/ ReturnConn(w)
    BY <2>2 DEF GetConn, ReturnConn
  <2>3. CASE BeginReply(w) \/ SendReply(w) \/ DropRequest(w)
    BY <2>3 DEF BeginReply, SendReply, DropRequest
  <2>4. QED
    BY <1>1, <2>1, <2>2, <2>3 DEF WorkerNext
<1>2. CASE ReactorNext
  BY <1>2 DEF ReactorNext, Receive, CheckFull, PassParam, Push, DropParam, DropLocal
<1>3. CASE MakeConn \/ StartStep \/ DeleteObject \/ ClientNext \/ UNCHANGED vars
  BY <1>3 DEF MakeConn, StartStep, DeleteObject, ClientNext, vars
<1>4. QED
  BY <1>1, <1>2, <1>3 DEF Next

---------------------------------------------------------------------------
LEMMA InitStart == StartInit => StartInv
<1>1. Cardinality(Worker) \in Nat /\ Cardinality({}) = 0
  BY WorkerAssumption, FS_CardinalityType, FS_EmptySet
<1>2. StartInit => StartTypeOK
  <2>1. StartInit => fresh \in BOOLEAN /\ detached \in BOOLEAN /\ serving \in BOOLEAN
    BY Zenon DEF StartInit
  <2>2. QED
    BY <1>1, <2>1 DEF StartInit, StartTypeOK, Stages
<1>3. QED
  BY <1>1, <1>2 DEF StartInit, StartInv

(* The steps between two stages. *)
LEMMA StageStep ==
  ASSUME StartInv, NEW s \in Stages \ {"workers"}, NEW t \in Stages, Then(s, t)
  PROVE  StartInv'
BY DEF StartInv, StartTypeOK, Then, runVars

LEMMA StartStepInv == StartInv /\ [StartNext]_startVars => StartInv'
<1> SUFFICES ASSUME StartInv, [StartNext]_startVars PROVE StartInv'
  OBVIOUS
<1> USE DEF StartInv, StartTypeOK, runVars
<1>1. IsFiniteSet(running) /\ Cardinality(running) \in Nat /\ Cardinality(Worker) \in Nat
  BY WorkerAssumption, FS_Subset, FS_CardinalityType
<1>2. CASE Configure \/ OpenLog \/ LoadUsers \/ MakeHandlers \/ Listen
  BY <1>2, StageStep DEF Configure, OpenLog, LoadUsers, MakeHandlers, Listen, Stages
<1>3. CASE GiveUpStart
  BY <1>3, StageStep, StartupAssumption DEF GiveUpStart, Stages
<1>4. CASE CreateThread
  <2>1. PICK w \in Worker \ running : running' = running \cup {w}
    BY <1>4 DEF CreateThread
  <2>2. Cardinality(running') = Cardinality(running) + 1
    BY <2>1, <1>1, FS_AddElement
  <2>3. QED
    BY <1>1, <1>4, <2>1, <2>2 DEF CreateThread
<1>5. CASE TakeThread
  <2>1. StartTypeOK'
    <3>1. fresh' \in BOOLEAN /\ detached' \in BOOLEAN
      BY <1>5, Zenon DEF TakeThread
    <3>2. QED
      BY <1>1, <1>5, <3>1 DEF TakeThread
  <2>2. Cardinality(running)' = refs' /\ refs' <= tries'
    BY <1>1, <1>5 DEF TakeThread
  <2>3. QED
    BY <1>5, <2>1, <2>2 DEF TakeThread
<1>6. CASE CreateFails
  <2>1. StartTypeOK'
    <3>1. fresh' \in BOOLEAN /\ detached' \in BOOLEAN
      BY <1>6, Zenon DEF CreateFails
    <3>2. QED
      BY <1>1, <1>6, <3>1 DEF CreateFails, Stages
  <2>2. Cardinality(running)' = refs' /\ refs' <= tries'
    BY <1>1, <1>6 DEF CreateFails
  <2>3. QED
    BY <1>6, <2>1, <2>2 DEF CreateFails
<1>7. CASE WorkersStarted
  BY <1>1, <1>7 DEF WorkersStarted, Stages
<1>8. CASE RunReactor \/ ReactorFails
  <2>1. StartTypeOK'
    BY <1>8 DEF RunReactor, ReactorFails, Stages
  <2>2. QED
    BY <1>8, <2>1 DEF RunReactor, ReactorFails
<1>9. CASE UNCHANGED startVars
  BY <1>9 DEF startVars
<1>10. QED
  BY <1>2, <1>3, <1>4, <1>5, <1>6, <1>7, <1>8, <1>9 DEF StartNext

---------------------------------------------------------------------------
(* The inductive invariant: those of the components, and the roles of the
   pointers, which say that the components' parameters are what they ask for. *)
ServerInv == PtrInv /\ PoolInv /\ RoleInv /\ StartInv

LEMMA InitServerInv == Init => ServerInv
BY InitPtrInv, InitPoolInv, InitRole, InitStart DEF Init, ServerInv

LEMMA ServerStep == ServerInv /\ [Next]_vars => ServerInv'
<1> SUFFICES ASSUME ServerInv, [Next]_vars PROVE ServerInv'
  OBVIOUS
<1>1. PtrTypeOK /\ PoolTypeOK
  BY DEF ServerInv, PtrInv, PoolInv
<1>2. PtrInv'
  BY <1>1, MovesPointers, PtrStep DEF ServerInv
<1>3. PoolInv'
  BY UsesPool, PoolStep DEF ServerInv
<1>4. RoleInv'
  BY <1>1, RoleStep DEF ServerInv
<1>5. StartInv'
  BY Starts, StartStepInv DEF ServerInv
<1>6. QED
  BY <1>2, <1>3, <1>4, <1>5 DEF ServerInv

(* The parts' invariants hold together in every state of the server, with what
   each place of a thread says about the pointers it owns (RoleInv). *)
THEOREM ServerInvariant == Spec => []ServerInv
BY InitServerInv, ServerStep, PTL DEF Spec

---------------------------------------------------------------------------
(* The whole server implements the counted pointers: whatever the reactor, the
   queue and the workers do with a pointer is one of Smart_Ptr_T's operations. *)
THEOREM ServerMovesPointers == Spec => PtrSpec
<1>1. Init => PtrInit
  BY DEF Init
<1>2. ServerInv /\ [Next]_vars => [PtrNext]_ptrVars
  BY MovesPointers DEF ServerInv, PoolInv
<1>3. QED
  BY <1>1, <1>2, ServerInvariant, PTL DEF Spec, PtrSpec

(* And the connection pool, whose release is not synchronised with its scan. *)
THEOREM ServerUsesPool == Spec => PoolSpec
<1>1. Init => PoolInit
  BY DEF Init
<1>2. QED
  BY <1>1, UsesPool, PTL DEF Spec, PoolSpec

(* No request and no connection of the server is used after its delete,
   deleted twice or forgotten, for any number of workers and requests. *)
THEOREM ServerCountsExactly == Spec => []ReferencesExact
BY ServerMovesPointers, CountsAreExact, PTL

(* No two workers ever hold the same connection, and none is refused one. *)
THEOREM ServerConnections == Spec => [](ConnExclusive /\ ConnAlwaysFound)
BY ServerUsesPool, ConnectionExclusive, ConnectionFound, PTL

---------------------------------------------------------------------------
(* The replies.  That they are whole rests on each request being answered
   by one worker, once: the reactor hands a request on once, the queue has it
   once, and one worker takes it. *)
Sent(r) == r \in cut \/ \E f \in Fd : \E k \in 1..Len(wire[f]) : wire[f][k].msg = r
Queued(r) == \E i \in 1..Len(queue) : queue[i] = r
Taken(r) == \E w \in Worker : ptr[Mine(w)] = r
Untouched(r) == ~Sent(r) /\ ~Queued(r) /\ ~Taken(r)

(* A request that is not made yet, or is in the reactor's hands and still
   to be pushed, is nowhere else. *)
HandInv ==
  /\ \A r \in Request : life[r] = "unmade" => Untouched(r)
  /\ at \in {"made", "pass", "push"} => ptr[Local] \in Request /\ Untouched(ptr[Local])
  /\ at = "push" => ptr[Param] = ptr[Local]

(* A request in the queue is there once and unanswered; a worker has it only
   between the two statements of pop. *)
WaitInv ==
  /\ \A i, j \in 1..Len(queue) : queue[i] = queue[j] => i = j
  /\ \A i \in 1..Len(queue) : ptr[Item(queue[i])] = queue[i] /\ ~Sent(queue[i])
  /\ \A i \in 1..Len(queue) : \A w \in Worker :
       ptr[Mine(w)] = queue[i] => i = 1 /\ popper = w

(* Where svc reads the request, works on it, and has not begun to answer. *)
Unanswered == {"popping", "serve", "scan", "scanning", "guard", "query", "unguard",
               "unconn", "reply"}

(* A worker has its own request from pop to the end of svc, unanswered up to
   send_n, and is in send_n while it has the mutex. *)
TakenInv ==
  /\ \A v, w \in Worker : ptr[Mine(v)] = ptr[Mine(w)] /\ ptr[Mine(w)] # NullPtr => v = w
  /\ \A w \in Worker :
       /\ pc[w] # "pop" => ptr[Mine(w)] \in Request
       /\ pc[w] \in Unanswered => ~Sent(ptr[Mine(w)])
       /\ pc[w] = "send" <=> mutex = w
       /\ pc[w] = "popping" <=> popper = w
       /\ popper = w => ptr[Mine(w)] = Head(queue)

HandsInv == HandInv /\ WaitInv /\ TakenInv

ThreadType ==
  /\ popper \in Worker \cup {Nobody}
  /\ at \in ReactorAt
  /\ pc \in [Worker -> PC]
  /\ fd \in [Request -> Fd]

(* The slots are different variables. *)
LEMMA SlotsApart ==
  /\ Local # Param
  /\ \A r \in Request : Item(r) # Local /\ Item(r) # Param
  /\ \A q, r \in Request : Item(q) = Item(r) => q = r
  /\ \A w \in Worker :
       /\ Mine(w) # Local /\ Mine(w) # Param
       /\ \A r \in Request : Item(r) # Mine(w)
       /\ \A v \in Worker : Mine(v) = Mine(w) => v = w
  /\ \A w \in Worker : \A s \in {ConnOf(w), Guard(w)} :
       /\ s # Local /\ s # Param
       /\ \A r \in Request : Item(r) # s
       /\ \A v \in Worker : Mine(v) # s
  /\ \A c \in Conn :
       /\ Pooled(c) # Local /\ Pooled(c) # Param
       /\ \A r \in Request : Item(r) # Pooled(c)
       /\ \A v \in Worker : Mine(v) # Pooled(c)
BY ReactorAssumption DEF Local, Param, Item, Mine, ConnOf, Guard, Pooled

LEMMA PointerMoves ==
  ASSUME PtrTypeOK, NEW s \in Slot
  PROVE  /\ \A o \in Object : Construct(s, o) =>
              /\ life[o] = "unmade"
              /\ \A x \in Slot : ptr'[x] = IF x = s THEN o ELSE ptr[x]
              /\ \A p \in Object : life'[p] = "unmade" => life[p] = "unmade" /\ p # o
         /\ \A t \in Slot : Copy(s, t) =>
              /\ ptr[t] # NullPtr
              /\ \A x \in Slot : ptr'[x] = IF x = s THEN ptr[t] ELSE ptr[x]
              /\ life' = life
         /\ Drop(s) =>
              /\ \A x \in Slot : ptr'[x] = IF x = s THEN NullPtr ELSE ptr[x]
              /\ \A p \in Object : life'[p] = "unmade" => life[p] = "unmade"
BY DEF PtrTypeOK, Construct, Copy, Drop

(* Steps that move no request from hand to hand. *)
HandsStill ==
  /\ UNCHANGED <<queue, popper, mutex, wire, cut>>
  /\ \A w \in Worker :
       /\ ptr'[Mine(w)] = ptr[Mine(w)]
       /\ pc'[w] = pc[w]
          \/ {pc[w], pc'[w]} \subseteq Unanswered \ {"popping"}
  /\ \A r \in Request : ptr'[Item(r)] = ptr[Item(r)]

LEMMA StillHands ==
  ASSUME RoleInv, WaitInv, TakenInv, HandsStill
  PROVE  /\ WaitInv' /\ TakenInv'
         /\ \A r \in Request : Untouched(r)' = Untouched(r)
<1>1. \A r : Sent(r)' = Sent(r) /\ Queued(r)' = Queued(r) /\ Taken(r)' = Taken(r)
  BY DEF HandsStill, Sent, Queued, Taken
<1>2. \A i \in 1..Len(queue) : queue[i] \in Request
  BY DEF RoleInv
<1>3. WaitInv'
  BY <1>1, <1>2 DEF HandsStill, WaitInv
<1>4. TakenInv'
  BY <1>1 DEF HandsStill, TakenInv, Unanswered
<1>5. QED
  BY <1>1, <1>3, <1>4 DEF Untouched

(* Besides the hands, the reactor's place and its two pointers. *)
ReactorStill ==
  /\ at' = at
  /\ ptr'[Local] = ptr[Local] /\ ptr'[Param] = ptr[Param]
  /\ \A r \in Request : life'[r] = "unmade" => life[r] = "unmade"

LEMMA BystanderStep ==
  ASSUME PtrTypeOK, PoolTypeOK,
         \/ MakeConn \/ StartStep \/ DeleteObject \/ ClientNext \/ UNCHANGED vars
         \/ \E w \in Worker : Serve(w) \/ GetConn(w) \/ MakeGuard(w) \/ ReturnConn(w)
  PROVE  HandsStill /\ ReactorStill
<1> USE SlotsAreSlots DEF HandsStill, ReactorStill, queueVars, replyVars
<1>1. CASE MakeConn
  <2>1. PICK c \in Conn : Construct(Pooled(c), c)
    BY <1>1 DEF MakeConn
  <2>2. QED
    BY <1>1, <2>1, PointerMoves, SlotsApart DEF MakeConn
<1>2. CASE StartStep \/ ClientNext \/ UNCHANGED vars
  BY <1>2 DEF StartStep, ClientNext, ClientReads, ClientLeaves, vars, ptrVars
<1>3. CASE DeleteObject
  BY <1>3 DEF DeleteObject, Delete, PtrTypeOK
<1>4. ASSUME NEW w \in Worker, NEW p, NEW q, Goto(w, p, q),
             {p, q} \subseteq Unanswered \ {"popping"}
      PROVE  \A v \in Worker :
               pc'[v] = pc[v] \/ {pc[v], pc'[v]} \subseteq Unanswered \ {"popping"}
  BY <1>4 DEF Goto
<1>5. ASSUME NEW w \in Worker, Serve(w) PROVE HandsStill /\ ReactorStill
  <2>1. PICK q \in {"scan", "reply"} : Goto(w, "serve", q)
    BY <1>5 DEF Serve
  <2>2. QED
    BY <1>4, <1>5, <2>1 DEF Serve, ptrVars, Unanswered
<1>6. ASSUME NEW w \in Worker, GetConn(w) PROVE HandsStill /\ ReactorStill
  <2>1. PICK p \in {"scan", "scanning"}, q \in {"scanning", "reply", "guard"} : Goto(w, p, q)
    BY <1>6 DEF GetConn
  <2>2. \A v \in Worker : pc'[v] = pc[v] \/ {pc[v], pc'[v]} \subseteq Unanswered \ {"popping"}
    BY <1>4, <2>1 DEF Unanswered
  <2>3. CASE UNCHANGED ptrVars
    BY <1>6, <2>2, <2>3 DEF GetConn, ptrVars
  <2>4. CASE ScanTake(w) /\ Copy(ConnOf(w), Pooled(itr))
    <3>1. itr \in Conn
      BY <2>4 DEF ScanTake
    <3>2. QED
      BY <1>6, <2>2, <2>4, <3>1, PointerMoves, SlotsApart DEF GetConn
  <2>5. QED
    BY <1>6, <2>3, <2>4 DEF GetConn
<1>7. ASSUME NEW w \in Worker, MakeGuard(w) PROVE HandsStill /\ ReactorStill
  <2>1. \A v \in Worker : pc'[v] = pc[v] \/ {pc[v], pc'[v]} \subseteq Unanswered \ {"popping"}
    BY <1>4, <1>7 DEF MakeGuard, Unanswered
  <2>2. QED
    BY <1>7, <2>1, PointerMoves, SlotsApart DEF MakeGuard
<1>8. ASSUME NEW w \in Worker, ReturnConn(w) PROVE HandsStill /\ ReactorStill
  <2>1. PICK p \in {"query", "unguard", "unconn"}, q \in {"unguard", "unconn", "reply"} :
          Goto(w, p, q)
    BY <1>8 DEF ReturnConn
  <2>2. \A v \in Worker : pc'[v] = pc[v] \/ {pc[v], pc'[v]} \subseteq Unanswered \ {"popping"}
    BY <1>4, <2>1 DEF Unanswered
  <2>3. CASE UNCHANGED ptrVars
    BY <1>8, <2>2, <2>3 DEF ReturnConn, ptrVars
  <2>4. CASE Drop(Guard(w)) \/ Drop(ConnOf(w))
    BY <1>8, <2>2, <2>4, PointerMoves, SlotsApart DEF ReturnConn
  <2>5. QED
    BY <1>8, <2>3, <2>4 DEF ReturnConn
<1>9. QED
  BY <1>1, <1>2, <1>3, <1>5, <1>6, <1>7, <1>8

LEMMA StillReactor ==
  ASSUME RoleInv, HandsInv, HandsStill, ReactorStill
  PROVE  HandsInv'
<1>1. WaitInv' /\ TakenInv' /\ \A r \in Request : Untouched(r)' = Untouched(r)
  BY StillHands DEF HandsInv
<1>2. HandInv'
  BY <1>1 DEF HandsInv, HandInv, ReactorStill
<1>3. QED
  BY <1>1, <1>2 DEF HandsInv

(* The reactor makes a request, pushes it once, and lets go of it. *)
LEMMA ReactorHands ==
  ASSUME PtrInv, RoleInv, HandsInv, ReactorNext
  PROVE  HandsInv'
<1> USE SlotsAreSlots
<1>0. PtrTypeOK
  BY DEF PtrInv
<1>1. ASSUME HandsStill, HandInv' PROVE HandsInv'
  BY <1>1, StillHands DEF HandsInv
<1>2. ASSUME HandsStill PROVE \A r \in Request : Untouched(r)' = Untouched(r)
  BY <1>2, StillHands DEF HandsInv
<1>3. ASSUME NEW r \in Request, Receive(r) PROVE HandsInv'
  <2>1. HandsStill
    BY <1>3, <1>0, PointerMoves, SlotsApart DEF Receive, HandsStill, queueVars, replyVars
  <2>2. life[r] = "unmade" /\ ptr'[Local] = r /\ at' = "made"
        /\ \A q \in Request : life'[q] = "unmade" => life[q] = "unmade"
    BY <1>3, <1>0, PointerMoves DEF Receive, ReactorGoto
  <2>3. HandInv'
    BY <1>2, <2>1, <2>2 DEF HandsInv, HandInv
  <2>4. QED
    BY <1>1, <2>1, <2>3
<1>4. CASE CheckFull
  <2>1. HandsStill
    BY <1>4 DEF CheckFull, HandsStill, queueVars, replyVars, ptrVars
  <2>2. at = "made" /\ at' \in {"drop", "pass"} /\ UNCHANGED <<ptr, life>>
    BY <1>4 DEF CheckFull, ReactorGoto, ptrVars
  <2>3. HandInv'
    BY <1>2, <2>1, <2>2 DEF HandsInv, HandInv
  <2>4. QED
    BY <1>1, <2>1, <2>3
<1>5. CASE PassParam
  <2>1. HandsStill
    BY <1>5, <1>0, PointerMoves, SlotsApart DEF PassParam, HandsStill, queueVars, replyVars
  <2>2. at = "pass" /\ at' = "push" /\ ptr'[Param] = ptr[Local] /\ ptr'[Local] = ptr[Local]
        /\ life' = life
    BY <1>5, <1>0, PointerMoves, SlotsApart DEF PassParam, ReactorGoto
  <2>3. HandInv'
    BY <1>2, <2>1, <2>2 DEF HandsInv, HandInv
  <2>4. QED
    BY <1>1, <2>1, <2>3
<1>6. CASE DropParam \/ DropLocal
  <2>1. HandsStill
    BY <1>6, <1>0, PointerMoves, SlotsApart DEF DropParam, DropLocal, HandsStill,
       queueVars, replyVars
  <2>2. /\ at' \in {"drop", "idle"}
        /\ \A r \in Request : life'[r] = "unmade" => life[r] = "unmade"
    BY <1>6, <1>0, PointerMoves DEF DropParam, DropLocal, ReactorGoto
  <2>3. HandInv'
    BY <1>2, <2>1, <2>2 DEF HandsInv, HandInv
  <2>4. QED
    BY <1>1, <2>1, <2>3
<1>7. CASE Push
  <2>1. CASE UNCHANGED <<ptrVars, queue>>
    <3>1. HandsStill
      BY <1>7, <2>1 DEF Push, HandsStill, queueVars, replyVars, ptrVars
    <3>2. at' = "unparam" /\ life' = life
      BY <1>7, <2>1 DEF Push, ReactorGoto, ptrVars
    <3>3. HandInv'
      BY <1>2, <3>1, <3>2 DEF HandsInv, HandInv
    <3>4. QED
      BY <1>1, <3>1, <3>3
  <2>2. CASE Copy(Item(ptr[Param]), Param) /\ queue' = Append(queue, ptr[Param])
    <3> DEFINE r == ptr[Param]
    <3>1. r \in Request /\ Untouched(r) /\ at' = "unparam"
      BY <1>7 DEF Push, ReactorGoto, HandsInv, HandInv
    <3> HIDE DEF r
    <3>2. /\ \A x \in Slot : ptr'[x] = IF x = Item(r) THEN r ELSE ptr[x]
          /\ life' = life
      BY <2>2, <3>1, <1>0, PointerMoves DEF r
    <3>3. /\ \A w \in Worker : ptr'[Mine(w)] = ptr[Mine(w)]
          /\ \A q \in Request : ptr'[Item(q)] = IF q = r THEN r ELSE ptr[Item(q)]
      BY <3>1, <3>2, SlotsApart
    <3>4. /\ UNCHANGED <<popper, pc, mutex, wire, cut>>
          /\ \A q : Sent(q)' = Sent(q)
      BY <1>7 DEF Push, replyVars, Sent
    <3>5. /\ queue \in Seq(Request) /\ Len(queue) \in Nat /\ Len(queue') = Len(queue) + 1
          /\ \A i \in 1..Len(queue) : queue'[i] = queue[i]
          /\ queue'[Len(queue) + 1] = r
          /\ \A i \in 1..Len(queue) : queue[i] \in Request /\ queue[i] # r
      <4>1. queue \in Seq(Request) /\ queue' = Append(queue, r)
        BY <2>2 DEF RoleInv, r
      <4>2. \A i \in 1..Len(queue) : queue[i] # r
        BY <3>1 DEF Untouched, Queued
      <4>3. QED
        BY <3>1, <4>1, <4>2, AppendProperties, LenProperties
    <3>6. \A i \in 1..Len(queue') : \/ i \in 1..Len(queue) /\ queue'[i] = queue[i]
                                    \/ i = Len(queue) + 1 /\ queue'[i] = r
      BY <3>5
    <3>7. WaitInv'
      <4>1. \A i, j \in 1..Len(queue') : queue'[i] = queue'[j] => i = j
        BY <3>5, <3>6 DEF HandsInv, WaitInv
      <4>2. \A i \in 1..Len(queue') : ptr'[Item(queue'[i])] = queue'[i] /\ ~Sent(queue'[i])
        BY <3>1, <3>3, <3>5, <3>6 DEF HandsInv, WaitInv, Untouched
      <4>3. \A i \in 1..Len(queue') : \A w \in Worker :
              ptr'[Mine(w)] = queue'[i] => i = 1 /\ popper' = w
        BY <3>1, <3>3, <3>4, <3>6 DEF HandsInv, WaitInv, Untouched, Taken
      <4>4. QED
        BY <3>4, <4>1, <4>2, <4>3 DEF WaitInv
    <3>8. TakenInv'
      <4>1. \A w \in Worker : popper # w
        BY <1>7, WorkerAssumption DEF Push
      <4>2. QED
        BY <3>3, <3>4, <4>1 DEF HandsInv, TakenInv
    <3>9. HandInv'
      <4>1. \A q \in Request : life[q] = "unmade" => q # r
        <5>1. Param \in Pointers(r) /\ r \in Object
          BY <3>1 DEF Pointers, r
        <5>2. life[r] = "alive"
          BY <5>1 DEF PtrInv, ReferencesExact
        <5>3. QED
          BY <5>2
      <4>2. \A q \in Request : q # r => Untouched(q)' = Untouched(q)
        <5>1. \A q \in Request : Taken(q)' = Taken(q)
          BY <3>3 DEF Taken
        <5>2. \A q \in Request : q # r => Queued(q)' = Queued(q)
          BY <3>5, <3>6 DEF Queued
        <5>3. QED
          BY <3>4, <5>1, <5>2 DEF Untouched
      <4>3. QED
        BY <3>1, <3>2, <4>1, <4>2 DEF HandsInv, HandInv
    <3>10. QED
      BY <3>7, <3>8, <3>9 DEF HandsInv
  <2>3. QED
    BY <1>7, <2>1, <2>2 DEF Push
<1>8. QED
  BY <1>3, <1>4, <1>5, <1>6, <1>7 DEF ReactorNext

(* A worker takes the first request of the queue. *)
LEMMA PopFrontHands ==
  ASSUME PtrTypeOK, ThreadType, RoleInv, HandsInv, NEW w \in Worker, PopFront(w)
  PROVE  HandsInv'
<1> USE SlotsAreSlots
<1> DEFINE r == Head(queue)
<1>1. /\ queue # <<>> /\ queue \in Seq(Request) /\ r \in Request /\ r = queue[1]
      /\ 1 \in 1..Len(queue)
  BY HeadTailProperties, LenProperties, EmptySeq DEF PopFront, RoleInv
<1>2. ptr[Item(r)] = r /\ ~Sent(r) /\ \A i \in 1..Len(queue) : queue[i] = r => i = 1
  BY <1>1 DEF HandsInv, WaitInv
<1>3. \A v \in Worker : ptr[Mine(v)] # r
  BY <1>1, WorkerAssumption DEF HandsInv, WaitInv, PopFront
<1> HIDE DEF r
<1>4. life' = life /\ \A x \in Slot : ptr'[x] = IF x = Mine(w) THEN r ELSE ptr[x]
  BY <1>1, <1>2, PointerMoves DEF PopFront, r
<1>5. /\ \A v \in Worker : ptr'[Mine(v)] = IF v = w THEN r ELSE ptr[Mine(v)]
      /\ \A q \in Request : ptr'[Item(q)] = ptr[Item(q)]
      /\ ptr'[Local] = ptr[Local] /\ ptr'[Param] = ptr[Param]
  BY <1>4, SlotsApart
<1>6. /\ UNCHANGED <<queue, at, mutex, wire, cut>>
      /\ popper = Nobody /\ popper' = w /\ pc[w] = "pop"
      /\ \A v \in Worker : pc'[v] = IF v = w THEN "popping" ELSE pc[v]
  BY DEF PopFront, Goto, replyVars, ThreadType
<1>7. \A q : Sent(q)' = Sent(q) /\ Queued(q)' = Queued(q)
  BY <1>6 DEF Sent, Queued
<1>8. WaitInv'
  <2>1. \A i \in 1..Len(queue) : \A v \in Worker :
          ptr'[Mine(v)] = queue[i] => i = 1 /\ popper' = v
    BY <1>2, <1>5, <1>6, WorkerAssumption DEF HandsInv, WaitInv
  <2>2. \A i \in 1..Len(queue) : queue[i] \in Request
    BY <1>1
  <2>3. QED
    BY <1>5, <1>6, <1>7, <2>1, <2>2 DEF HandsInv, WaitInv
<1>9. TakenInv'
  <2>1. \A u, v \in Worker : ptr'[Mine(u)] = ptr'[Mine(v)] /\ ptr'[Mine(v)] # NullPtr => u = v
    BY <1>3, <1>5 DEF HandsInv, TakenInv
  <2>2. ASSUME NEW v \in Worker
        PROVE  /\ pc'[v] # "pop" => ptr'[Mine(v)] \in Request
               /\ pc'[v] \in Unanswered => ~Sent(ptr[Mine(v)])'
               /\ pc'[v] = "send" <=> mutex' = v
               /\ pc'[v] = "popping" <=> popper' = v
               /\ popper' = v => ptr'[Mine(v)] = Head(queue')
    <3>1. CASE v = w
      BY <1>1, <1>2, <1>5, <1>6, <1>7, <3>1 DEF HandsInv, TakenInv, r
    <3>2. CASE v # w
      BY <1>5, <1>6, <1>7, <3>2, WorkerAssumption DEF HandsInv, TakenInv
    <3>3. QED
      BY <3>1, <3>2
  <2>3. QED
    BY <2>1, <2>2 DEF TakenInv
<1>10. HandInv'
  <2>1. ASSUME NEW q \in Request, Untouched(q) PROVE Untouched(q)'
    <3>1. q # r
      BY <1>1, <2>1 DEF Untouched, Queued
    <3>2. QED
      BY <1>5, <1>7, <2>1, <3>1 DEF Untouched, Taken
  <2>2. QED
    BY <1>4, <1>5, <1>6, <2>1 DEF HandsInv, HandInv
<1>11. QED
  BY <1>8, <1>9, <1>10 DEF HandsInv

LEMMA PopEraseHands ==
  ASSUME PtrTypeOK, ThreadType, RoleInv, HandsInv, NEW w \in Worker, PopErase(w)
  PROVE  HandsInv'
<1> USE SlotsAreSlots
<1> DEFINE r == Head(queue)
<1>1. /\ queue # <<>> /\ queue \in Seq(Request) /\ r \in Request /\ r = queue[1]
      /\ 1 \in 1..Len(queue)
  BY HeadTailProperties, LenProperties, EmptySeq, WorkerAssumption DEF PopErase, RoleInv
<1>2. /\ Len(queue) \in Nat \ {0} /\ Len(queue') = Len(queue) - 1
      /\ \A i \in 1..Len(queue') : i + 1 \in 1..Len(queue) /\ queue'[i] = queue[i + 1]
      /\ \A i \in 1..Len(queue) : queue[i] \in Request
  <2>1. queue' = Tail(queue)
    BY DEF PopErase
  <2>2. QED
    BY <1>1, <2>1, HeadTailProperties, LenProperties, EmptySeq
<1> HIDE DEF r
<1>3. /\ \A x \in Slot : ptr'[x] = IF x = Item(r) THEN NullPtr ELSE ptr[x]
      /\ \A q \in Request : life'[q] = "unmade" => life[q] = "unmade"
  BY <1>1, PointerMoves DEF PopErase, r
<1>4. /\ \A v \in Worker : ptr'[Mine(v)] = ptr[Mine(v)]
      /\ \A q \in Request : q # r => ptr'[Item(q)] = ptr[Item(q)]
      /\ ptr'[Local] = ptr[Local] /\ ptr'[Param] = ptr[Param]
  BY <1>1, <1>3, SlotsApart
<1>5. /\ UNCHANGED <<at, mutex, wire, cut>>
      /\ popper = w /\ popper' = Nobody /\ pc[w] = "popping"
      /\ \A v \in Worker : pc'[v] = IF v = w THEN "serve" ELSE pc[v]
  BY DEF PopErase, Goto, replyVars, ThreadType
<1>6. \A q : Sent(q)' = Sent(q)
  BY <1>5 DEF Sent
<1>7. \A i \in 1..Len(queue') : queue'[i] # r
  BY <1>1, <1>2 DEF HandsInv, WaitInv
<1>8. WaitInv'
  <2>1. \A i, j \in 1..Len(queue') : queue'[i] = queue'[j] => i = j
    BY <1>2 DEF HandsInv, WaitInv
  <2>2. \A i \in 1..Len(queue') : ptr'[Item(queue'[i])] = queue'[i] /\ ~Sent(queue'[i])
    BY <1>2, <1>4, <1>7 DEF HandsInv, WaitInv
  <2>3. \A i \in 1..Len(queue') : \A v \in Worker : ptr'[Mine(v)] # queue'[i]
    BY <1>2, <1>4 DEF HandsInv, WaitInv
  <2>4. QED
    BY <1>6, <2>1, <2>2, <2>3 DEF WaitInv
<1>9. TakenInv'
  <2>1. ASSUME NEW v \in Worker
        PROVE  /\ pc'[v] # "pop" => ptr'[Mine(v)] \in Request
               /\ pc'[v] \in Unanswered => ~Sent(ptr[Mine(v)])'
               /\ pc'[v] = "send" <=> mutex' = v
               /\ pc'[v] = "popping" <=> popper' = v
               /\ popper' # v
    <3>1. CASE v = w
      BY <1>4, <1>5, <1>6, <3>1, WorkerAssumption DEF HandsInv, TakenInv, Unanswered
    <3>2. CASE v # w
      BY <1>4, <1>5, <1>6, <3>2, WorkerAssumption DEF HandsInv, TakenInv
    <3>3. QED
      BY <3>1, <3>2
  <2>2. QED
    BY <1>4, <2>1 DEF HandsInv, TakenInv
<1>10. HandInv'
  <2>1. \A q \in Request : Queued(q)' => Queued(q)
    BY <1>2 DEF Queued
  <2>2. \A q \in Request : Untouched(q) => Untouched(q)'
    BY <1>4, <1>6, <2>1 DEF Untouched, Taken
  <2>3. QED
    BY <1>3, <1>4, <1>5, <2>2 DEF HandsInv, HandInv
<1>11. QED
  BY <1>8, <1>9, <1>10 DEF HandsInv

LEMMA BeginReplyHands ==
  ASSUME PtrTypeOK, ThreadType, RoleInv, HandsInv, NEW w \in Worker, BeginReply(w)
  PROVE  HandsInv'
<1>1. /\ UNCHANGED <<ptr, life, queue, popper, at, wire, cut>>
      /\ mutex = Nobody /\ mutex' = w /\ pc[w] = "reply"
      /\ \A v \in Worker : pc'[v] = IF v = w THEN "send" ELSE pc[v]
  BY DEF BeginReply, Goto, Acquire, ptrVars, queueVars, ThreadType
<1>2. \A q : Sent(q)' = Sent(q) /\ Queued(q)' = Queued(q) /\ Taken(q)' = Taken(q)
  BY <1>1 DEF Sent, Queued, Taken
<1>3. HandInv' /\ WaitInv'
  BY <1>1, <1>2 DEF HandsInv, HandInv, WaitInv, Untouched
<1>4. TakenInv'
  <2>1. ASSUME NEW v \in Worker
        PROVE  /\ pc'[v] # "pop" => ptr'[Mine(v)] \in Request
               /\ pc'[v] \in Unanswered => ~Sent(ptr[Mine(v)])'
               /\ pc'[v] = "send" <=> mutex' = v
               /\ pc'[v] = "popping" <=> popper' = v
               /\ popper' = v => ptr'[Mine(v)] = Head(queue')
    <3>1. CASE v = w
      BY <1>1, <3>1 DEF HandsInv, TakenInv, Unanswered
    <3>2. CASE v # w
      BY <1>1, <1>2, <3>2, WorkerAssumption DEF HandsInv, TakenInv
    <3>3. QED
      BY <3>1, <3>2
  <2>2. QED
    BY <1>1, <2>1 DEF HandsInv, TakenInv
<1>5. QED
  BY <1>3, <1>4 DEF HandsInv

LEMMA DropRequestHands ==
  ASSUME PtrTypeOK, ThreadType, RoleInv, HandsInv, NEW w \in Worker, DropRequest(w)
  PROVE  HandsInv'
<1> USE SlotsAreSlots
<1>1. /\ UNCHANGED <<queue, popper, at, mutex, wire, cut>>
      /\ pc[w] = "drop"
      /\ \A v \in Worker : pc'[v] = IF v = w THEN "pop" ELSE pc[v]
  BY DEF DropRequest, Goto, queueVars, replyVars, ThreadType
<1>2. /\ \A x \in Slot : ptr'[x] = IF x = Mine(w) THEN NullPtr ELSE ptr[x]
      /\ \A q \in Request : life'[q] = "unmade" => life[q] = "unmade"
  BY PointerMoves DEF DropRequest
<1>3. /\ \A v \in Worker : ptr'[Mine(v)] = IF v = w THEN NullPtr ELSE ptr[Mine(v)]
      /\ \A q \in Request : ptr'[Item(q)] = ptr[Item(q)]
      /\ ptr'[Local] = ptr[Local] /\ ptr'[Param] = ptr[Param]
  BY <1>2, SlotsApart
<1>4. NullPtr \notin Request
  BY SharedPtrAssumption
<1>5. \A q : Sent(q)' = Sent(q) /\ Queued(q)' = Queued(q)
  BY <1>1 DEF Sent, Queued
<1>6. \A q \in Request : Taken(q)' => Taken(q)
  BY <1>3, <1>4 DEF Taken
<1>7. HandInv'
  BY <1>1, <1>2, <1>3, <1>5, <1>6 DEF HandsInv, HandInv, Untouched
<1>8. WaitInv'
  <2>1. \A i \in 1..Len(queue) : queue[i] \in Request
    BY DEF RoleInv
  <2>2. QED
    BY <1>1, <1>3, <1>4, <1>5, <2>1 DEF HandsInv, WaitInv
<1>9. TakenInv'
  <2>1. \A u, v \in Worker : ptr'[Mine(u)] = ptr'[Mine(v)] /\ ptr'[Mine(v)] # NullPtr => u = v
    BY <1>3 DEF HandsInv, TakenInv
  <2>2. ASSUME NEW v \in Worker
        PROVE  /\ pc'[v] # "pop" => ptr'[Mine(v)] \in Request
               /\ pc'[v] \in Unanswered => ~Sent(ptr[Mine(v)])'
               /\ pc'[v] = "send" <=> mutex' = v
               /\ pc'[v] = "popping" <=> popper' = v
               /\ popper' = v => ptr'[Mine(v)] = Head(queue')
    <3>1. CASE v = w
      BY <1>1, <3>1 DEF HandsInv, TakenInv, Unanswered
    <3>2. CASE v # w
      BY <1>1, <1>3, <1>5, <3>2 DEF HandsInv, TakenInv
    <3>3. QED
      BY <3>1, <3>2
  <2>3. QED
    BY <2>1, <2>2 DEF TakenInv
<1>10. QED
  BY <1>7, <1>8, <1>9 DEF HandsInv

(* Units i..j of a message as a sequence. *)
LEMMA UnitsAre ==
  ASSUME NEW m \in Request, NEW i \in Nat, NEW k \in Nat \ {0}, i + k <= MsgLen
  PROVE  LET u == Units(m, i + 1, i + k)
         IN  /\ u \in Seq(Unit) /\ Len(u) = k
             /\ \A n \in 1..k : u[n] = [msg |-> m, at |-> i + n]
<1> DEFINE u == Units(m, i + 1, i + k)
<1>1. (i + k) + 1 - (i + 1) = k /\ MsgLen \in Nat
  BY ReplyAssumption
<1>2. u = [n \in 1..k |-> [msg |-> m, at |-> i + 1 + n - 1]]
  BY <1>1 DEF Units
<1>3. \A n \in 1..k : /\ [msg |-> m, at |-> i + 1 + n - 1] = [msg |-> m, at |-> i + n]
                      /\ [msg |-> m, at |-> i + n] \in Unit
  BY <1>1 DEF Unit
<1> HIDE DEF u
<1>4. \A n \in 1..k : u[n] = [msg |-> m, at |-> i + n] /\ u[n] \in Unit
  BY <1>2, <1>3
<1>5. u \in [1..k -> Unit]
  BY <1>2, <1>4
<1>6. u \in Seq(Unit) /\ Len(u) = k
  BY <1>5, SeqDef, LenProperties
<1>7. QED
  BY <1>4, <1>6 DEF u

LEMMA SendSomeEffect ==
  ASSUME ReplyTypeOK, NEW w \in Worker, NEW f \in Fd, NEW m \in Request, SendSome(w, f, m)
  PROVE  \E k \in 1..(MsgLen - len) :
           /\ len' = len + k /\ tried' = TRUE /\ UNCHANGED <<open, cut>>
           /\ unread' \in [Fd -> 0..Room]
           /\ mutex' = IF len + k = MsgLen THEN Nobody ELSE w
           /\ wire' \in [Fd -> Seq(Unit)]
           /\ \A g \in Fd \ {f} : wire'[g] = wire[g]
           /\ Len(wire'[f]) = Len(wire[f]) + k
           /\ \A i \in 1..Len(wire[f]) : wire'[f][i] = wire[f][i]
           /\ \A i \in 1..k : wire'[f][Len(wire[f]) + i] = [msg |-> m, at |-> len + i]
<1>1. PICK k \in 1..(MsgLen - len) :
        /\ unread[f] + k <= Room
        /\ wire' = [wire EXCEPT ![f] = @ \o Units(m, len + 1, len + k)]
        /\ unread' = [unread EXCEPT ![f] = @ + k]
        /\ len' = len + k
        /\ tried' = TRUE
        /\ mutex' = IF len + k = MsgLen THEN Nobody ELSE w
  BY DEF SendSome
<1> DEFINE u == Units(m, len + 1, len + k)
           s == wire[f]
<1>2. len \in Nat /\ k \in Nat \ {0} /\ len + k <= MsgLen /\ Room \in Nat /\ MsgLen \in Nat
  BY ReplyAssumption DEF ReplyTypeOK
<1>3. u \in Seq(Unit) /\ Len(u) = k /\ \A n \in 1..k : u[n] = [msg |-> m, at |-> len + n]
  BY <1>2, UnitsAre
<1>4. s \in Seq(Unit) /\ wire' = [wire EXCEPT ![f] = s \o u]
  BY <1>1 DEF ReplyTypeOK
<1> HIDE DEF u, s
<1>5. /\ s \o u \in Seq(Unit) /\ Len(s) \in Nat
      /\ Len(s \o u) = Len(s) + k
      /\ \A i \in 1..(Len(s) + k) : (s \o u)[i] = IF i <= Len(s) THEN s[i] ELSE u[i - Len(s)]
  BY <1>3, <1>4, ConcatProperties, LenProperties
<1>6. /\ \A i \in 1..Len(s) : (s \o u)[i] = s[i]
      /\ \A i \in 1..k : (s \o u)[Len(s) + i] = [msg |-> m, at |-> len + i]
  <2>1. ASSUME NEW i \in 1..Len(s) PROVE (s \o u)[i] = s[i]
    BY <1>2, <1>5
  <2>2. ASSUME NEW i \in 1..k PROVE (s \o u)[Len(s) + i] = [msg |-> m, at |-> len + i]
    <3>1. Len(s) + i \in 1..(Len(s) + k) /\ ~(Len(s) + i <= Len(s)) /\ Len(s) + i - Len(s) = i
      BY <1>2, <1>5
    <3>2. (s \o u)[Len(s) + i] = u[i]
      BY <1>5, <3>1
    <3>3. QED
      BY <1>3, <3>2
  <2>3. QED
    BY <2>1, <2>2
<1>7. /\ wire' \in [Fd -> Seq(Unit)] /\ wire'[f] = s \o u
      /\ \A g \in Fd \ {f} : wire'[g] = wire[g]
  BY <1>4, <1>5 DEF ReplyTypeOK
<1>8. unread' \in [Fd -> 0..Room]
  <2>1. unread[f] \in 0..Room /\ unread \in [Fd -> 0..Room]
    BY DEF ReplyTypeOK
  <2>2. unread[f] + k \in 0..Room
    BY <1>1, <1>2, <2>1
  <2>3. QED
    BY <1>1, <2>1, <2>2
<1>9. UNCHANGED <<open, cut>>
  BY DEF SendSome
<1>10. QED
  BY <1>1, <1>5, <1>6, <1>7, <1>8, <1>9 DEF s

LEMMA SendReplyEffect ==
  ASSUME ThreadType, ReplyTypeOK, HandsInv, NEW w \in Worker, SendReply(w)
  PROVE  LET m == ptr[Mine(w)]
         IN  /\ m \in Request /\ fd[m] \in Fd /\ mutex = w /\ mutex' \in {w, Nobody}
             /\ UNCHANGED <<ptr, life, queue, popper, at, fd>>
             /\ pc[w] = "send"
             /\ \A v \in Worker : pc'[v] = IF v # w THEN pc[v]
                                           ELSE IF mutex' = Nobody THEN "drop" ELSE "send"
             /\ \/ SendSome(w, fd[m], m)
                \/ UNCHANGED <<mutex, wire, cut, len, unread, open>> /\ tried' \in BOOLEAN
                \/ /\ mutex' = Nobody /\ cut' = cut \cup {m}
                   /\ UNCHANGED <<wire, len, unread, open, tried>>
<1> DEFINE m == ptr[Mine(w)]
<1>1. m \in Request /\ fd[m] \in Fd /\ mutex = w
  BY DEF SendReply, HandsInv, TakenInv, ThreadType
<1>2. \/ SendSome(w, fd[m], m)
      \/ UNCHANGED <<mutex, wire, cut, len, unread, open>> /\ tried' \in BOOLEAN
      \/ /\ mutex' = Nobody /\ cut' = cut \cup {m}
         /\ UNCHANGED <<wire, len, unread, open, tried>>
  BY DEF SendReply, SendNothing, SendTimeout, SendError
<1> HIDE DEF m
<1>3. mutex' \in {w, Nobody}
  BY <1>1, <1>2 DEF SendSome
<1>4. \A v \in Worker : pc'[v] = IF v # w THEN pc[v]
                                 ELSE IF mutex' = Nobody THEN "drop" ELSE "send"
  BY DEF SendReply, ThreadType
<1>5. UNCHANGED <<ptr, life, queue, popper, at, fd>> /\ pc[w] = "send"
  BY DEF SendReply, ptrVars, queueVars
<1>6. QED
  BY <1>1, <1>2, <1>3, <1>4, <1>5 DEF m

(* Only the request in the hands of the sender becomes answered. *)
LEMMA SendReplyHands ==
  ASSUME ThreadType, ReplyTypeOK, RoleInv, HandsInv, NEW w \in Worker, SendReply(w)
  PROVE  HandsInv'
<1> DEFINE m == ptr[Mine(w)]
<1>1. /\ m \in Request /\ fd[m] \in Fd /\ mutex = w /\ mutex' \in {w, Nobody}
      /\ UNCHANGED <<ptr, life, queue, popper, at, fd>>
      /\ pc[w] = "send"
      /\ \A v \in Worker : pc'[v] = IF v # w THEN pc[v]
                                    ELSE IF mutex' = Nobody THEN "drop" ELSE "send"
  BY SendReplyEffect
<1>2. \A r : Sent(r)' => Sent(r) \/ r = m
  <2> SUFFICES ASSUME NEW r, Sent(r)', r # m PROVE Sent(r)
    OBVIOUS
  <2>1. CASE SendSome(w, fd[m], m)
    <3> HIDE DEF m
    <3>1. PICK k \in 1..(MsgLen - len) :
             /\ UNCHANGED cut
             /\ \A g \in Fd \ {fd[m]} : wire'[g] = wire[g]
             /\ Len(wire'[fd[m]]) = Len(wire[fd[m]]) + k
             /\ \A i \in 1..Len(wire[fd[m]]) : wire'[fd[m]][i] = wire[fd[m]][i]
             /\ \A i \in 1..k : wire'[fd[m]][Len(wire[fd[m]]) + i] = [msg |-> m, at |-> len + i]
      BY <1>1, <2>1, SendSomeEffect
    <3>2. CASE r \in cut
      BY <3>2 DEF Sent
    <3>3. ASSUME NEW f \in Fd, NEW i \in 1..Len(wire'[f]), wire'[f][i].msg = r
          PROVE  Sent(r)
      <4>1. CASE f # fd[m]
        BY <3>1, <3>3, <4>1 DEF Sent
      <4>2. CASE f = fd[m]
        <5>1. Len(wire[f]) \in Nat /\ k \in Nat /\ i \in Nat
          BY LenProperties, ReplyAssumption DEF ReplyTypeOK
        <5>2. CASE i \in 1..Len(wire[f])
          BY <3>1, <3>3, <4>2, <5>2 DEF Sent
        <5>3. CASE i \notin 1..Len(wire[f])
          <6>1. i - Len(wire[f]) \in 1..k /\ Len(wire[f]) + (i - Len(wire[f])) = i
            BY <3>1, <4>2, <5>1, <5>3
          <6> DEFINE n == i - Len(wire[f])
          <6> HIDE DEF n
          <6>2. n \in 1..k /\ Len(wire[f]) + n = i
            BY <6>1 DEF n
          <6>3. wire'[f][i] = [msg |-> m, at |-> len + n]
            BY <3>1, <4>2, <6>2
          <6>4. QED
            BY <3>3, <6>3
        <5>4. QED
          BY <5>2, <5>3
      <4>3. QED
        BY <4>1, <4>2
    <3>4. QED
      BY <3>1, <3>2, <3>3 DEF Sent
  <2>2. CASE UNCHANGED <<wire, cut>>
    BY <2>2 DEF Sent
  <2>3. CASE cut' = cut \cup {m} /\ wire' = wire
    BY <2>3 DEF Sent
  <2>4. QED
    BY <2>1, <2>2, <2>3, SendReplyEffect
<1>3. \A r : Queued(r)' = Queued(r) /\ Taken(r)' = Taken(r)
  BY <1>1 DEF Queued, Taken
<1>4. Taken(m)
  BY DEF Taken
<1> HIDE DEF m
<1>5. HandInv'
  BY <1>1, <1>2, <1>3, <1>4 DEF HandsInv, HandInv, Untouched
<1>6. WaitInv'
  <2>1. \A i \in 1..Len(queue) : queue[i] # m
    BY <1>1 DEF HandsInv, WaitInv, TakenInv, m
  <2>2. QED
    BY <1>1, <1>2, <2>1 DEF HandsInv, WaitInv
<1>7. TakenInv'
  <2>1. ASSUME NEW v \in Worker
        PROVE  /\ pc'[v] # "pop" => ptr'[Mine(v)] \in Request
               /\ pc'[v] \in Unanswered => ~Sent(ptr[Mine(v)])'
               /\ pc'[v] = "send" <=> mutex' = v
               /\ pc'[v] = "popping" <=> popper' = v
               /\ popper' = v => ptr'[Mine(v)] = Head(queue')
    <3>1. CASE v = w
      BY <1>1, <3>1, WorkerAssumption DEF HandsInv, TakenInv, Unanswered
    <3>2. CASE v # w
      <4>1. ptr[Mine(v)] # m
        BY <1>1, <3>2, SharedPtrAssumption, SlotsAreSlots DEF HandsInv, TakenInv, m
      <4>2. QED
        BY <1>1, <1>2, <3>2, <4>1, WorkerAssumption DEF HandsInv, TakenInv
    <3>3. QED
      BY <3>1, <3>2
  <2>2. QED
    BY <1>1, <2>1 DEF HandsInv, TakenInv
<1>8. QED
  BY <1>5, <1>6, <1>7 DEF HandsInv

---------------------------------------------------------------------------
(* What is on a connection: the replies to its own requests, one after the
   other and each unit once.  A reply that stops short was given up or is
   the one being sent, and then len counts what is out. *)
Final(s) == s[Len(s)]

InOrder(s) ==
  /\ s # <<>> => s[1].at = 1
  /\ \A k \in 1..Len(s) - 1 : Follows(s[k], s[k + 1])
  /\ \A j, k \in 1..Len(s) : s[j] = s[k] => j = k

Complete(f) ==
  wire[f] # <<>> /\ Final(wire[f]).at < MsgLen /\ Final(wire[f]).msg \notin cut =>
    \E w \in Worker : /\ mutex = w /\ ptr[Mine(w)] = Final(wire[f]).msg
                      /\ len = Final(wire[f]).at

UnderWay(m) ==
  /\ \A k \in 1..Len(wire[fd[m]]) : wire[fd[m]][k].msg = m => wire[fd[m]][k].at <= len
  /\ len > 0 => wire[fd[m]] # <<>> /\ Final(wire[fd[m]]) = [msg |-> m, at |-> len]

WireInv ==
  /\ \A f \in Fd : \A k \in 1..Len(wire[f]) : fd[wire[f][k].msg] = f
  /\ \A f \in Fd : InOrder(wire[f]) /\ Complete(f)
  /\ \A w \in Worker : mutex = w => UnderWay(ptr[Mine(w)])

LEMMA WireStill ==
  ASSUME WireInv, UNCHANGED <<fd, mutex, len, wire, cut>>,
         \A w \in Worker : mutex = w => ptr'[Mine(w)] = ptr[Mine(w)]
  PROVE  WireInv'
<1>1. \A f \in Fd : InOrder(wire[f])' /\ Complete(f)'
  BY DEF WireInv, InOrder, Follows, Complete
<1>2. \A w \in Worker : mutex' = w => UnderWay(ptr[Mine(w)])'
  BY DEF WireInv, UnderWay
<1>3. QED
  BY <1>1, <1>2 DEF WireInv

LEMMA BeginReplyWire ==
  ASSUME ReplyTypeOK, ThreadType, HandsInv, WireInv, NEW w \in Worker, BeginReply(w)
  PROVE  WireInv'
<1>1. /\ UNCHANGED <<ptr, fd, wire, cut>> /\ len' = 0
      /\ mutex = Nobody /\ mutex' = w /\ pc[w] = "reply"
  BY DEF BeginReply, Goto, Acquire, ptrVars
<1>2. \A f \in Fd : InOrder(wire[f])' /\ Complete(f)'
  BY <1>1, WorkerAssumption DEF WireInv, InOrder, Follows, Complete
<1>3. ~Sent(ptr[Mine(w)]) /\ ptr[Mine(w)] \in Request /\ fd[ptr[Mine(w)]] \in Fd
  BY <1>1 DEF HandsInv, TakenInv, Unanswered, ThreadType
<1>4. UnderWay(ptr[Mine(w)])'
  BY <1>1, <1>3 DEF UnderWay, Sent
<1>5. QED
  BY <1>1, <1>2, <1>4, WorkerAssumption DEF WireInv

LEMMA SendSomeWire ==
  ASSUME ReplyTypeOK, ThreadType, HandsInv, WireInv, NEW w \in Worker, SendReply(w),
         SendSome(w, fd[ptr[Mine(w)]], ptr[Mine(w)])
  PROVE  WireInv'
<1> DEFINE m == ptr[Mine(w)]
           f == fd[m]
           s == wire[f]
           t == wire'[f]
<1>1. /\ m \in Request /\ f \in Fd /\ mutex = w /\ UNCHANGED <<ptr, fd>>
  BY SendReplyEffect
<1>2. PICK k \in 1..(MsgLen - len) :
        /\ len' = len + k /\ UNCHANGED cut
        /\ mutex' = IF len + k = MsgLen THEN Nobody ELSE w
        /\ wire' \in [Fd -> Seq(Unit)]
        /\ \A g \in Fd \ {f} : wire'[g] = wire[g]
        /\ Len(t) = Len(s) + k
        /\ \A i \in 1..Len(s) : t[i] = s[i]
        /\ \A i \in 1..k : t[Len(s) + i] = [msg |-> m, at |-> len + i]
  BY <1>1, SendSomeEffect
<1> DEFINE a == Final(s)
<1>3. UnderWay(m) /\ InOrder(s) /\ Complete(f)
  BY <1>1 DEF WireInv
<1>4. /\ \A i \in 1..Len(s) : s[i].msg = m => s[i].at <= len
      /\ len > 0 => s # <<>> /\ a = [msg |-> m, at |-> len]
  BY <1>3 DEF UnderWay
<1>5. s # <<>> /\ a.at < MsgLen /\ a.msg \notin cut => a.msg = m /\ len = a.at
  BY <1>1, <1>3 DEF Complete
<1>6. s \in Seq(Unit) /\ t \in Seq(Unit)
  BY <1>1, <1>2 DEF ReplyTypeOK
<1>7. /\ Len(s) \in Nat /\ Len(t) \in Nat /\ k \in Nat \ {0} /\ len \in Nat
      /\ MsgLen \in Nat /\ len + k <= MsgLen
      /\ s = <<>> <=> Len(s) = 0
      /\ \A i \in 1..Len(s) : s[i] \in Unit
  BY <1>6, EmptySeq, LenProperties, ReplyAssumption DEF ReplyTypeOK
<1>8. \A x \in Unit : x.at \in 1..MsgLen /\ x.msg \in Request
  BY DEF Unit
<1>9. s # <<>> => a = s[Len(s)] /\ Len(s) \in 1..Len(s)
  BY <1>7 DEF Final
<1>10. ASSUME NEW i \in 1..Len(t)
       PROVE  \/ i \in 1..Len(s) /\ t[i] = s[i]
              \/ /\ i - Len(s) \in 1..k /\ i \notin 1..Len(s)
                 /\ t[i] = [msg |-> m, at |-> len + (i - Len(s))]
  <2>1. CASE i \in 1..Len(s)
    BY <1>2, <2>1
  <2>2. CASE i \notin 1..Len(s)
    <3> DEFINE n == i - Len(s)
    <3> HIDE DEF s, t, m
    <3>1. n \in 1..k /\ Len(s) + n = i
      BY <1>2, <1>7, <2>2
    <3> HIDE DEF n
    <3>2. t[i] = [msg |-> m, at |-> len + n]
      BY <1>2, <3>1
    <3>3. QED
      BY <2>2, <3>1, <3>2 DEF n
  <2>3. QED
    BY <2>1, <2>2
<1>11. Final(t) = [msg |-> m, at |-> len + k] /\ t # <<>>
  <2>1. Len(s) + k = Len(t) /\ k \in 1..k
    BY <1>2, <1>7
  <2>2. t[Len(t)] = [msg |-> m, at |-> len + k]
    BY <1>2, <2>1
  <2>3. QED
    BY <1>6, <1>7, <2>1, <2>2, EmptySeq DEF Final
<1> HIDE DEF a, s, t, m, f
<1>12. InOrder(t)
  <2>1. t[1].at = 1
    <3>1. 1 \in 1..Len(t)
      BY <1>2, <1>7
    <3>2. CASE 1 \in 1..Len(s)
      BY <1>2, <1>3, <1>7, <3>2 DEF InOrder
    <3>3. CASE 1 \notin 1..Len(s)
      <4>1. Len(s) = 0 /\ len = 0
        BY <1>4, <1>7, <3>3
      <4>2. t[1] = [msg |-> m, at |-> 1]
        BY <1>10, <3>1, <3>3, <4>1
      <4>3. QED
        BY <4>2
    <3>4. QED
      BY <3>2, <3>3
  <2>2. ASSUME NEW i \in 1..Len(t) - 1 PROVE Follows(t[i], t[i + 1])
    <3>1. i \in 1..Len(t) /\ i + 1 \in 1..Len(t) /\ i \in Nat
      BY <1>7
    <3>2. CASE i + 1 \in 1..Len(s)
      <4>1. i \in 1..Len(s) - 1 /\ i \in 1..Len(s)
        BY <1>7, <3>1, <3>2
      <4>2. t[i] = s[i] /\ t[i + 1] = s[i + 1]
        BY <1>2, <3>2, <4>1
      <4>3. QED
        BY <1>3, <4>1, <4>2 DEF InOrder
    <3>3. CASE i = Len(s)
      <4>1. s # <<>> /\ t[i] = a /\ a \in Unit
        BY <1>2, <1>7, <1>9, <3>1, <3>3
      <4>2. t[i + 1] = [msg |-> m, at |-> len + 1]
        BY <1>2, <1>7, <3>3
      <4>3. CASE len > 0
        BY <1>4, <4>1, <4>2, <4>3 DEF Follows
      <4>4. CASE len = 0
        <5>1. a.msg # m
          <6>1. a.msg = m => a.at <= 0
            BY <1>4, <1>9, <4>1, <4>4
          <6>2. QED
            BY <1>8, <4>1, <6>1
        <5>2. a.at = MsgLen \/ a.msg \in cut
          BY <1>5, <1>7, <1>8, <4>1, <5>1
        <5>3. QED
          BY <4>1, <4>2, <4>4, <5>1, <5>2 DEF Follows
      <4>5. QED
        BY <1>7, <4>3, <4>4
    <3>4. CASE i + 1 \notin 1..Len(s) /\ i # Len(s)
      <4>1. i \notin 1..Len(s) /\ i + 1 - Len(s) = (i - Len(s)) + 1
        BY <1>7, <3>1, <3>4
      <4>2. /\ t[i] = [msg |-> m, at |-> len + (i - Len(s))]
            /\ t[i + 1] = [msg |-> m, at |-> len + (i + 1 - Len(s))]
        BY <1>10, <3>1, <3>4, <4>1
      <4>3. len + (i + 1 - Len(s)) = len + (i - Len(s)) + 1
        BY <1>7, <3>1
      <4>4. QED
        BY <4>2, <4>3 DEF Follows
    <3>5. QED
      BY <3>2, <3>3, <3>4
  <2>3. ASSUME NEW i \in 1..Len(t), NEW j \in 1..Len(t), t[i] = t[j] PROVE i = j
    <3>1. ASSUME NEW x \in 1..Len(t), NEW y \in 1..Len(t), x \in 1..Len(s), y \notin 1..Len(s)
          PROVE  t[x] # t[y]
      <4>1. t[y] = [msg |-> m, at |-> len + (y - Len(s))] /\ y - Len(s) \in 1..k
        BY <1>10, <3>1
      <4>2. t[x] = s[x] /\ (s[x].msg = m => s[x].at <= len)
        BY <1>2, <1>4, <3>1
      <4>3. t[y].msg = m /\ t[y].at > len
        BY <1>7, <4>1
      <4>4. s[x].at \in 1..MsgLen
        BY <1>7, <1>8, <3>1
      <4>5. QED
        BY <1>7, <4>2, <4>3, <4>4
    <3>2. CASE i \in 1..Len(s) /\ j \in 1..Len(s)
      BY <1>2, <1>3, <2>3, <3>2 DEF InOrder
    <3>3. CASE i \notin 1..Len(s) /\ j \notin 1..Len(s)
      <4>1. t[i] = [msg |-> m, at |-> len + (i - Len(s))]
        BY <1>10, <3>3
      <4>2. t[j] = [msg |-> m, at |-> len + (j - Len(s))]
        BY <1>10, <3>3
      <4>3. t[i].at = len + (i - Len(s)) /\ t[j].at = len + (j - Len(s))
        BY <4>1, <4>2
      <4>4. QED
        BY <1>7, <2>3, <4>3
    <3>4. QED
      BY <2>3, <3>1, <3>2, <3>3
  <2>4. QED
    BY <2>1, <2>2, <2>3 DEF InOrder
<1>13. \A i \in 1..Len(t) : t[i].msg = m => t[i].at <= len + k
  <2> SUFFICES ASSUME NEW i \in 1..Len(t), t[i].msg = m PROVE t[i].at <= len + k
    OBVIOUS
  <2>1. CASE i \in 1..Len(s)
    <3>1. t[i] = s[i] /\ s[i].at <= len /\ s[i].at \in 1..MsgLen
      BY <1>2, <1>4, <1>7, <1>8, <2>1
    <3>2. QED
      BY <1>7, <3>1
  <2>2. CASE i \notin 1..Len(s)
    <3>1. t[i] = [msg |-> m, at |-> len + (i - Len(s))] /\ i - Len(s) \in 1..k
      BY <1>10, <2>2
    <3>2. t[i].at = len + (i - Len(s))
      BY <3>1
    <3>3. QED
      BY <1>7, <3>1, <3>2
  <2>3. QED
    BY <2>1, <2>2
<1>14. \A g \in Fd : \A i \in 1..Len(wire'[g]) : fd'[wire'[g][i].msg] = g
  <2> SUFFICES ASSUME NEW g \in Fd, NEW i \in 1..Len(wire'[g])
               PROVE  fd'[wire'[g][i].msg] = g
    OBVIOUS
  <2>1. CASE g # f
    BY <1>1, <1>2, <2>1 DEF WireInv
  <2>2. CASE g = f
    <3>1. CASE i \in 1..Len(s)
      BY <1>1, <1>2, <2>2, <3>1 DEF WireInv, s, t
    <3>2. CASE i \notin 1..Len(s)
      <4>1. wire'[g] = t
        BY <2>2 DEF t
      <4>2. t[i] = [msg |-> m, at |-> len + (i - Len(s))]
        BY <1>10, <3>2, <4>1
      <4>3. wire'[g][i].msg = m
        BY <4>1, <4>2
      <4>4. QED
        BY <1>1, <2>2, <4>3 DEF f
    <3>3. QED
      BY <3>1, <3>2
  <2>3. QED
    BY <2>1, <2>2
<1>15. ASSUME NEW g \in Fd PROVE InOrder(wire[g])' /\ Complete(g)'
  <2>1. CASE g # f
    <3>1. InOrder(wire[g])'
      BY <1>1, <1>2, <2>1 DEF WireInv, InOrder, Follows
    <3>2. Complete(g)'
      <4> SUFFICES ASSUME wire[g] # <<>>, Final(wire[g]).at < MsgLen,
                          Final(wire[g]).msg \notin cut
                   PROVE  FALSE
        BY <1>2, <2>1 DEF Complete, Final
      <4>1. Final(wire[g]).msg = m
        BY <1>1 DEF WireInv, Complete, m
      <4>2. wire[g] \in Seq(Unit) /\ Len(wire[g]) \in 1..Len(wire[g])
        BY EmptySeq, LenProperties DEF ReplyTypeOK
      <4>3. fd[Final(wire[g]).msg] = g
        BY <4>2 DEF WireInv, Final
      <4>4. QED
        BY <2>1, <4>1, <4>3 DEF f
    <3>3. QED
      BY <3>1, <3>2
  <2>2. CASE g = f
    <3>1. wire'[g] = t
      BY <2>2 DEF t
    <3>2. InOrder(wire[g])'
      BY <1>2, <1>12, <3>1 DEF InOrder, Follows
    <3>3. Complete(g)'
      <4> SUFFICES ASSUME Final(t).at < MsgLen
                   PROVE  mutex' = w /\ ptr'[Mine(w)] = Final(t).msg /\ len' = Final(t).at
        BY <3>1 DEF Complete, Final
      <4>1. QED
        BY <1>1, <1>2, <1>7, <1>11 DEF m
    <3>4. QED
      BY <3>2, <3>3
  <2>3. QED
    BY <2>1, <2>2
<1>16. UnderWay(ptr[Mine(w)])'
  <2>1. /\ wire'[fd'[ptr'[Mine(w)]]] = t /\ ptr'[Mine(w)] = m
    BY <1>1 DEF m, f, t
  <2>2. QED
    BY <1>2, <1>11, <1>13, <2>1 DEF UnderWay, Final
<1>17. \A v \in Worker : mutex' = v => UnderWay(ptr[Mine(v)])'
  BY <1>2, <1>16, WorkerAssumption
<1>18. QED
  BY <1>14, <1>15, <1>17 DEF WireInv

LEMMA SendReplyWire ==
  ASSUME ReplyTypeOK, ThreadType, HandsInv, WireInv, NEW w \in Worker, SendReply(w)
  PROVE  WireInv'
<1> DEFINE m == ptr[Mine(w)]
<1>1. mutex = w /\ UNCHANGED <<ptr, fd>>
  BY SendReplyEffect
<1>2. CASE SendSome(w, fd[m], m)
  BY <1>2, SendSomeWire
<1>3. CASE UNCHANGED <<mutex, wire, cut, len>>
  BY <1>1, <1>3, WireStill
<1>4. CASE mutex' = Nobody /\ cut' = cut \cup {m} /\ UNCHANGED <<wire, len>>
  <2>1. \A f \in Fd : InOrder(wire[f])'
    BY <1>4 DEF WireInv, InOrder, Follows
  <2>2. \A f \in Fd : Complete(f)'
    BY <1>1, <1>4 DEF WireInv, Complete, Final
  <2>3. \A v \in Worker : mutex' # v
    BY <1>4, WorkerAssumption
  <2>4. QED
    BY <1>1, <1>4, <2>1, <2>2, <2>3 DEF WireInv
<1>5. QED
  BY <1>2, <1>3, <1>4, SendReplyEffect

---------------------------------------------------------------------------
(* The types of what is not a component's. *)
LEMMA InitTypes == Init => ThreadType /\ ReplyTypeOK
<1> SUFFICES ASSUME Init PROVE ThreadType /\ ReplyTypeOK
  OBVIOUS
<1>1. ThreadType
  BY DEF Init, ThreadType, ReactorAt, PC
<1>2. tried \in BOOLEAN /\ open \in [Fd -> BOOLEAN]
  BY Zenon DEF Init, ReplyInit
<1>3. ReplyTypeOK
  BY <1>2, ReplyAssumption, EmptySeq DEF Init, ReplyInit, ReplyTypeOK
<1>4. QED
  BY <1>1, <1>3

LEMMA ReplyTypeStep ==
  ASSUME ThreadType, ReplyTypeOK, HandsInv, [Next]_vars
  PROVE  ReplyTypeOK'
<1>1. ASSUME NEW w \in Worker, BeginReply(w) PROVE ReplyTypeOK'
  <2>1. tried' \in BOOLEAN
    BY <1>1, Zenon DEF BeginReply, Acquire
  <2>2. QED
    BY <1>1, <2>1, ReplyAssumption DEF BeginReply, Acquire, ReplyTypeOK
<1>2. ASSUME NEW w \in Worker, SendReply(w) PROVE ReplyTypeOK'
  <2> DEFINE m == ptr[Mine(w)]
  <2>1. m \in Request /\ fd[m] \in Fd /\ mutex' \in {w, Nobody}
    BY <1>2, SendReplyEffect
  <2>2. CASE SendSome(w, fd[m], m)
    <3> HIDE DEF m
    <3>1. PICK k \in 1..(MsgLen - len) :
            /\ len' = len + k /\ tried' = TRUE /\ UNCHANGED <<open, cut>>
            /\ unread' \in [Fd -> 0..Room] /\ wire' \in [Fd -> Seq(Unit)]
      BY <2>1, <2>2, SendSomeEffect
    <3>2. len' \in 0..MsgLen
      BY <3>1, ReplyAssumption DEF ReplyTypeOK
    <3>3. QED
      BY <2>1, <3>1, <3>2 DEF ReplyTypeOK
  <2>3. CASE UNCHANGED <<mutex, wire, cut, len, unread, open>> /\ tried' \in BOOLEAN
    BY <2>3 DEF ReplyTypeOK
  <2>4. CASE /\ mutex' = Nobody /\ cut' = cut \cup {m}
             /\ UNCHANGED <<wire, len, unread, open, tried>>
    BY <2>1, <2>4 DEF ReplyTypeOK
  <2>5. QED
    BY <1>2, <2>2, <2>3, <2>4, SendReplyEffect
<1>3. CASE ClientNext
  <2>1. ASSUME NEW f \in Fd, ClientReads(f) PROVE ReplyTypeOK'
    BY <2>1, ReplyAssumption DEF ClientReads, ReplyTypeOK
  <2>2. ASSUME NEW f \in Fd, ClientLeaves(f) PROVE ReplyTypeOK'
    <3>1. open' \in [Fd -> BOOLEAN]
      BY <2>2, Zenon DEF ClientLeaves, ReplyTypeOK
    <3>2. QED
      BY <2>2, <3>1 DEF ClientLeaves, ReplyTypeOK
  <2>3. QED
    BY <1>3, <2>1, <2>2 DEF ClientNext
<1>4. CASE UNCHANGED replyVars
  BY <1>4 DEF replyVars, ReplyTypeOK
<1>5. ASSUME NEW w \in Worker, WorkerNext(w)
      PROVE  BeginReply(w) \/ SendReply(w) \/ UNCHANGED replyVars
  BY <1>5 DEF WorkerNext, PopFront, PopErase, Serve, GetConn, MakeGuard, ReturnConn,
     DropRequest
<1>6. ReactorNext => UNCHANGED replyVars
  BY DEF ReactorNext, Receive, CheckFull, PassParam, Push, DropParam, DropLocal
<1>7. MakeConn \/ StartStep \/ DeleteObject \/ UNCHANGED vars => UNCHANGED replyVars
  BY DEF MakeConn, StartStep, DeleteObject, vars
<1>8. QED
  BY <1>1, <1>2, <1>3, <1>4, <1>5, <1>6, <1>7 DEF Next

LEMMA ThreadTypeStep ==
  ASSUME ThreadType, [Next]_vars
  PROVE  ThreadType'
<1> USE DEF ThreadType, queueVars
<1>1. ASSUME NEW w \in Worker, NEW p, NEW q \in PC, Goto(w, p, q) PROVE pc' \in [Worker -> PC]
  BY <1>1 DEF Goto
<1>2. ASSUME NEW w \in Worker, PopFront(w) \/ PopErase(w) PROVE ThreadType'
  BY <1>1, <1>2 DEF PopFront, PopErase, PC
<1>3. ASSUME NEW w \in Worker, Serve(w) \/ MakeGuard(w) \/ ReturnConn(w) PROVE ThreadType'
  BY <1>1, <1>3 DEF Serve, MakeGuard, ReturnConn, PC
<1>4. ASSUME NEW w \in Worker, GetConn(w) PROVE ThreadType'
  <2>1. PICK p, q \in PC : Goto(w, p, q)
    BY <1>4 DEF GetConn, PC
  <2>2. QED
    BY <1>1, <1>4, <2>1 DEF GetConn
<1>5. ASSUME NEW w \in Worker, BeginReply(w) \/ DropRequest(w) PROVE ThreadType'
  BY <1>1, <1>5 DEF BeginReply, DropRequest, PC
<1>6. ASSUME NEW w \in Worker, SendReply(w) PROVE ThreadType'
  BY <1>6 DEF SendReply, PC
<1>7. CASE ReactorNext
  BY <1>7 DEF ReactorNext, Receive, CheckFull, PassParam, Push, DropParam, DropLocal,
              ReactorGoto, ReactorAt
<1>8. CASE MakeConn \/ StartStep \/ DeleteObject \/ ClientNext \/ UNCHANGED vars
  BY <1>8 DEF MakeConn, StartStep, DeleteObject, ClientNext, vars
<1>9. QED
  BY <1>2, <1>3, <1>4, <1>5, <1>6, <1>7, <1>8 DEF Next, WorkerNext

---------------------------------------------------------------------------
LEMMA InitHandsWire == Init => HandsInv /\ WireInv
<1> SUFFICES ASSUME Init PROVE HandsInv /\ WireInv
  OBVIOUS
<1>1. /\ queue = <<>> /\ Len(queue) = 0 /\ cut = {} /\ mutex = Nobody /\ popper = Nobody
      /\ at = "idle" /\ \A w \in Worker : pc[w] = "pop" /\ ptr[Mine(w)] = NullPtr
      /\ \A f \in Fd : wire[f] = <<>> /\ Len(wire[f]) = 0
  BY SlotsAreSlots, EmptySeq DEF Init, PtrInit, ReplyInit
<1>2. \A r \in Request : Untouched(r)
  BY <1>1, SharedPtrAssumption, SlotsAreSlots DEF Untouched, Sent, Queued, Taken
<1>3. HandsInv
  BY <1>1, <1>2, WorkerAssumption DEF HandsInv, HandInv, WaitInv, TakenInv, Unanswered
<1>4. WireInv
  BY <1>1, WorkerAssumption DEF WireInv, InOrder, Complete
<1>5. QED
  BY <1>3, <1>4

LEMMA HandsStep ==
  ASSUME ServerInv, ThreadType, ReplyTypeOK, HandsInv, [Next]_vars
  PROVE  HandsInv'
<1>1. PtrInv /\ PtrTypeOK /\ PoolTypeOK /\ RoleInv
  BY DEF ServerInv, PtrInv, PoolInv
<1>2. ASSUME HandsStill, ReactorStill PROVE HandsInv'
  BY <1>1, <1>2, StillReactor
<1>3. ASSUME NEW w \in Worker, WorkerNext(w) PROVE HandsInv'
  <2>1. CASE Serve(w) \/ GetConn(w) \/ MakeGuard(w) \/ ReturnConn(w)
    BY <1>1, <1>2, <2>1, BystanderStep
  <2>2. CASE PopFront(w)
    BY <1>1, <2>2, PopFrontHands
  <2>3. CASE PopErase(w)
    BY <1>1, <2>3, PopEraseHands
  <2>4. CASE BeginReply(w)
    BY <1>1, <2>4, BeginReplyHands
  <2>5. CASE SendReply(w)
    BY <1>1, <2>5, SendReplyHands
  <2>6. CASE DropRequest(w)
    BY <1>1, <2>6, DropRequestHands
  <2>7. QED
    BY <1>3, <2>1, <2>2, <2>3, <2>4, <2>5, <2>6 DEF WorkerNext
<1>4. CASE ReactorNext
  BY <1>1, <1>4, ReactorHands
<1>5. CASE MakeConn \/ StartStep \/ DeleteObject \/ ClientNext \/ UNCHANGED vars
  BY <1>1, <1>2, <1>5, BystanderStep
<1>6. QED
  BY <1>3, <1>4, <1>5 DEF Next

LEMMA WireStep ==
  ASSUME ServerInv, ThreadType, ReplyTypeOK, HandsInv, WireInv, [Next]_vars
  PROVE  WireInv'
<1> USE SlotsAreSlots
<1>1. PtrTypeOK /\ PoolTypeOK /\ RoleInv
  BY DEF ServerInv, PtrInv, PoolInv
<1>2. \A w \in Worker : mutex = w <=> pc[w] = "send"
  BY DEF HandsInv, TakenInv
<1>3. ASSUME UNCHANGED <<fd, replyVars>>,
             \A w \in Worker : pc[w] = "send" => ptr'[Mine(w)] = ptr[Mine(w)]
      PROVE  WireInv'
  BY <1>2, <1>3, WireStill DEF replyVars
<1>4. ASSUME NEW w \in Worker, WorkerNext(w) PROVE WireInv'
  <2>1. CASE Serve(w) \/ GetConn(w) \/ MakeGuard(w) \/ ReturnConn(w)
    <3>1. HandsStill
      BY <1>1, <2>1, BystanderStep
    <3>2. UNCHANGED <<fd, replyVars>>
      BY <2>1 DEF Serve, GetConn, MakeGuard, ReturnConn
    <3>3. QED
      BY <1>3, <3>1, <3>2 DEF HandsStill
  <2>2. CASE PopFront(w)
    <3>1. pc[w] # "send" /\ \A v \in Worker : v # w => ptr'[Mine(v)] = ptr[Mine(v)]
      BY <1>1, <2>2, PointerMoves, SlotsApart DEF PopFront, Goto, RoleInv
    <3>2. QED
      BY <1>3, <2>2, <3>1 DEF PopFront
  <2>3. CASE PopErase(w)
    <3>1. Head(queue) \in Request
      BY <1>1, <2>3, WorkerAssumption DEF PopErase, RoleInv
    <3>2. \A v \in Worker : ptr'[Mine(v)] = ptr[Mine(v)]
      BY <1>1, <2>3, <3>1, PointerMoves, SlotsApart DEF PopErase
    <3>3. QED
      BY <1>3, <2>3, <3>2 DEF PopErase
  <2>4. CASE BeginReply(w)
    BY <2>4, BeginReplyWire
  <2>5. CASE SendReply(w)
    BY <2>5, SendReplyWire
  <2>6. CASE DropRequest(w)
    <3>1. pc[w] # "send" /\ \A v \in Worker : v # w => ptr'[Mine(v)] = ptr[Mine(v)]
      BY <1>1, <2>6, PointerMoves, SlotsApart DEF DropRequest, Goto
    <3>2. QED
      BY <1>3, <2>6, <3>1 DEF DropRequest
  <2>7. QED
    BY <1>4, <2>1, <2>2, <2>3, <2>4, <2>5, <2>6 DEF WorkerNext
<1>5. CASE ReactorNext
  <2>1. UNCHANGED <<fd, replyVars>>
    BY <1>5 DEF ReactorNext, Receive, CheckFull, PassParam, Push, DropParam, DropLocal
  <2>2. \A v \in Worker : ptr'[Mine(v)] = ptr[Mine(v)]
    <3>1. ASSUME NEW r \in Request, Receive(r)
          PROVE  \A v \in Worker : ptr'[Mine(v)] = ptr[Mine(v)]
      BY <1>1, <3>1, PointerMoves, SlotsApart DEF Receive
    <3>2. CASE CheckFull
      BY <3>2 DEF CheckFull, ptrVars
    <3>3. CASE PassParam
      BY <1>1, <3>3, PointerMoves, SlotsApart DEF PassParam
    <3>4. CASE DropParam \/ DropLocal
      BY <1>1, <3>4, PointerMoves, SlotsApart DEF DropParam, DropLocal
    <3>5. CASE Push
      <4>1. CASE UNCHANGED ptrVars
        BY <4>1 DEF ptrVars
      <4>2. CASE Copy(Item(ptr[Param]), Param)
        <5>1. ptr[Param] \in Request
          BY <1>1, <4>2 DEF Copy, RoleInv, Optional
        <5>2. QED
          BY <1>1, <4>2, <5>1, PointerMoves, SlotsApart
      <4>3. QED
        BY <3>5, <4>1, <4>2 DEF Push
    <3>6. QED
      BY <1>5, <3>1, <3>2, <3>3, <3>4, <3>5 DEF ReactorNext
  <2>3. QED
    BY <1>3, <2>1, <2>2
<1>6. CASE MakeConn \/ StartStep \/ DeleteObject \/ ClientNext \/ UNCHANGED vars
  <2>1. HandsStill
    BY <1>1, <1>6, BystanderStep
  <2>2. UNCHANGED <<fd, mutex, len, wire, cut>>
    BY <1>6 DEF MakeConn, StartStep, DeleteObject, ClientNext, ClientReads, ClientLeaves,
                vars, replyVars
  <2>3. QED
    BY <2>1, <2>2, WireStill DEF HandsStill
<1>7. QED
  BY <1>4, <1>5, <1>6 DEF Next

(* The whole of what is known of a running server. *)
IInv == ServerInv /\ ThreadType /\ ReplyTypeOK /\ HandsInv /\ WireInv

(* A request is in one pair of hands after the other, and what is on a
   connection agrees with whose hands its reply is in. *)
THEOREM Invariant == Spec => []IInv
<1>1. Init => IInv
  BY InitServerInv, InitTypes, InitHandsWire DEF IInv
<1>2. IInv /\ [Next]_vars => IInv'
  BY ServerStep, ThreadTypeStep, ReplyTypeStep, HandsStep, WireStep DEF IInv
<1>3. QED
  BY <1>1, <1>2, PTL DEF Spec

(* The pointers, the pool, the queue, the threads and the connections keep
   the types of their variables. *)
THEOREM TypeCorrect == Spec => []TypeOK
<1>1. IInv => TypeOK
  BY DEF IInv, ServerInv, PtrInv, PoolInv, RoleInv, StartInv, ThreadType, TypeOK
<1>2. QED
  BY Invariant, <1>1, PTL

(* For any number of workers, requests and connections, however the kernel
   cuts a message up: replies to one connection do not mix, none is sent
   twice, and only one that was given up or is under way is not whole
   (Msg_Oper::send_evg_msg and Socket_Oper::send_n). *)
THEOREM RepliesAreWhole == Spec => []RepliesWhole
<1>1. ReplyTypeOK /\ WireInv => RepliesWhole
  <2> SUFFICES ASSUME ReplyTypeOK, WireInv, NEW f \in Fd
               PROVE  /\ wire[f] # <<>> => Head(wire[f]).at = 1
                      /\ \A k \in 1..Len(wire[f]) - 1 : Follows(wire[f][k], wire[f][k + 1])
                      /\ \A j, k \in DOMAIN wire[f] : wire[f][j] = wire[f][k] => j = k
                      /\ wire[f] # <<>> /\ wire[f][Len(wire[f])].at < MsgLen =>
                           \/ wire[f][Len(wire[f])].msg \in cut
                           \/ mutex # Nobody /\ len = wire[f][Len(wire[f])].at
    BY DEF RepliesWhole
  <2>1. wire[f] \in Seq(Unit)
    BY DEF ReplyTypeOK
  <2>2. DOMAIN wire[f] = 1..Len(wire[f]) /\ Head(wire[f]) = wire[f][1]
    BY <2>1, LenProperties, HeadTailProperties
  <2>3. InOrder(wire[f]) /\ Complete(f)
    BY DEF WireInv
  <2>4. QED
    BY <2>2, <2>3, WorkerAssumption DEF InOrder, Complete, Final
<1>2. QED
  BY Invariant, <1>1, PTL DEF IInv
=============================================================================
