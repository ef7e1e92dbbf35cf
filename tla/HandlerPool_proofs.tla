------------------------- MODULE HandlerPool_proofs -------------------------
(***************************************************************************)
(* Proofs about HandlerPool for every finite set of workers, every number  *)
(* of handlers, with and without spurious wakeups.                         *)
(***************************************************************************)
EXTENDS HandlerPool, FiniteSetTheorems, TLAPS

(* The inductive invariant.  The counter's range needs FreeCountExact (the *)
(* scan decrements only when it found a free handler), the counter needs   *)
(* BusyIffHeld (put_handler clears a bit that was set), and BusyIffHeld    *)
(* needs HandlerExclusive (clearing a bit takes it from one worker only).  *)
IInv ==
    /\ TypeOK
    /\ HandlerExclusive
    /\ BusyIffHeld
    /\ FreeCountExact
    /\ NoLostWakeup

(* Without the two conjuncts that count: who holds what.                   *)
HolderInv == TypeOK /\ HandlerExclusive /\ BusyIffHeld

----------------------------------------------------------------------------
(* The sets that are counted are finite, so their cardinalities are        *)
(* natural numbers.                                                        *)
LEMMA FreeFinite == IsFiniteSet(Free) /\ Cardinality(Free) \in Nat
<1>1. IsFiniteSet(Handler)
  BY HandlerNumAssumption, FS_Interval DEF Handler
<1>2. Free \in SUBSET Handler
  BY DEF Free
<1>3. IsFiniteSet(Free)
  BY <1>1, <1>2, FS_Subset
<1>4. QED
  BY <1>3, FS_CardinalityType

LEMMA AtFinite ==
  ASSUME NEW p
  PROVE  IsFiniteSet(At(p)) /\ Cardinality(At(p)) \in Nat
<1>1. At(p) \in SUBSET Worker
  BY DEF At
<1>2. IsFiniteSet(At(p))
  BY <1>1, WorkerAssumption, FS_Subset
<1>3. QED
  BY <1>2, FS_CardinalityType

(* What taking and returning a handler does to the set of free handlers.   *)
LEMMA TakeFree ==
  ASSUME TypeOK, NEW w \in Worker, NEW h \in Handler, Take(w, h)
  PROVE  h \in Free /\ Free' = Free \ {h}
BY DEF TypeOK, Take, FirstFree, Free

LEMMA PutFree ==
  ASSUME HolderInv, NEW w \in Worker, Put(w)
  PROVE  /\ held[w] \in Handler
         /\ held[w] \notin Free
         /\ Free' = Free \cup {held[w]}
<1>1. held[w] \in Handler /\ busy[held[w]]
  BY DEF HolderInv, TypeOK, BusyIffHeld, Put, NoHandler
<1>2. QED
  BY <1>1 DEF HolderInv, TypeOK, Put, Free

(* What a signal does to the program counters.                             *)
LEMMA PutPc ==
  ASSUME TypeOK, NEW w \in Worker, Put(w)
  PROVE  \/ /\ pc' = [pc EXCEPT ![w] = "out"]
            /\ At("waiting") = {}
         \/ \E v \in At("waiting") :
               /\ v # w
               /\ pc' = [[pc EXCEPT ![w] = "out"] EXCEPT ![v] = "woken"]
<1> DEFINE q == [pc EXCEPT ![w] = "out"]
           asleep == {v \in Worker : q[v] = "waiting"}
<1>1. pc[w] = "using" /\ Signal(q)
  BY DEF Put
<1>2. asleep = At("waiting") /\ w \notin At("waiting")
  BY <1>1 DEF TypeOK, At
<1>3. CASE asleep = {}
  BY <1>1, <1>2, <1>3 DEF Signal
<1>4. CASE asleep # {}
  <2>1. PICK v \in asleep : pc' = [q EXCEPT ![v] = "woken"]
    BY <1>1, <1>4 DEF Signal
  <2>2. QED
    BY <1>2, <2>1
<1>5. QED
  BY <1>3, <1>4

----------------------------------------------------------------------------
(* The counter: types, and equality with the number of free handlers.      *)
LEMMA InitIInv == Init => IInv
<1> SUFFICES ASSUME Init PROVE IInv
  OBVIOUS
<1>1. TypeOK /\ HandlerExclusive /\ BusyIffHeld
  BY HandlerNumAssumption
  DEF Init, TypeOK, HandlerExclusive, BusyIffHeld, Handler, NoHandler, PC
<1>2. FreeCountExact
  <2>1. Free = 1..HandlerNum
    BY DEF Init, Free, Handler
  <2>2. Cardinality(1..HandlerNum) = HandlerNum
    BY HandlerNumAssumption, FS_Interval
  <2>3. QED
    BY <2>1, <2>2 DEF Init, FreeCountExact
<1>3. NoLostWakeup
  BY DEF Init, NoLostWakeup, At
<1>4. QED
  BY <1>1, <1>2, <1>3 DEF IInv

(* Taking a handler: the counter is at least 1 and loses 1.                *)
LEMMA TakeCounter ==
  ASSUME IInv, NEW w \in Worker, NEW h \in Handler, Take(w, h)
  PROVE  /\ free \in Nat \ {0}
         /\ free' = Cardinality(Free')
         /\ free' \in Nat
<1>1. h \in Free /\ Free' = Free \ {h}
  BY TakeFree DEF IInv
<1>2. Cardinality(Free \ {h}) = Cardinality(Free) - 1
  BY <1>1, FreeFinite, FS_RemoveElement
<1>3. Free # {}
  BY <1>1
<1>4. Cardinality(Free) # 0
  BY <1>3, FreeFinite, FS_EmptySet
<1>5. free = Cardinality(Free) /\ free' = free - 1
  BY DEF IInv, FreeCountExact, Take
<1>6. QED
  BY <1>1, <1>2, <1>4, <1>5, FreeFinite

(* Types, exclusive use and the busy bits over a step that takes.          *)
LEMMA TakeHolder ==
  ASSUME IInv, NEW w \in Worker, NEW h \in Handler, Take(w, h),
         pc[w] # "using"
  PROVE  HolderInv'
<1>1. TypeOK'
  BY TakeCounter DEF IInv, TypeOK, Take, PC
<1>2. held[w] = NoHandler
  BY DEF IInv, BusyIffHeld
<1>3. ~busy[h] /\ \A v \in Worker : held[v] # h
  BY TakeFree DEF IInv, BusyIffHeld, Free
<1>4. HandlerExclusive'
  BY <1>3 DEF IInv, TypeOK, HandlerExclusive, Take
<1>5. BusyIffHeld'
  <2>1. \A g \in Handler : busy'[g] <=> \E v \in Worker : held'[v] = g
    BY <1>2, <1>3, HandlerNumAssumption
    DEF IInv, TypeOK, BusyIffHeld, Take, Handler, NoHandler
  <2>2. \A v \in Worker : held'[v] # NoHandler <=> pc'[v] = "using"
    BY HandlerNumAssumption
    DEF IInv, TypeOK, BusyIffHeld, Take, Handler, NoHandler
  <2>3. QED
    BY <2>1, <2>2 DEF BusyIffHeld
<1>6. QED
  BY <1>1, <1>4, <1>5 DEF HolderInv

(* The same over put_handler: the returned handler was w's alone.          *)
LEMMA PutHolder ==
  ASSUME IInv, NEW w \in Worker, Put(w)
  PROVE  HolderInv' /\ FreeCountExact'
<1> DEFINE h == held[w]
<1>1. h \in Handler /\ h \notin Free /\ Free' = Free \cup {h}
  BY PutFree DEF IInv, HolderInv
<1>2. pc'[w] = "out" /\ \A v \in Worker : pc'[v] = "using" <=> pc[v] = "using" /\ v # w
  BY PutPc DEF IInv, TypeOK, At
<1>3. busy' = [busy EXCEPT ![h] = FALSE] /\ free' = free + 1
      /\ held' = [held EXCEPT ![w] = NoHandler]
  BY DEF Put
<1>4. pc' \in [Worker -> PC]
  BY PutPc DEF IInv, TypeOK, At, PC
<1>5. TypeOK'
  <2>1. busy' \in [Handler -> BOOLEAN] /\ held' \in [Worker -> Handler \cup {NoHandler}]
    BY <1>3 DEF IInv, TypeOK
  <2>2. free' \in Nat
    BY <1>3 DEF IInv, TypeOK
  <2>3. QED
    BY <1>4, <2>1, <2>2 DEF TypeOK
<1>6. \A v \in Worker \ {w} : held[v] # h
  BY <1>1, HandlerNumAssumption DEF IInv, HandlerExclusive, Handler, NoHandler
<1>7. HandlerExclusive'
  BY <1>3 DEF IInv, TypeOK, HandlerExclusive, NoHandler
<1>8. \A g \in Handler : busy'[g] <=> \E v \in Worker : held'[v] = g
  <2> TAKE g \in Handler
  <2>1. CASE g = h
    BY <1>1, <1>3, <1>6, <2>1, HandlerNumAssumption
    DEF IInv, TypeOK, Handler, NoHandler
  <2>2. CASE g # h
    BY <1>1, <1>3, <1>6, <2>2, HandlerNumAssumption
    DEF IInv, TypeOK, BusyIffHeld, Handler, NoHandler
  <2>3. QED
    BY <2>1, <2>2
<1>9. \A v \in Worker : held'[v] # NoHandler <=> pc'[v] = "using"
  BY <1>2, <1>3 DEF IInv, TypeOK, BusyIffHeld
<1>10. FreeCountExact'
  <2>1. Cardinality(Free \cup {h}) = Cardinality(Free) + 1
    BY <1>1, FreeFinite, FS_AddElement
  <2>2. QED
    BY <1>1, <1>3, <2>1 DEF IInv, FreeCountExact
<1>11. QED
  BY <1>5, <1>7, <1>8, <1>9, <1>10 DEF HolderInv, BusyIffHeld

(* A step that moves one worker between two places where it has no handler *)
(* keeps everything but, perhaps, NoLostWakeup.                            *)
LEMMA PcStep ==
  ASSUME IInv, NEW w \in Worker, NEW p \in PC \ {"using"}, pc[w] # "using",
         pc' = [pc EXCEPT ![w] = p], UNCHANGED <<busy, free, held>>
  PROVE  HolderInv' /\ FreeCountExact'
<1>1. TypeOK'
  BY DEF IInv, TypeOK
<1>2. HandlerExclusive'
  BY DEF IInv, HandlerExclusive
<1>3. BusyIffHeld'
  BY DEF IInv, TypeOK, BusyIffHeld
<1>4. FreeCountExact'
  BY DEF IInv, FreeCountExact, Free
<1>5. QED
  BY <1>1, <1>2, <1>3, <1>4 DEF HolderInv

----------------------------------------------------------------------------
(* No lost wakeup, one lemma per kind of step.                             *)

(* A worker that never slept takes a handler: free only shrinks.           *)
LEMMA GetWakeup ==
  ASSUME IInv, NEW w \in Worker, NEW h \in Handler, pc[w] = "out", Take(w, h)
  PROVE  NoLostWakeup'
<1>1. At("waiting")' = At("waiting") /\ At("woken")' = At("woken")
  BY DEF IInv, TypeOK, At, Take
<1>2. free \in Nat /\ free' = free - 1
  BY DEF IInv, TypeOK, Take
<1>3. QED
  BY <1>1, <1>2, AtFinite DEF IInv, NoLostWakeup

(* A woken worker takes a handler: one woken worker and one free handler   *)
(* less.                                                                   *)
LEMMA ResumeWakeup ==
  ASSUME IInv, NEW w \in Worker, NEW h \in Handler, pc[w] = "woken", Take(w, h)
  PROVE  NoLostWakeup'
<1>1. /\ At("waiting")' = At("waiting")
      /\ At("woken")' = At("woken") \ {w}
      /\ w \in At("woken")
  BY DEF IInv, TypeOK, At, Take
<1>2. free \in Nat /\ free' = free - 1
  BY DEF IInv, TypeOK, Take
<1>3. Cardinality(At("woken") \ {w}) = Cardinality(At("woken")) - 1
  BY <1>1, AtFinite, FS_RemoveElement
<1>4. Cardinality(At("woken")) \in Nat
  BY AtFinite
<1>5. At("waiting") # {} => free <= Cardinality(At("woken"))
  BY DEF IInv, NoLostWakeup
<1>6. At("waiting") # {} => free' <= Cardinality(At("woken")')
  BY <1>1, <1>2, <1>3, <1>4, <1>5
<1>7. QED
  BY <1>1, <1>6 DEF NoLostWakeup

(* Nothing is free: nothing can be missed.                                 *)
LEMMA NoneFreeWakeup ==
  ASSUME free' = 0
  PROVE  NoLostWakeup'
<1>1. Cardinality(At("woken")') \in Nat
  <2>1. At("woken")' \in SUBSET Worker
    BY DEF At
  <2>2. QED
    BY <2>1, WorkerAssumption, FS_Subset, FS_CardinalityType
<1>2. QED
  BY <1>1 DEF NoLostWakeup

(* A sleeper wakes on its own.                                             *)
LEMMA SpuriousWakeup ==
  ASSUME IInv, NEW w \in Worker, SpuriousWake(w)
  PROVE  NoLostWakeup'
<1>1. /\ At("waiting")' \subseteq At("waiting")
      /\ At("woken")' = At("woken") \cup {w}
      /\ w \notin At("woken")
      /\ free' = free
  BY DEF IInv, TypeOK, At, SpuriousWake
<1>2. Cardinality(At("woken") \cup {w}) = Cardinality(At("woken")) + 1
  BY <1>1, AtFinite, FS_AddElement
<1>3. QED
  BY <1>1, <1>2, AtFinite DEF IInv, TypeOK, NoLostWakeup

(* put_handler frees one handler and wakes one sleeper, if there is one.   *)
LEMMA PutWakeup ==
  ASSUME IInv, NEW w \in Worker, Put(w)
  PROVE  NoLostWakeup'
<1>1. pc[w] = "using" /\ free' = free + 1
  BY DEF Put
<1>2. CASE pc' = [pc EXCEPT ![w] = "out"] /\ At("waiting") = {}
  <2>1. At("waiting")' = {}
    BY <1>2 DEF IInv, TypeOK, At
  <2>2. QED
    BY <2>1 DEF NoLostWakeup
<1>3. CASE \E v \in At("waiting") :
             v # w /\ pc' = [[pc EXCEPT ![w] = "out"] EXCEPT ![v] = "woken"]
  <2>1. PICK v \in At("waiting") :
             v # w /\ pc' = [[pc EXCEPT ![w] = "out"] EXCEPT ![v] = "woken"]
    BY <1>3
  <2>2. At("woken")' = At("woken") \cup {v} /\ v \notin At("woken")
    BY <1>1, <2>1 DEF IInv, TypeOK, At
  <2>3. Cardinality(At("woken") \cup {v}) = Cardinality(At("woken")) + 1
    BY <2>2, AtFinite, FS_AddElement
  <2>4. free <= Cardinality(At("woken"))
    BY <2>1 DEF IInv, NoLostWakeup
  <2>5. free \in Nat /\ Cardinality(At("woken")) \in Nat
    BY AtFinite DEF IInv, TypeOK
  <2>6. Cardinality(At("woken")') = Cardinality(At("woken")) + 1
    BY <2>2, <2>3
  <2>7. free' <= Cardinality(At("woken")')
    BY <1>1, <2>4, <2>5, <2>6
  <2>8. QED
    BY <2>7 DEF NoLostWakeup
<1>4. QED
  BY PutPc, <1>2, <1>3 DEF IInv

----------------------------------------------------------------------------
(* Every step preserves the invariant.                                     *)
LEMMA NextIInv == IInv /\ [Next]_vars => IInv'
<1> SUFFICES ASSUME IInv, [Next]_vars PROVE IInv'
  OBVIOUS
<1>1. Free = {} => free = 0
  BY FS_EmptySet DEF IInv, FreeCountExact
<1>2. ASSUME NEW w \in Worker, Get(w) PROVE IInv'
  <2>1. Free # {}
    BY <1>2, FS_EmptySet DEF IInv, FreeCountExact, Get
  <2>2. PICK h \in Handler : Take(w, h)
    BY <1>2, <2>1 DEF Get, Scan, FindNone
  <2>3. pc[w] = "out"
    BY <1>2 DEF Get
  <2>4. HolderInv'
    BY <2>2, <2>3, TakeHolder
  <2>5. FreeCountExact'
    BY <2>2, TakeCounter DEF FreeCountExact
  <2>6. NoLostWakeup'
    BY <2>2, <2>3, GetWakeup
  <2>7. QED
    BY <2>4, <2>5, <2>6 DEF IInv, HolderInv
<1>3. ASSUME NEW w \in Worker, Wait(w) PROVE IInv'
  <2>1. HolderInv' /\ FreeCountExact'
    BY <1>3, PcStep DEF Wait, PC
  <2>2. NoLostWakeup'
    BY <1>3, NoneFreeWakeup DEF Wait
  <2>3. QED
    BY <2>1, <2>2 DEF IInv, HolderInv
<1>4. ASSUME NEW w \in Worker, Resume(w) PROVE IInv'
  <2>1. pc[w] = "woken" /\ Scan(w)
    BY <1>4 DEF Resume
  <2>2. CASE FindNone(w)
    <3>1. HolderInv' /\ FreeCountExact'
      BY <2>1, <2>2, PcStep DEF FindNone, PC
    <3>2. NoLostWakeup'
      BY <1>1, <2>2, NoneFreeWakeup DEF FindNone
    <3>3. QED
      BY <3>1, <3>2 DEF IInv, HolderInv
  <2>3. CASE \E h \in Handler : Take(w, h)
    <3>1. PICK h \in Handler : Take(w, h)
      BY <2>3
    <3>2. HolderInv'
      BY <2>1, <3>1, TakeHolder
    <3>3. FreeCountExact'
      BY <3>1, TakeCounter DEF FreeCountExact
    <3>4. NoLostWakeup'
      BY <2>1, <3>1, ResumeWakeup
    <3>5. QED
      BY <3>2, <3>3, <3>4 DEF IInv, HolderInv
  <2>4. QED
    BY <2>1, <2>2, <2>3 DEF Scan
<1>5. ASSUME NEW w \in Worker, SpuriousWake(w) PROVE IInv'
  <2>1. HolderInv' /\ FreeCountExact'
    BY <1>5, PcStep DEF SpuriousWake, PC
  <2>2. NoLostWakeup'
    BY <1>5, SpuriousWakeup
  <2>3. QED
    BY <2>1, <2>2 DEF IInv, HolderInv
<1>6. ASSUME NEW w \in Worker, Put(w) PROVE IInv'
  BY <1>6, PutHolder, PutWakeup DEF IInv, HolderInv
<1>7. ASSUME NEW w \in Worker, PutNull(w) PROVE IInv'
  <2>1. HolderInv' /\ FreeCountExact'
    BY <1>7, PcStep DEF PutNull, PC
  <2>2. At("waiting")' = At("waiting") /\ At("woken")' = At("woken")
    BY <1>7 DEF IInv, TypeOK, PutNull, At
  <2>3. NoLostWakeup'
    BY <1>7, <2>2 DEF IInv, NoLostWakeup, PutNull
  <2>4. QED
    BY <2>1, <2>3 DEF IInv, HolderInv
<1>8. CASE UNCHANGED vars
  BY <1>8 DEF IInv, TypeOK, HandlerExclusive, BusyIffHeld, FreeCountExact,
              NoLostWakeup, At, Free, vars
<1>9. QED
  BY <1>2, <1>3, <1>4, <1>5, <1>6, <1>7, <1>8 DEF Next

(* Flags, counter, owners and wakeups agree in every reachable state. *)
THEOREM Invariant == Spec => []IInv
BY InitIInv, NextIInv, PTL DEF Spec

(* Face_Handler_Mgt's variables keep their types; in particular the        *)
(* unsigned counter never goes below zero.                                 *)
THEOREM TypeCorrect == Spec => []TypeOK
<1>1. IInv => TypeOK
  BY DEF IInv
<1>2. QED
  BY Invariant, <1>1, PTL

(* get_handler never gives one handler to two workers.                     *)
THEOREM ExclusiveUse == Spec => []HandlerExclusive
<1>1. IInv => HandlerExclusive
  BY DEF IInv
<1>2. QED
  BY Invariant, <1>1, PTL

(* m_free_handler_num always equals the number of handlers not busy.       *)
THEOREM CounterExact == Spec => []FreeCountExact
<1>1. IInv => FreeCountExact
  BY DEF IInv
<1>2. QED
  BY Invariant, <1>1, PTL

(* While a worker sleeps, every free handler has a woken worker coming.    *)
THEOREM WakeupNotLost == Spec => []NoLostWakeup
<1>1. IInv => NoLostWakeup
  BY DEF IInv
<1>2. QED
  BY Invariant, <1>1, PTL

----------------------------------------------------------------------------
(* The refinement.  A step of the pool is, for its callers, one step of    *)
(* the abstract pool or none at all.                                       *)

(* The owner set the mapping computes, without its CHOOSE.                 *)
LEMMA OwnerOf ==
  ASSUME HolderInv, NEW h \in Handler
  PROVE  /\ \A w \in Worker : held[w] = h => Owner[h] = {w}
         /\ (\A w \in Worker : held[w] # h) => Owner[h] = {}
         /\ Owner[h] = {} <=> h \in Free
<1>1. h # NoHandler
  BY HandlerNumAssumption DEF Handler, NoHandler
<1>2. ASSUME NEW w \in Worker, held[w] = h PROVE Owner[h] = {w}
  <2>1. w = CHOOSE v \in Worker : held[v] = h
    BY <1>1, <1>2 DEF HolderInv, HandlerExclusive
  <2>2. QED
    BY <1>2, <2>1 DEF Owner
<1>3. (\A w \in Worker : held[w] # h) => Owner[h] = {}
  BY DEF Owner
<1>4. Owner[h] = {} <=> h \in Free
  BY <1>2, <1>3 DEF HolderInv, BusyIffHeld, Free
<1>5. QED
  BY <1>2, <1>3, <1>4

LEMMA NotOwning ==
  ASSUME HolderInv, NEW w \in Worker, pc[w] # "using"
  PROVE  ~Pool!Owns(w)
<1>1. held[w] = NoHandler
  BY DEF HolderInv, BusyIffHeld
<1>2. ASSUME NEW h \in Handler PROVE w \notin Owner[h]
  <2>1. held[w] # h
    BY <1>1, HandlerNumAssumption DEF Handler, NoHandler
  <2>2. CASE \E v \in Worker : held[v] = h
    BY <2>1, <2>2, OwnerOf
  <2>3. CASE \A v \in Worker : held[v] # h
    BY <2>3, OwnerOf
  <2>4. QED
    BY <2>2, <2>3
<1>3. QED
  BY <1>2 DEF Pool!Owns, Pool!Handler, Handler

(* Taking a handler is an Acquire.                                         *)
LEMMA TakeAcquires ==
  ASSUME HolderInv, HolderInv', NEW w \in Worker, NEW h \in Handler, Take(w, h),
         pc[w] \in {"out", "woken"}
  PROVE  Pool!Next
<1>1. h \in Free /\ Owner[h] = {}
  BY TakeFree, OwnerOf DEF HolderInv
<1>2. ~Pool!Owns(w) /\ w \notin At("empty")
  BY NotOwning DEF At
<1>3. At("empty")' = At("empty")
  BY DEF HolderInv, TypeOK, At, Take
<1>4. Owner' = [Owner EXCEPT ![h] = {w}]
  <2>1. held' = [held EXCEPT ![w] = h] /\ held[w] = NoHandler
    BY DEF HolderInv, BusyIffHeld, Take
  <2>2. \A v \in Worker : held[v] # h
    BY <1>1 DEF HolderInv, BusyIffHeld, Free
  <2>3. ASSUME NEW g \in Handler, g # h PROVE Owner'[g] = Owner[g]
    <3>1. \A v \in Worker : held'[v] = g <=> held[v] = g
      BY <2>1, <2>3, HandlerNumAssumption DEF HolderInv, TypeOK, Handler, NoHandler
    <3>2. QED
      BY <3>1 DEF Owner
  <2>4. Owner'[h] = {w}
    <3>1. \A v \in Worker : held'[v] = h <=> v = w
      BY <2>1, <2>2 DEF HolderInv, TypeOK
    <3>2. QED
      BY <3>1 DEF Owner
  <2>5. QED
    BY <2>3, <2>4 DEF Owner
<1>5. QED
  BY <1>1, <1>2, <1>3, <1>4 DEF Pool!Next, Pool!Acquire, Pool!Handler, Handler

(* An empty-handed return is a Refuse: the scan found every handler busy.  *)
LEMMA FindNoneRefuses ==
  ASSUME HolderInv, NEW w \in Worker, FindNone(w), pc[w] \in {"out", "woken"}
  PROVE  Pool!Next
<1>1. \A h \in Handler : Owner[h] # {}
  BY OwnerOf DEF FindNone
<1>2. ~Pool!Owns(w) /\ w \notin At("empty")
  BY NotOwning DEF At
<1>3. At("empty")' = At("empty") \cup {w}
  BY DEF HolderInv, TypeOK, At, FindNone
<1>4. Owner' = Owner
  BY DEF Owner, FindNone
<1>5. QED
  BY <1>1, <1>2, <1>3, <1>4 DEF Pool!Next, Pool!Refuse, Pool!Handler, Handler

(* put_handler is a Release; the wakeup it sends is invisible.             *)
LEMMA PutReleases ==
  ASSUME HolderInv, NEW w \in Worker, Put(w)
  PROVE  Pool!Next
<1> DEFINE h == held[w]
<1>1. h \in Handler /\ Owner[h] = {w}
  BY PutFree, OwnerOf
<1>2. At("empty")' = At("empty")
  BY PutPc DEF HolderInv, TypeOK, At, Put
<1>3. held' = [held EXCEPT ![w] = NoHandler]
  BY DEF Put
<1>4. ASSUME NEW g \in Handler, g # h PROVE Owner'[g] = Owner[g]
  <2>1. \A v \in Worker : held'[v] = g <=> held[v] = g
    BY <1>3, <1>4, HandlerNumAssumption DEF HolderInv, TypeOK, Handler, NoHandler
  <2>2. QED
    BY <2>1 DEF Owner
<1>5. Owner'[h] = {}
  <2>1. \A v \in Worker : held'[v] # h
    BY <1>1, <1>3, HandlerNumAssumption
    DEF HolderInv, TypeOK, HandlerExclusive, Handler, NoHandler
  <2>2. QED
    BY <1>1, <2>1 DEF Owner
<1>6. Owner' = [Owner EXCEPT ![h] = {}]
  <2>1. /\ Owner = [g \in Handler |-> Owner[g]]
        /\ Owner' = [g \in Handler |-> Owner'[g]]
    BY DEF Owner
  <2> HIDE DEF h
  <2>2. QED
    BY <1>4, <1>5, <2>1
<1>7. QED
  BY <1>1, <1>2, <1>6 DEF Pool!Next, Pool!Release, Pool!Handler, Handler

LEMMA PutNullGivesUp ==
  ASSUME HolderInv, NEW w \in Worker, PutNull(w)
  PROVE  Pool!Next
<1>1. w \in At("empty") /\ At("empty")' = At("empty") \ {w}
  BY DEF HolderInv, TypeOK, At, PutNull
<1>2. Owner' = Owner
  BY DEF Owner, PutNull
<1>3. QED
  BY <1>1, <1>2 DEF Pool!Next, Pool!GiveUp

LEMMA InitPool == Init => Pool!Init
<1> SUFFICES ASSUME Init PROVE Pool!Init
  OBVIOUS
<1>1. Owner = [h \in Handler |-> {}]
  <2>1. \A h \in Handler : \A w \in Worker : held[w] # h
    BY HandlerNumAssumption DEF Init, Handler, NoHandler
  <2>2. QED
    BY <2>1 DEF Owner
<1>2. At("empty") = {}
  BY DEF Init, At
<1>3. QED
  BY <1>1, <1>2 DEF Pool!Init, Pool!Handler, Handler

LEMMA NextPool ==
  ASSUME IInv, IInv', [Next]_vars
  PROVE  [Pool!Next]_Pool!vars
<1> USE DEF Pool!vars
<1>0. HolderInv /\ HolderInv'
  BY DEF IInv, HolderInv
<1>1. ASSUME NEW w \in Worker, Get(w) \/ Resume(w) PROVE Pool!Next
  <2>1. pc[w] \in {"out", "woken"} /\ Scan(w)
    BY <1>1 DEF Get, Resume
  <2>2. QED
    BY <1>0, <2>1, TakeAcquires, FindNoneRefuses DEF Scan
<1>2. ASSUME NEW w \in Worker, Wait(w) \/ SpuriousWake(w)
      PROVE  UNCHANGED <<Owner, At("empty")>>
  BY <1>0, <1>2 DEF Wait, SpuriousWake, HolderInv, TypeOK, Owner, At
<1>3. ASSUME NEW w \in Worker, Put(w) PROVE Pool!Next
  BY <1>0, <1>3, PutReleases
<1>4. ASSUME NEW w \in Worker, PutNull(w) PROVE Pool!Next
  BY <1>0, <1>4, PutNullGivesUp
<1>5. CASE UNCHANGED vars
  BY <1>5 DEF vars, Owner, At
<1>6. QED
  BY <1>1, <1>2, <1>3, <1>4, <1>5 DEF Next

(* The pool implements what its callers rely on: one owner per handler,    *)
(* and a caller is turned away only while every handler is in use.         *)
THEOREM PoolRefinement == Spec => ImplementsPool
<1>1. Init => Pool!Init
  BY InitPool
<1>2. IInv /\ IInv' /\ [Next]_vars => [Pool!Next]_Pool!vars
  BY NextPool
<1>3. QED
  BY <1>1, <1>2, Invariant, PTL DEF Spec, ImplementsPool, Pool!Spec
=============================================================================
