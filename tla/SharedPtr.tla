----------------------------- MODULE SharedPtr -----------------------------
(***************************************************************************)
(* Smart_Ptr_T and RefCounter (base/base_smart_ptr_t.h): objects that      *)
(* count the pointers to them and are deleted by whoever drops the last    *)
(* one.  Each change of a count happens under the object's own mutex, so   *)
(* it is one step; the deletion that may follow is a second step, after    *)
(* the mutex was released.                                                 *)
(*                                                                         *)
(* A slot is a pointer variable of the program: a local, a parameter, an   *)
(* element of a container.  Only the thread that owns a slot, or holds the *)
(* lock of the container it is in, uses it.                                *)
(***************************************************************************)
EXTENDS Naturals, FiniteSets

CONSTANTS
  Object,    \* everything derived from RefCounter
  Slot,      \* the pointer variables
  NullPtr

ASSUME SharedPtrAssumption == NullPtr \notin Object /\ IsFiniteSet(Slot)

VARIABLES
  ptr,       \* Smart_Ptr_T::ptr_ of every slot
  count,     \* RefCounter::count_ of every object
  life       \* where the object is between its new and its delete

ptrVars == <<ptr, count, life>>

Life == {"unmade", "alive", "doomed", "deleted"}

PtrTypeOK ==
  /\ ptr \in [Slot -> Object \cup {NullPtr}]
  /\ count \in [Object -> Nat]
  /\ life \in [Object -> Life]

PtrInit ==
  /\ ptr = [s \in Slot |-> NullPtr]
  /\ count = [o \in Object |-> 0]
  /\ life = [o \in Object |-> "unmade"]

Pointers(o) == {s \in Slot : ptr[s] = o}

inc_ref(o) == count[o] + 1
dec_ref(o) == IF count[o] > 0 THEN count[o] - 1 ELSE 0

(* Smart_Ptr_T(new T): the object is still private to the thread. *)
Construct(s, o) ==
  /\ ptr[s] = NullPtr
  /\ life[o] = "unmade"
  /\ ptr' = [ptr EXCEPT ![s] = o]
  /\ count' = [count EXCEPT ![o] = inc_ref(o)]
  /\ life' = [life EXCEPT ![o] = "alive"]

Copy_Uncounted(s, t) ==                                          \* mutant
  /\ ptr[s] = NullPtr /\ ptr[t] # NullPtr
  /\ ptr' = [ptr EXCEPT ![s] = ptr[t]]
  /\ UNCHANGED <<count, life>>

(* The copy constructor, and what operator= does once it has let go of its
   old object: s becomes one more pointer to the object t points to. *)
Copy(s, t) ==
  /\ ptr[s] = NullPtr
  /\ ptr[t] # NullPtr
  /\ ptr' = [ptr EXCEPT ![s] = ptr[t]]
  /\ count' = [count EXCEPT ![ptr[t]] = inc_ref(ptr[t])]
  /\ UNCHANGED life

(* The destructor: the count goes down under its mutex, and the thread that
   took it to zero goes on to delete the object. *)
Drop(s) ==
  /\ ptr[s] # NullPtr
  /\ ptr' = [ptr EXCEPT ![s] = NullPtr]
  /\ count' = [count EXCEPT ![ptr[s]] = dec_ref(ptr[s])]
  /\ life' = [life EXCEPT ![ptr[s]] = IF dec_ref(ptr[s]) = 0 THEN "doomed" ELSE @]

(* DELETE_POINTER *)
Delete(o) ==
  /\ life[o] = "doomed"
  /\ life' = [life EXCEPT ![o] = "deleted"]
  /\ UNCHANGED <<ptr, count>>

PtrNext ==
  \/ \E s \in Slot, o \in Object : Construct(s, o)
  \/ \E s, t \in Slot : Copy(s, t)
  \/ \E s \in Slot : Drop(s)
  \/ \E o \in Object : Delete(o)

PtrSpec == PtrInit /\ [][PtrNext]_ptrVars

---------------------------------------------------------------------------
(* The count is the number of pointers there are, an object somebody points
   to has not been deleted nor is about to be, and one that nobody points to
   any more is (RefCounter and Smart_Ptr_T, used by several threads): no use
   after the delete, no second delete and no leak. *)
ReferencesExact == \A o \in Object :
  /\ count[o] = Cardinality(Pointers(o))
  /\ life[o] = "alive" <=> Pointers(o) # {}
=============================================================================
