-------------------------- MODULE UserStore_proofs --------------------------
(***************************************************************************)
(* Proofs about UserStore for every set of ids and names, finite or not.   *)
(***************************************************************************)
EXTENDS UserStore, SequenceTheorems, FiniteSetTheorems, TLAPS

----------------------------------------------------------------------------
(* The operators on sequences and sets the vector is changed with.         *)

(* No two entries have one id.                                             *)
Distinct(s) == \A j, k \in DOMAIN s : s[j].id = s[k].id => j = k

(* id is the primary key of tbl_user.                                      *)
Keyed(S) == \A u, v \in S : u.id = v.id => u = v

(* push_back of a user whose id is new.                                    *)
LEMMA AppendUser ==
  ASSUME NEW s \in Seq(User), NEW u \in User
  PROVE  /\ Append(s, u) \in Seq(User)
         /\ ToSet(Append(s, u)) = ToSet(s) \cup {u}
         /\ Distinct(s) /\ (\A v \in ToSet(s) : v.id # u.id) => Distinct(Append(s, u))
<1> DEFINE t == Append(s, u)
<1>1. /\ t \in Seq(User)
      /\ Len(t) = Len(s) + 1
      /\ \A i \in 1..Len(s) : t[i] = s[i]
      /\ t[Len(s) + 1] = u
  BY AppendProperties
<1>2. /\ Len(s) \in Nat
      /\ DOMAIN s = 1..Len(s)
      /\ DOMAIN t = 1..Len(t)
  BY <1>1, LenProperties
<1> HIDE DEF t
<1>3. ToSet(t) = ToSet(s) \cup {u}
  BY <1>1, <1>2 DEF ToSet
<1>4. ASSUME Distinct(s), \A v \in ToSet(s) : v.id # u.id
      PROVE  Distinct(t)
  <2>1. \A i \in 1..Len(s) : t[i].id # u.id
    BY <1>1, <1>2, <1>4 DEF ToSet
  <2>2. SUFFICES ASSUME NEW j \in DOMAIN t, NEW k \in DOMAIN t, t[j].id = t[k].id
                 PROVE  j = k
    BY DEF Distinct
  <2>3. CASE j \in 1..Len(s) /\ k \in 1..Len(s)
    BY <2>2, <2>3, <1>1, <1>2, <1>4 DEF Distinct
  <2>4. CASE j = Len(s) + 1 \/ k = Len(s) + 1
    BY <2>1, <2>2, <2>4, <1>1, <1>2
  <2>5. QED
    BY <2>3, <2>4, <1>1, <1>2
<1>5. QED
  BY <1>1, <1>3, <1>4 DEF t

(* A sequence without the entry at k.                                      *)
LEMMA ErasedAt ==
  ASSUME NEW S, NEW s \in Seq(S), NEW k \in 1..Len(s)
  PROVE  /\ RemoveAt(s, k) \in Seq(S)
         /\ Len(RemoveAt(s, k)) = Len(s) - 1
         /\ \A i \in 1..(Len(s) - 1) : RemoveAt(s, k)[i] = IF i < k THEN s[i] ELSE s[i + 1]
<1>1. Len(s) \in Nat /\ \A i \in 1..Len(s) : s[i] \in S
  BY LenProperties, ElementOfSeq
<1> DEFINE a == SubSeq(s, 1, k - 1)
           b == SubSeq(s, k + 1, Len(s))
<1>2. /\ a \in Seq(S)
      /\ Len(a) = k - 1
      /\ \A i \in 1..(k - 1) : a[i] = s[i]
  <2>1. 1 \in Int /\ k - 1 \in Int /\ \A i \in 1..(k - 1) : s[i] \in S
    BY <1>1
  <2>2. /\ a \in Seq(S)
        /\ Len(a) = IF 1 <= k - 1 THEN (k - 1) - 1 + 1 ELSE 0
        /\ \A i \in 1 .. (k - 1) - 1 + 1 : a[i] = s[1 + i - 1]
    BY <2>1, SubSeqProperties
  <2> HIDE DEF a
  <2>3. QED
    BY <2>2, <1>1
<1>3. /\ b \in Seq(S)
      /\ Len(b) = Len(s) - k
      /\ \A i \in 1..(Len(s) - k) : b[i] = s[k + i]
  <2>1. k + 1 \in Int /\ Len(s) \in Int /\ \A i \in (k + 1)..Len(s) : s[i] \in S
    BY <1>1
  <2>2. /\ b \in Seq(S)
        /\ Len(b) = IF k + 1 <= Len(s) THEN Len(s) - (k + 1) + 1 ELSE 0
        /\ \A i \in 1 .. Len(s) - (k + 1) + 1 : b[i] = s[(k + 1) + i - 1]
    BY <2>1, SubSeqProperties
  <2> HIDE DEF b
  <2>3. QED
    BY <2>2, <1>1
<1> HIDE DEF a, b
<1>4. /\ a \o b \in Seq(S)
      /\ Len(a \o b) = Len(a) + Len(b)
      /\ \A i \in 1..(Len(a) + Len(b)) :
           (a \o b)[i] = IF i <= Len(a) THEN a[i] ELSE b[i - Len(a)]
  BY <1>2, <1>3, ConcatProperties
<1>5. RemoveAt(s, k) = a \o b
  BY DEF RemoveAt, a, b
<1>6. ASSUME NEW i \in 1..(Len(s) - 1)
      PROVE  (a \o b)[i] = IF i < k THEN s[i] ELSE s[i + 1]
  <2>1. CASE i < k
    BY <2>1, <1>1, <1>2, <1>3, <1>4
  <2>2. CASE ~(i < k)
    <3>1. i - Len(a) \in 1..(Len(s) - k) /\ k + (i - Len(a)) = i + 1
      BY <2>2, <1>1, <1>2
    <3>2. b[i - Len(a)] = s[i + 1]
      BY <3>1, <1>3
    <3>3. i \in 1..(Len(a) + Len(b)) /\ ~(i <= Len(a))
      BY <2>2, <1>1, <1>2, <1>3
    <3>4. (a \o b)[i] = b[i - Len(a)]
      BY <3>3, <1>4
    <3>5. QED
      BY <2>2, <3>2, <3>4
  <2>3. QED
    BY <2>1, <2>2
<1>7. Len(a \o b) = Len(s) - 1
  BY <1>1, <1>2, <1>3, <1>4
<1>8. QED
  BY <1>4, <1>5, <1>6, <1>7

(* Erasing from a vector of distinct ids: exactly the user goes.           *)
LEMMA RemoveUser ==
  ASSUME NEW s \in Seq(User), NEW u, Distinct(s)
  PROVE  /\ RemoveFirst(s, u) \in Seq(User)
         /\ Distinct(RemoveFirst(s, u))
         /\ ToSet(RemoveFirst(s, u)) = ToSet(s) \ {u}
<1>1. Len(s) \in Nat /\ DOMAIN s = 1..Len(s)
  BY LenProperties
<1>2. CASE ~\E i \in 1..Len(s) : s[i] = u
  BY <1>1, <1>2 DEF RemoveFirst, ToSet
<1>3. CASE \E i \in 1..Len(s) : s[i] = u
  <2>1. PICK k \in 1..Len(s) : s[k] = u
    BY <1>3
  <2>2. \A i \in 1..Len(s) : s[i] = u <=> i = k
    BY <2>1, <1>1 DEF Distinct
  <2>3. SelectInSeq(s, LAMBDA v : v = u) = k
    <3> DEFINE I == {i \in 1..Len(s) : s[i] = u}
    <3>1. I = {k}
      BY <2>1, <2>2
    <3>2. SelectInSeq(s, LAMBDA v : v = u) = IF I # {} THEN Min(I) ELSE 0
      BY DEF SelectInSeq
    <3>3. Min({k}) = k
      BY <1>1 DEF Min
    <3>4. QED
      BY <3>1, <3>2, <3>3
  <2>4. RemoveFirst(s, u) = RemoveAt(s, k)
    BY <1>3, <2>3 DEF RemoveFirst
  <2> DEFINE t == RemoveAt(s, k)
  <2>5. /\ t \in Seq(User)
        /\ Len(t) = Len(s) - 1
        /\ \A i \in 1..(Len(s) - 1) : t[i] = IF i < k THEN s[i] ELSE s[i + 1]
    BY ErasedAt
  <2>6. DOMAIN t = 1..(Len(s) - 1)
    BY <2>5, LenProperties
  <2> HIDE DEF t
  <2>7. Distinct(t)
    <3>1. SUFFICES ASSUME NEW i \in 1..(Len(s) - 1), NEW j \in 1..(Len(s) - 1),
                          t[i].id = t[j].id
                   PROVE  i = j
      BY <2>6 DEF Distinct
    <3> DEFINE at(x) == IF x < k THEN x ELSE x + 1
    <3>2. at(i) \in 1..Len(s) /\ at(j) \in 1..Len(s)
      BY <1>1
    <3>3. t[i] = s[at(i)] /\ t[j] = s[at(j)]
      BY <2>5
    <3>4. at(i) = at(j)
      <4> HIDE DEF at
      <4> QED BY <3>1, <3>2, <3>3, <1>1 DEF Distinct
    <3>5. QED
      BY <3>4, <1>1
  <2>8. ToSet(t) = ToSet(s) \ {u}
    <3>1. ASSUME NEW i \in 1..(Len(s) - 1)
          PROVE  t[i] \in ToSet(s) \ {u}
      <4>1. CASE i < k
        BY <4>1, <2>2, <2>5, <1>1 DEF ToSet
      <4>2. CASE ~(i < k)
        <5>1. i + 1 \in 1..Len(s) /\ i + 1 # k /\ t[i] = s[i + 1]
          BY <4>2, <2>5, <1>1
        <5>2. QED
          BY <5>1, <2>2, <1>1 DEF ToSet
      <4>3. QED
        BY <4>1, <4>2
    <3>2. ASSUME NEW j \in 1..Len(s), j # k
          PROVE  s[j] \in ToSet(t)
      <4>1. CASE j < k
        <5>1. j \in 1..(Len(s) - 1) /\ t[j] = s[j]
          BY <4>1, <2>5, <1>1
        <5>2. QED
          BY <5>1, <2>6 DEF ToSet
      <4>2. CASE j > k
        <5>1. j - 1 \in 1..(Len(s) - 1) /\ t[j - 1] = s[(j - 1) + 1] /\ (j - 1) + 1 = j
          BY <4>2, <2>5, <1>1
        <5>2. t[j - 1] = s[j]
          BY <5>1
        <5>3. QED
          BY <5>1, <5>2, <2>6 DEF ToSet
      <4>3. QED
        BY <3>2, <4>1, <4>2, <1>1
    <3>3. QED
      BY <3>1, <3>2, <2>1, <2>2, <2>6, <1>1 DEF ToSet
  <2>9. QED
    BY <2>4, <2>5, <2>7, <2>8 DEF t
<1>4. QED
  BY <1>2, <1>3

(* Reading a finite table: every row once, in some order.                  *)
LEMMA ReadTable ==
  ASSUME NEW S \in SUBSET User, IsFiniteSet(S), Keyed(S)
  PROVE  /\ SetToSeq(S) \in Seq(User)
         /\ ToSet(SetToSeq(S)) = S
         /\ Distinct(SetToSeq(S))
<1> DEFINE n == Cardinality(S)
           s == SetToSeq(S)
<1>1. n \in Nat /\ ExistsBijection(1..n, S)
  BY FS_CardinalityType
<1>2. PICK f : f \in [1..n -> S] /\ IsInjective(f)
  BY <1>1 DEF ExistsBijection, Bijection, Injection
<1>3. s \in [1..n -> S] /\ IsInjective(s)
  BY <1>2 DEF SetToSeq
<1>4. IsFiniteSet(1..n) /\ Cardinality(1..n) = n
  BY <1>1, FS_Interval
<1> HIDE DEF s, n
<1>5. s \in Injection(1..n, S)
  BY <1>3 DEF Injection
<1>6. s \in Surjection(1..n, S)
  BY <1>4, <1>5, FS_Injection DEF n
<1>7. s \in Seq(S) /\ s \in Seq(User)
  <2>1. s \in [1..n -> User]
    BY <1>3
  <2>2. QED
    BY <2>1, <1>1, <1>3, SeqDef
<1>8. DOMAIN s = 1..n
  BY <1>3
<1>9. ToSet(s) = S
  BY <1>3, <1>6, <1>8 DEF ToSet, Surjection
<1>10. Distinct(s)
  BY <1>3, <1>8 DEF Distinct, IsInjective, Keyed
<1>11. QED
  BY <1>7, <1>9, <1>10 DEF s
----------------------------------------------------------------------------
(* The inductive invariant.                                                *)

(* A transaction is open only between the first statement and the end of   *)
(* commit or rollback, on a live session in manual mode.                   *)
SessionInv ==
    /\ inTrans => ~auto /\ up /\ pc \in {"sql_img", "commit", "rollback"}
    /\ ~up => auto
    /\ pc = "down" => ~up

(* Between user_exist and push_back nobody enters the id that was found    *)
(* free; a withdrawal has taken back its promise.                          *)
OpInv ==
    /\ pc \notin {"idle", "down"} => op \in Op
    /\ pc = "exist" => op.type = "regist"
    /\ pc \notin {"idle", "down", "exist", "answer"} /\ op.type = "regist"
          => ~UserExist(op.user)
    /\ pc \notin {"idle", "down"} /\ op.type = "withdraw"
          => \A u \in promised : u.id # op.user.id

(* The tables are finite and id is a key of tbl_user, for everybody and    *)
(* inside the transaction.                                                 *)
KeyInv ==
    /\ IsFiniteSet(db.user) /\ Keyed(db.user)
    /\ IsFiniteSet(tx.user) /\ Keyed(tx.user)

(* What the operation makes of a set of users and a set of ids.            *)
After(S) == IF op.type = "regist" THEN S \cup {op.user} ELSE S \ {op.user}
AfterImg(S) == IF op.type = "regist" THEN S \cup {op.user.id} ELSE S \ {op.user.id}

(* While the connection holds and the process runs, the mode of the        *)
(* session, the transaction, the committed tables and the vector move in   *)
(* step with the operation.                                                *)
Steady == "dropped" \notin seen
SteadyInv ==
    Steady /\ pc # "down" =>
        /\ up
        /\ pc \in {"idle", "exist", "begin", "memory", "answer"} => auto
        /\ pc \in {"sql_user", "sql_img", "commit", "rollback", "giveup", "end"} => ~auto
        /\ pc \in {"sql_img", "commit"} => inTrans /\ tx.user = After(db.user)
        /\ pc = "sql_img" => tx.img = db.img
        /\ pc = "commit" => tx.img = AfterImg(db.img)
        /\ pc \in {"end", "memory"} => db.user = After(ToSet(m_users))
        /\ pc \notin {"end", "memory"} => db.user = ToSet(m_users)
        /\ pc = "answer" /\ op.type = "regist" /\ result = "ok" => op.user \in db.user
        /\ pc \in {"begin", "sql_user", "sql_img", "commit"} /\ op.type = "withdraw"
              /\ "misnamed" \notin seen
              => \A u \in db.user : u.id = op.user.id => u = op.user

IInv ==
    /\ TypeOK /\ SessionInv /\ OpInv /\ KeyInv /\ SteadyInv
    /\ UniqueIds /\ TablesAgree /\ PromiseKept

----------------------------------------------------------------------------
(* What the calls do to the tables.                                        *)

LEMMA EmptyTables == NoUsers \in Table /\ IsFiniteSet(NoUsers.user) /\ Keyed(NoUsers.user)
<1>1. NoUsers.user = {} /\ NoUsers \in Table
  BY DEF NoUsers, Table
<1>2. QED
  BY <1>1, FS_EmptySet DEF Keyed

LEMMA WriteUser ==
  ASSUME NEW t \in Table, NEW S \in SUBSET User
  PROVE  /\ [t EXCEPT !.user = S] \in Table
         /\ [t EXCEPT !.user = S].user = S
         /\ [t EXCEPT !.user = S].img = t.img
BY DEF Table

LEMMA WriteImg ==
  ASSUME NEW t \in Table, NEW S \in SUBSET Id
  PROVE  /\ [t EXCEPT !.img = S] \in Table
         /\ [t EXCEPT !.img = S].user = t.user
         /\ [t EXCEPT !.img = S].img = S
BY DEF Table

(* The statement on tbl_user keeps the key a key.                          *)
LEMMA AfterKeyed ==
  ASSUME op \in Op, NEW S \in SUBSET User, IsFiniteSet(S), Keyed(S),
         op.type = "regist" => \A v \in S : v.id # op.user.id
  PROVE  After(S) \in SUBSET User /\ IsFiniteSet(After(S)) /\ Keyed(After(S))
<1>1. op.user \in User
  BY DEF Op
<1>2. IsFiniteSet(S \cup {op.user}) /\ IsFiniteSet(S \ {op.user})
  BY FS_AddElement, FS_RemoveElement
<1>3. QED
  BY <1>1, <1>2 DEF After, Keyed

(* The ids of the users after the statement.                               *)
LEMMA AfterIds ==
  ASSUME op \in Op, NEW S \in SUBSET User,
         op.type = "withdraw" => \A u \in S : u.id = op.user.id => u = op.user
  PROVE  {u.id : u \in After(S)} = AfterImg({u.id : u \in S})
BY DEF After, AfterImg, Op

(* The session's view is always a table, and has the key.                  *)
LEMMA ViewTable ==
  ASSUME TypeOK, KeyInv
  PROVE  View \in Table /\ IsFiniteSet(View.user) /\ Keyed(View.user)
BY DEF TypeOK, KeyInv, View

LEMMA Modes == TypeOK <=>
    /\ m_users \in Seq(User)
    /\ op \in Op \cup {NoOp}
    /\ pc \in PC
    /\ result \in {"none", "ok", "error"}
    /\ promised \subseteq User
    /\ seen \subseteq {"dropped", "misnamed"}
    /\ db \in Table /\ tx \in Table
    /\ up \in BOOLEAN /\ auto \in BOOLEAN /\ inTrans \in BOOLEAN /\ flag \in BOOLEAN
BY Zenon DEF TypeOK

----------------------------------------------------------------------------
(* The inductive steps, one lemma for each action.                         *)

(* The vector and the tables start empty and the session idle.             *)
LEMMA InitIInv == Init => IInv
<1> SUFFICES ASSUME Init PROVE IInv
  OBVIOUS
<1> USE DEF Init, NoUsers, NoOp
<1>1. TypeOK
  BY EmptySeq DEF TypeOK, PC, Table, Op
<1>2. SessionInv /\ OpInv /\ UniqueIds /\ PromiseKept
  BY DEF SessionInv, OpInv, UniqueIds, PromiseKept
<1>3. KeyInv
  BY FS_EmptySet DEF KeyInv, Keyed
<1>4. SteadyInv
  BY DEF SteadyInv, Steady, ToSet
<1>5. TablesAgree
  BY DEF TablesAgree
<1>6. QED
  BY <1>1, <1>2, <1>3, <1>4, <1>5 DEF IInv

(* A request: a withdrawal takes the promise back at once.                 *)
LEMMA RequestIInv ==
  ASSUME IInv, Request
  PROVE  IInv'
<1>1. TypeOK'
  BY DEF IInv, Request, vars, opVars, sessionVars, Goto, TypeOK, PC
<1>2. SessionInv'
  BY DEF IInv, Request, vars, opVars, sessionVars, Goto, SessionInv
<1>3. OpInv'
  BY DEF IInv, Request, vars, opVars, sessionVars, Goto, OpInv, UserExist
<1>4. KeyInv'
  BY DEF IInv, Request, vars, opVars, sessionVars, Goto, KeyInv, Keyed
<1>5. SteadyInv'
  BY DEF IInv, Request, vars, opVars, sessionVars, Goto, SteadyInv, Steady, After, AfterImg
<1>6. UniqueIds'
  BY DEF IInv, Request, vars, opVars, sessionVars, Goto, UniqueIds
<1>7. TablesAgree'
  BY DEF IInv, Request, vars, opVars, sessionVars, Goto, TablesAgree
<1>8. PromiseKept'
  BY DEF IInv, Request, vars, opVars, sessionVars, Goto, PromiseKept
<1>9. QED
  BY <1>1, <1>2, <1>3, <1>4, <1>5, <1>6, <1>7, <1>8 DEF IInv

(* user_exist: from here on the id is nobody's in the vector.              *)
LEMMA CheckExistIInv ==
  ASSUME IInv, CheckExist
  PROVE  IInv'
<1>1. TypeOK'
  BY DEF IInv, CheckExist, vars, opVars, sessionVars, Goto, TypeOK, PC
<1>2. SessionInv'
  BY DEF IInv, CheckExist, vars, opVars, sessionVars, Goto, SessionInv
<1>3. OpInv'
  BY DEF IInv, CheckExist, vars, opVars, sessionVars, Goto, OpInv, UserExist
<1>4. KeyInv'
  BY DEF IInv, CheckExist, vars, opVars, sessionVars, Goto, KeyInv, Keyed
<1>5. SteadyInv'
  <2>1. SteadyInv /\ pc = "exist" /\ pc' \in {"answer", "begin"}
    BY DEF IInv, CheckExist, vars, opVars, sessionVars, Goto
  <2>2. result' = "ok" => result = "ok"
    BY DEF IInv, CheckExist, vars, opVars, sessionVars, Goto
  <2>3. pc' = "answer" => result' = "error"
    BY DEF IInv, CheckExist, vars, opVars, sessionVars, Goto
  <2>4. op.type = "regist"
    BY DEF IInv, CheckExist, vars, opVars, sessionVars, Goto, OpInv
  <2>5. QED
    BY <2>1, <2>2, <2>3, <2>4 DEF IInv, CheckExist, vars, opVars, sessionVars, Goto,
       SteadyInv, Steady, After
<1>6. UniqueIds'
  BY DEF IInv, CheckExist, vars, opVars, sessionVars, Goto, UniqueIds
<1>7. TablesAgree'
  BY DEF IInv, CheckExist, vars, opVars, sessionVars, Goto, TablesAgree
<1>8. PromiseKept'
  BY DEF IInv, CheckExist, vars, opVars, sessionVars, Goto, PromiseKept
<1>9. QED
  BY <1>1, <1>2, <1>3, <1>4, <1>5, <1>6, <1>7, <1>8 DEF IInv

(* autocommit(false).                                                      *)
LEMMA BeginIInv ==
  ASSUME IInv, Begin
  PROVE  IInv'
<1>1. TypeOK'
  BY DEF IInv, Begin, vars, opVars, sessionVars, Goto, Reaches, CallFails, SetAuto,
     CloseTrans, View, TypeOK, PC
<1>2. SessionInv'
  BY DEF IInv, Begin, vars, opVars, sessionVars, Goto, Reaches, CallFails, SetAuto,
     CloseTrans, View, SessionInv
<1>3. OpInv'
  BY DEF IInv, Begin, vars, opVars, sessionVars, Goto, Reaches, CallFails, SetAuto,
     CloseTrans, View, OpInv, UserExist
<1>4. KeyInv'
  BY DEF IInv, Begin, vars, opVars, sessionVars, Goto, Reaches, CallFails, SetAuto,
     CloseTrans, View, KeyInv, Keyed
<1>5. SteadyInv'
  BY DEF IInv, Begin, vars, opVars, sessionVars, Goto, Reaches, CallFails, SetAuto,
     CloseTrans, View, SteadyInv, Steady, After, AfterImg
<1>6. UniqueIds'
  BY DEF IInv, Begin, vars, opVars, sessionVars, Goto, Reaches, CallFails, SetAuto,
     CloseTrans, View, UniqueIds
<1>7. TablesAgree'
  BY DEF IInv, Begin, vars, opVars, sessionVars, Goto, Reaches, CallFails, SetAuto,
     CloseTrans, View, TablesAgree
<1>8. PromiseKept'
  BY DEF IInv, Begin, vars, opVars, sessionVars, Goto, Reaches, CallFails, SetAuto,
     CloseTrans, View, PromiseKept
<1>9. QED
  BY <1>1, <1>2, <1>3, <1>4, <1>5, <1>6, <1>7, <1>8 DEF IInv

(* rollback().                                                             *)
LEMMA RollbackIInv ==
  ASSUME IInv, Rollback
  PROVE  IInv'
<1>1. TypeOK'
  <2>1. db' \in Table /\ tx' \in Table
    BY EmptyTables DEF IInv, Rollback, vars, opVars, sessionVars, Goto, Reaches,
       CallFails, SetAuto, CloseTrans, View, TypeOK
  <2>2. up' \in BOOLEAN /\ auto' \in BOOLEAN /\ inTrans' \in BOOLEAN /\ flag' \in BOOLEAN
    BY Modes DEF IInv, Rollback, vars, opVars, sessionVars, Goto, Reaches, CallFails,
       SetAuto, CloseTrans, View
  <2>3. /\ m_users' \in Seq(User) /\ op' \in Op \cup {NoOp}
        /\ pc' \in PC /\ result' \in {"none", "ok", "error"}
        /\ promised' \subseteq User /\ seen' \subseteq {"dropped", "misnamed"}
    BY DEF IInv, Rollback, vars, opVars, sessionVars, Goto, Reaches, CallFails, SetAuto,
       CloseTrans, View, TypeOK, PC
  <2>4. QED
    BY <2>1, <2>2, <2>3 DEF TypeOK
<1>2. SessionInv'
  BY DEF IInv, Rollback, vars, opVars, sessionVars, Goto, Reaches, CallFails, SetAuto,
     CloseTrans, View, SessionInv
<1>3. OpInv'
  BY DEF IInv, Rollback, vars, opVars, sessionVars, Goto, Reaches, CallFails, SetAuto,
     CloseTrans, View, OpInv, UserExist
<1>4. KeyInv'
  BY EmptyTables DEF IInv, Rollback, vars, opVars, sessionVars, Goto, Reaches,
     CallFails, SetAuto, CloseTrans, View, KeyInv
<1>5. SteadyInv'
  BY DEF IInv, Rollback, vars, opVars, sessionVars, Goto, Reaches, CallFails, SetAuto,
     CloseTrans, View, SteadyInv, Steady, After, AfterImg
<1>6. UniqueIds'
  BY DEF IInv, Rollback, vars, opVars, sessionVars, Goto, Reaches, CallFails, SetAuto,
     CloseTrans, View, UniqueIds
<1>7. TablesAgree'
  BY DEF IInv, Rollback, vars, opVars, sessionVars, Goto, Reaches, CallFails, SetAuto,
     CloseTrans, View, TablesAgree
<1>8. PromiseKept'
  BY DEF IInv, Rollback, vars, opVars, sessionVars, Goto, Reaches, CallFails, SetAuto,
     CloseTrans, View, PromiseKept
<1>9. QED
  BY <1>1, <1>2, <1>3, <1>4, <1>5, <1>6, <1>7, <1>8 DEF IInv

(* autocommit(true) after a rollback: nothing is left to commit.           *)
LEMMA GiveUpIInv ==
  ASSUME IInv, GiveUp
  PROVE  IInv'
<1>1. ~inTrans /\ View = db
  BY DEF IInv, GiveUp, SessionInv, View
<1>2. db' = db /\ tx' \in {tx, NoUsers} /\ seen' = seen
  BY <1>1 DEF GiveUp, SetAuto, CallFails
<1>10. TypeOK'
  <2>1. db' \in Table /\ tx' \in Table
    BY EmptyTables, <1>2 DEF IInv, GiveUp, vars, opVars, sessionVars, Goto, Reaches,
       CallFails, SetAuto, CloseTrans, View, TypeOK
  <2>2. up' \in BOOLEAN /\ auto' \in BOOLEAN /\ inTrans' \in BOOLEAN /\ flag' \in BOOLEAN
    BY Modes DEF IInv, GiveUp, vars, opVars, sessionVars, Goto, Reaches, CallFails,
       SetAuto, CloseTrans, View
  <2>3. /\ m_users' \in Seq(User) /\ op' \in Op \cup {NoOp}
        /\ pc' \in PC /\ result' \in {"none", "ok", "error"}
        /\ promised' \subseteq User /\ seen' \subseteq {"dropped", "misnamed"}
    BY DEF IInv, GiveUp, vars, opVars, sessionVars, Goto, Reaches, CallFails, SetAuto,
       CloseTrans, View, TypeOK, PC
  <2>4. QED
    BY <2>1, <2>2, <2>3 DEF TypeOK
<1>11. SessionInv'
  BY DEF IInv, GiveUp, vars, opVars, sessionVars, Goto, Reaches, CallFails, SetAuto,
     CloseTrans, View, SessionInv
<1>12. OpInv'
  BY DEF IInv, GiveUp, vars, opVars, sessionVars, Goto, Reaches, CallFails, SetAuto,
     CloseTrans, View, OpInv, UserExist
<1>13. KeyInv'
  BY <1>2, EmptyTables DEF IInv, KeyInv
<1>14. SteadyInv'
  BY <1>1, <1>2 DEF IInv, GiveUp, vars, opVars, sessionVars, Goto, Reaches, CallFails,
     SetAuto, CloseTrans, View, SteadyInv, Steady, After
<1>15. UniqueIds'
  BY DEF IInv, GiveUp, vars, opVars, sessionVars, Goto, Reaches, CallFails, SetAuto,
     CloseTrans, View, UniqueIds
<1>16. TablesAgree'
  BY <1>2 DEF IInv, TablesAgree
<1>17. PromiseKept'
  BY <1>2 DEF IInv, GiveUp, PromiseKept
<1>18. QED
  BY <1>10, <1>11, <1>12, <1>13, <1>14, <1>15, <1>16, <1>17 DEF IInv

(* autocommit(true) after the commit.                                      *)
LEMMA EndIInv ==
  ASSUME IInv, End
  PROVE  IInv'
<1>1. ~inTrans /\ View = db
  BY DEF IInv, End, SessionInv, View
<1>2. db' = db /\ tx' \in {tx, NoUsers} /\ seen' = seen
  BY <1>1 DEF End, SetAuto, CallFails
<1>10. TypeOK'
  <2>1. db' \in Table /\ tx' \in Table
    BY EmptyTables, <1>2 DEF IInv, End, vars, opVars, sessionVars, Goto, Reaches,
       CallFails, SetAuto, CloseTrans, View, TypeOK
  <2>2. up' \in BOOLEAN /\ auto' \in BOOLEAN /\ inTrans' \in BOOLEAN /\ flag' \in BOOLEAN
    BY Modes DEF IInv, End, vars, opVars, sessionVars, Goto, Reaches, CallFails,
       SetAuto, CloseTrans, View
  <2>3. /\ m_users' \in Seq(User) /\ op' \in Op \cup {NoOp}
        /\ pc' \in PC /\ result' \in {"none", "ok", "error"}
        /\ promised' \subseteq User /\ seen' \subseteq {"dropped", "misnamed"}
    BY DEF IInv, End, vars, opVars, sessionVars, Goto, Reaches, CallFails, SetAuto,
       CloseTrans, View, TypeOK, PC
  <2>4. QED
    BY <2>1, <2>2, <2>3 DEF TypeOK
<1>11. SessionInv'
  BY DEF IInv, End, vars, opVars, sessionVars, Goto, Reaches, CallFails, SetAuto,
     CloseTrans, View, SessionInv
<1>12. OpInv'
  BY DEF IInv, End, vars, opVars, sessionVars, Goto, Reaches, CallFails, SetAuto,
     CloseTrans, View, OpInv, UserExist
<1>13. KeyInv'
  BY <1>2, EmptyTables DEF IInv, KeyInv
<1>14. SteadyInv'
  BY <1>1, <1>2 DEF IInv, End, vars, opVars, sessionVars, Goto, Reaches, CallFails,
     SetAuto, CloseTrans, View, SteadyInv, Steady, After
<1>15. UniqueIds'
  BY DEF IInv, End, vars, opVars, sessionVars, Goto, Reaches, CallFails, SetAuto,
     CloseTrans, View, UniqueIds
<1>16. TablesAgree'
  BY <1>2 DEF IInv, TablesAgree
<1>17. PromiseKept'
  BY <1>2 DEF IInv, End, PromiseKept
<1>18. QED
  BY <1>10, <1>11, <1>12, <1>13, <1>14, <1>15, <1>16, <1>17 DEF IInv

(* The statement on tbl_user, its refusal, and a connection lost under it. *)
LEMMA SqlUserIInv ==
  ASSUME IInv, SqlUser
  PROVE  IInv'
<1> DEFINE new == [View EXCEPT !.user = After(View.user)]
           Fits == op.type = "regist" => \A v \in View.user : v.id # op.user.id
<1>1. op \in Op /\ View \in Table /\ (auto => View = db)
  BY ViewTable DEF IInv, SqlUser, OpInv, SessionInv, View
<1>2. Fits => /\ new \in Table /\ IsFiniteSet(new.user) /\ Keyed(new.user)
              /\ new.user = After(View.user) /\ new.img = View.img
  <2>1. View.user \in SUBSET User
    BY <1>1 DEF Table
  <2>2. Fits => After(View.user) \in SUBSET User /\ IsFiniteSet(After(View.user))
                /\ Keyed(After(View.user))
    BY <1>1, <2>1, ViewTable, AfterKeyed DEF IInv
  <2>3. QED
    BY <1>1, <2>2, WriteUser
<1> DEFINE Effect ==
             /\ db' = db \/ (Fits /\ db' = new)
             /\ tx' = tx \/ tx' = NoUsers \/ (Fits /\ tx' = new)
             /\ ~auto => db' = db
             /\ Steady' => seen' = seen /\ (up => up') /\ auto' = auto
             /\ pc' \in {"sql_img", "rollback"}
             /\ pc' = "sql_img" /\ ~auto => Fits /\ inTrans' /\ tx' = new
<1>3. Effect
  <2> USE DEF Goto, Steady
  <2>1. CASE Fits /\ Apply(new) /\ Goto("sql_img")
    BY <2>1 DEF Apply
  <2>2. CASE Refused /\ Goto("rollback")
    BY <2>2 DEF Refused
  <2>3. CASE /\ Fits
             /\ Unanswered(IF auto THEN [db EXCEPT !.user = After(View.user)] ELSE db)
             /\ Goto("rollback")
    BY <1>1, <2>3 DEF Unanswered, SessionEnds
  <2>4. CASE CallFails /\ Goto("rollback")
    BY <2>4 DEF CallFails
  <2>5. QED
    BY <2>1, <2>2, <2>3, <2>4 DEF SqlUser, After
<1>4. m_users' = m_users /\ op' = op /\ result' = result /\ promised' = promised
  BY DEF SqlUser
<1> HIDE DEF new, Fits
<1>10. TypeOK'
  <2>1. seen' \subseteq {"dropped", "misnamed"}
    BY DEF IInv, SqlUser, vars, opVars, sessionVars, Goto, Reaches, CallFails, SetAuto,
       CloseTrans, View, Apply, Refused, Unanswered, SessionEnds, TypeOK
  <2>2. up' \in BOOLEAN /\ auto' \in BOOLEAN /\ inTrans' \in BOOLEAN /\ flag' \in BOOLEAN
    BY Modes DEF IInv, SqlUser, vars, opVars, sessionVars, Goto, Reaches, CallFails,
       SetAuto, CloseTrans, View, Apply, Refused, Unanswered, SessionEnds
  <2>3. QED
    BY <1>2, <1>3, <1>4, <2>1, <2>2, EmptyTables DEF IInv, TypeOK, PC
<1>11. SessionInv'
  BY DEF IInv, SqlUser, vars, opVars, sessionVars, Goto, Reaches, CallFails, SetAuto,
     CloseTrans, View, Apply, Refused, Unanswered, SessionEnds, SessionInv
<1>12. OpInv'
  BY DEF IInv, SqlUser, vars, opVars, sessionVars, Goto, Reaches, CallFails, SetAuto,
     CloseTrans, View, Apply, Refused, Unanswered, SessionEnds, OpInv, UserExist
<1>13. KeyInv'
  BY <1>2, <1>3, EmptyTables DEF IInv, KeyInv
<1>14. SteadyInv'
  <2>1. pc = "sql_user" /\ ~inTrans /\ View = db
    BY DEF IInv, SqlUser, SessionInv, View
  <2>2. Steady' => Steady /\ up /\ ~auto /\ db.user = ToSet(m_users)
    BY <1>3, <2>1 DEF IInv, SteadyInv, Steady
  <2>3. Steady' /\ pc' = "sql_img" => tx'.user = After(db.user) /\ tx'.img = db.img
    BY <1>2, <1>3, <2>1, <2>2 DEF IInv, SteadyInv
  <2>4. QED
    BY <1>3, <1>4, <2>1, <2>2, <2>3 DEF IInv, SteadyInv, Steady, After
<1>15. UniqueIds'
  BY DEF IInv, SqlUser, vars, opVars, sessionVars, Goto, Reaches, CallFails, SetAuto,
     CloseTrans, View, Apply, Refused, Unanswered, SessionEnds, UniqueIds
<1>16. TablesAgree'
  <2>1. Steady' => Steady /\ ~auto
    BY <1>3 DEF IInv, SqlUser, SteadyInv, Steady
  <2>2. QED
    BY <1>3, <1>4, <2>1 DEF IInv, TablesAgree, Steady
<1>17. PromiseKept'
  <2>1. Steady' => Steady /\ ~auto
    BY <1>3 DEF IInv, SqlUser, SteadyInv, Steady
  <2>2. QED
    BY <1>3, <1>4, <2>1 DEF IInv, PromiseKept, Steady
<1>18. QED
  BY <1>10, <1>11, <1>12, <1>13, <1>14, <1>15, <1>16, <1>17 DEF IInv

(* The statement on tbl_img.                                               *)
LEMMA SqlImgIInv ==
  ASSUME IInv, SqlImg
  PROVE  IInv'
<1> DEFINE new == [View EXCEPT !.img = AfterImg(View.img)]
<1>1. op \in Op /\ View \in Table /\ (auto => View = db)
  BY ViewTable DEF IInv, SqlImg, OpInv, SessionInv, View
<1>2. /\ new \in Table /\ IsFiniteSet(new.user) /\ Keyed(new.user)
      /\ new.user = View.user /\ new.img = AfterImg(View.img)
  <2>1. View.img \in SUBSET Id /\ op.user.id \in Id
    BY <1>1 DEF Table, Op, User
  <2>2. AfterImg(View.img) \in SUBSET Id
    BY <2>1 DEF AfterImg
  <2>3. QED
    BY <1>1, <2>2, WriteImg, ViewTable DEF IInv
<1> DEFINE Effect ==
             /\ db' = db \/ db' = new
             /\ tx' = tx \/ tx' = NoUsers \/ tx' = new
             /\ ~auto => db' = db
             /\ Steady' => seen' = seen /\ (up => up') /\ auto' = auto
             /\ pc' \in {"commit", "rollback"}
             /\ pc' = "commit" /\ ~auto => inTrans' /\ tx' = new
<1>3. Effect
  <2> USE DEF Goto, Steady
  <2>1. CASE Apply(new) /\ Goto("commit")
    BY <2>1 DEF Apply
  <2>2. CASE Refused /\ Goto("rollback")
    BY <2>2 DEF Refused
  <2>3. CASE /\ Unanswered(IF auto THEN [db EXCEPT !.img = AfterImg(View.img)] ELSE db)
             /\ Goto("rollback")
    BY <1>1, <2>3 DEF Unanswered, SessionEnds
  <2>4. CASE CallFails /\ Goto("rollback")
    BY <2>4 DEF CallFails
  <2>5. QED
    BY <2>1, <2>2, <2>3, <2>4 DEF SqlImg, AfterImg
<1>4. m_users' = m_users /\ op' = op /\ result' = result /\ promised' = promised
  BY DEF SqlImg
<1> HIDE DEF new
<1>10. TypeOK'
  <2>1. seen' \subseteq {"dropped", "misnamed"}
    BY DEF IInv, SqlImg, vars, opVars, sessionVars, Goto, Reaches, CallFails, SetAuto,
       CloseTrans, View, Apply, Refused, Unanswered, SessionEnds, TypeOK
  <2>2. up' \in BOOLEAN /\ auto' \in BOOLEAN /\ inTrans' \in BOOLEAN /\ flag' \in BOOLEAN
    BY Modes DEF IInv, SqlImg, vars, opVars, sessionVars, Goto, Reaches, CallFails,
       SetAuto, CloseTrans, View, Apply, Refused, Unanswered, SessionEnds
  <2>3. QED
    BY <1>2, <1>3, <1>4, <2>1, <2>2, EmptyTables DEF IInv, TypeOK, PC
<1>11. SessionInv'
  BY DEF IInv, SqlImg, vars, opVars, sessionVars, Goto, Reaches, CallFails, SetAuto,
     CloseTrans, View, Apply, Refused, Unanswered, SessionEnds, SessionInv
<1>12. OpInv'
  BY DEF IInv, SqlImg, vars, opVars, sessionVars, Goto, Reaches, CallFails, SetAuto,
     CloseTrans, View, Apply, Refused, Unanswered, SessionEnds, OpInv, UserExist
<1>13. KeyInv'
  BY <1>2, <1>3, EmptyTables DEF IInv, KeyInv
<1>14. SteadyInv'
  <2>1. pc = "sql_img"
    BY DEF SqlImg
  <2>2. Steady' => Steady /\ up /\ ~auto /\ View = tx /\ db.user = ToSet(m_users)
                   /\ tx.user = After(db.user) /\ tx.img = db.img
    BY <1>3, <2>1 DEF IInv, SteadyInv, Steady, View
  <2>3. Steady' /\ pc' = "commit" => tx'.user = After(db.user) /\ tx'.img = AfterImg(db.img)
    BY <1>2, <1>3, <2>1, <2>2
  <2>4. QED
    BY <1>3, <1>4, <2>1, <2>2, <2>3 DEF IInv, SteadyInv, Steady, After, AfterImg
<1>15. UniqueIds'
  BY DEF IInv, SqlImg, vars, opVars, sessionVars, Goto, Reaches, CallFails, SetAuto,
     CloseTrans, View, Apply, Refused, Unanswered, SessionEnds, UniqueIds
<1>16. TablesAgree'
  <2>1. Steady' => Steady /\ ~auto
    BY <1>3 DEF IInv, SqlImg, SteadyInv, Steady
  <2>2. QED
    BY <1>3, <1>4, <2>1 DEF IInv, TablesAgree, Steady
<1>17. PromiseKept'
  <2>1. Steady' => Steady /\ ~auto
    BY <1>3 DEF IInv, SqlImg, SteadyInv, Steady
  <2>2. QED
    BY <1>3, <1>4, <2>1 DEF IInv, PromiseKept, Steady
<1>18. QED
  BY <1>10, <1>11, <1>12, <1>13, <1>14, <1>15, <1>16, <1>17 DEF IInv

(* COMMIT: users and images become visible together.                       *)
LEMMA CommitIInv ==
  ASSUME IInv, Commit
  PROVE  IInv'
<1>1. op \in Op /\ View \in Table /\ IsFiniteSet(View.user) /\ Keyed(View.user)
  BY ViewTable DEF IInv, Commit, OpInv
<1>2. /\ db' \in {db, View} /\ tx' \in {tx, NoUsers}
      /\ Steady' => seen' = seen /\ (up => up' /\ db' = View /\ ~inTrans') /\ auto' = auto
  BY DEF Commit, CloseTrans, Unanswered, SessionEnds, CallFails, Reaches, Steady
<1>3. Steady' => /\ Steady /\ up /\ ~auto /\ ~auto' /\ db'.user = After(db.user)
                 /\ db'.img = AfterImg(db.img) /\ db.user = ToSet(m_users)
  BY <1>2 DEF IInv, Commit, SteadyInv, Steady, View
<1>4. m_users' = m_users /\ op' = op /\ result' = result /\ promised' = promised
  BY DEF Commit
<1>10. TypeOK'
  <2>1. seen' \subseteq {"dropped", "misnamed"} /\ pc' = "end"
    BY DEF IInv, Commit, vars, opVars, sessionVars, Goto, Reaches, CallFails, SetAuto,
       CloseTrans, View, Unanswered, SessionEnds, TypeOK
  <2>2. up' \in BOOLEAN /\ auto' \in BOOLEAN /\ inTrans' \in BOOLEAN /\ flag' \in BOOLEAN
    BY Modes DEF IInv, Commit, vars, opVars, sessionVars, Goto, Reaches, CallFails,
       SetAuto, CloseTrans, View, Unanswered, SessionEnds
  <2>3. QED
    BY <1>1, <1>2, <1>4, <2>1, <2>2, EmptyTables DEF IInv, TypeOK, PC
<1>11. SessionInv'
  BY DEF IInv, Commit, vars, opVars, sessionVars, Goto, Reaches, CallFails, SetAuto,
     CloseTrans, View, Unanswered, SessionEnds, SessionInv
<1>12. OpInv'
  BY DEF IInv, Commit, vars, opVars, sessionVars, Goto, Reaches, CallFails, SetAuto,
     CloseTrans, View, Unanswered, SessionEnds, OpInv, UserExist
<1>13. KeyInv'
  BY <1>1, <1>2, EmptyTables DEF IInv, KeyInv
<1>14. SteadyInv'
  <2>1. pc' = "end"
    BY DEF Commit, Goto
  <2>2. QED
    BY <1>2, <1>3, <1>4, <2>1 DEF SteadyInv, After
<1>15. UniqueIds'
  BY DEF IInv, Commit, vars, opVars, sessionVars, Goto, Reaches, CallFails, SetAuto,
     CloseTrans, View, Unanswered, SessionEnds, UniqueIds
<1>16. TablesAgree'
  <2>1. SUFFICES ASSUME seen' = {}
                 PROVE  {u.id : u \in db'.user} = db'.img
    BY DEF TablesAgree
  <2>2. Steady' /\ seen = {} /\ db.user \in SUBSET User /\ {u.id : u \in db.user} = db.img
    BY <1>2, <2>1 DEF IInv, TypeOK, Table, TablesAgree, Steady
  <2>3. op.type = "withdraw" => \A u \in db.user : u.id = op.user.id => u = op.user
    BY <2>2, <1>3 DEF IInv, Commit, SteadyInv
  <2>4. {u.id : u \in After(db.user)} = AfterImg(db.img)
    BY <1>1, <2>2, <2>3, AfterIds
  <2>5. QED
    BY <1>3, <2>2, <2>4
<1>17. PromiseKept'
  <2>1. op.type = "withdraw" => \A u \in promised : u.id # op.user.id
    BY DEF IInv, Commit, OpInv
  <2>2. Steady' => promised \subseteq db.user
    BY <1>3 DEF IInv, PromiseKept, Steady
  <2>3. QED
    BY <1>1, <1>3, <1>4, <2>1, <2>2 DEF PromiseKept, Steady, After, Op
<1>18. QED
  BY <1>10, <1>11, <1>12, <1>13, <1>14, <1>15, <1>16, <1>17 DEF IInv

(* push_back and erase keep the ids distinct and catch up with tbl_user.   *)
LEMMA MemoryIInv ==
  ASSUME IInv, Memory
  PROVE  IInv'
<1>1. m_users \in Seq(User) /\ Distinct(m_users) /\ op \in Op /\ op.user \in User
  BY DEF IInv, Memory, TypeOK, UniqueIds, Distinct, OpInv, Op
<1>2. /\ m_users' \in Seq(User) /\ Distinct(m_users')
      /\ ToSet(m_users') = After(ToSet(m_users))
  <2>1. CASE op.type = "regist"
    <3>1. \A v \in ToSet(m_users) : v.id # op.user.id
      BY <2>1 DEF IInv, Memory, OpInv, UserExist
    <3>2. QED
      BY <1>1, <2>1, <3>1, AppendUser DEF Memory, After
  <2>2. CASE op.type # "regist"
    BY <1>1, <2>2, RemoveUser DEF Memory, After
  <2>3. QED
    BY <2>1, <2>2
<1>10. TypeOK'
  BY <1>2, Modes DEF IInv, Memory, vars, opVars, sessionVars, Goto, PC, TypeOK
<1>11. SessionInv'
  BY DEF IInv, Memory, vars, opVars, sessionVars, Goto, SessionInv
<1>12. OpInv'
  BY DEF IInv, Memory, vars, opVars, sessionVars, Goto, OpInv, UserExist
<1>13. KeyInv'
  BY DEF IInv, Memory, vars, opVars, sessionVars, Goto, KeyInv, Keyed
<1>14. SteadyInv'
  <2>1. SUFFICES ASSUME Steady
                 PROVE  SteadyInv'
    BY DEF IInv, Memory, vars, opVars, sessionVars, Goto, SteadyInv, Steady
  <2>2. up /\ auto /\ db.user = After(ToSet(m_users))
    BY <2>1 DEF IInv, Memory, SteadyInv
  <2>3. op.type = "regist" => op.user \in db.user
    BY <2>2 DEF After
  <2>4. QED
    BY <1>2, <2>1, <2>2, <2>3 DEF IInv, Memory, vars, opVars, sessionVars, Goto, SteadyInv
<1>15. UniqueIds'
  BY <1>2 DEF UniqueIds, Distinct
<1>16. TablesAgree'
  BY DEF IInv, Memory, vars, opVars, sessionVars, Goto, TablesAgree
<1>17. PromiseKept'
  BY DEF IInv, Memory, vars, opVars, sessionVars, Goto, PromiseKept
<1>18. QED
  BY <1>10, <1>11, <1>12, <1>13, <1>14, <1>15, <1>16, <1>17 DEF IInv

(* The answer, and with "Face regist OK." the promise.                     *)
LEMMA AnswerIInv ==
  ASSUME IInv, Answer
  PROVE  IInv'
<1>1. TypeOK'
  <2>1. op.type = "regist" => op.user \in User
    BY DEF IInv, Answer, vars, opVars, sessionVars, Goto, OpInv, Op
  <2>2. QED
    BY <2>1, Modes DEF IInv, Answer, vars, opVars, sessionVars, Goto, PC, TypeOK
<1>2. SessionInv'
  BY DEF IInv, Answer, vars, opVars, sessionVars, Goto, SessionInv
<1>3. OpInv'
  BY DEF IInv, Answer, vars, opVars, sessionVars, Goto, OpInv, UserExist
<1>4. KeyInv'
  BY DEF IInv, Answer, vars, opVars, sessionVars, Goto, KeyInv, Keyed
<1>5. SteadyInv'
  BY DEF IInv, Answer, vars, opVars, sessionVars, Goto, SteadyInv, Steady, After, AfterImg
<1>6. UniqueIds'
  BY DEF IInv, Answer, vars, opVars, sessionVars, Goto, UniqueIds
<1>7. TablesAgree'
  BY DEF IInv, Answer, vars, opVars, sessionVars, Goto, TablesAgree
<1>8. PromiseKept'
  BY DEF IInv, Answer, vars, opVars, sessionVars, Goto, PromiseKept, SteadyInv, Steady
<1>9. QED
  BY <1>1, <1>2, <1>3, <1>4, <1>5, <1>6, <1>7, <1>8 DEF IInv

(* The connection breaks: the server rolls back.                           *)
LEMMA DropIInv ==
  ASSUME IInv, Drop
  PROVE  IInv'
<1>1. TypeOK'
  <2>1. tx' \in Table /\ seen' \subseteq {"dropped", "misnamed"}
    BY EmptyTables DEF IInv, Drop, vars, opVars, sessionVars, Goto, SessionEnds, TypeOK
  <2>2. up' \in BOOLEAN /\ auto' \in BOOLEAN /\ inTrans' \in BOOLEAN /\ flag' \in BOOLEAN
    BY Modes DEF IInv, Drop, vars, opVars, sessionVars, Goto, SessionEnds
  <2>3. QED
    BY <2>1, <2>2 DEF IInv, Drop, vars, opVars, sessionVars, Goto, SessionEnds, TypeOK
<1>2. SessionInv'
  BY DEF IInv, Drop, vars, opVars, sessionVars, Goto, SessionEnds, SessionInv
<1>3. OpInv'
  BY DEF IInv, Drop, vars, opVars, sessionVars, Goto, SessionEnds, OpInv, UserExist
<1>4. KeyInv'
  BY EmptyTables DEF IInv, Drop, vars, opVars, sessionVars, Goto, SessionEnds, KeyInv
<1>5. SteadyInv'
  BY DEF IInv, Drop, vars, opVars, sessionVars, Goto, SessionEnds, SteadyInv, Steady,
     After, AfterImg
<1>6. UniqueIds'
  BY DEF IInv, Drop, vars, opVars, sessionVars, Goto, SessionEnds, UniqueIds
<1>7. TablesAgree'
  BY DEF IInv, Drop, vars, opVars, sessionVars, Goto, SessionEnds, TablesAgree
<1>8. PromiseKept'
  BY DEF IInv, Drop, vars, opVars, sessionVars, Goto, SessionEnds, PromiseKept
<1>9. QED
  BY <1>1, <1>2, <1>3, <1>4, <1>5, <1>6, <1>7, <1>8 DEF IInv

(* kill -9: the committed tables are what is left.                         *)
LEMMA CrashIInv ==
  ASSUME IInv, Crash
  PROVE  IInv'
<1>1. TypeOK'
  <2>1. tx' \in Table /\ m_users' \in Seq(User)
    BY EmptyTables, EmptySeq DEF IInv, Crash, vars, opVars, sessionVars, Goto, SessionEnds
  <2>2. up' \in BOOLEAN /\ auto' \in BOOLEAN /\ inTrans' \in BOOLEAN /\ flag' \in BOOLEAN
    BY Modes DEF IInv, Crash, vars, opVars, sessionVars, Goto, SessionEnds
  <2>3. QED
    BY <2>1, <2>2 DEF IInv, Crash, vars, opVars, sessionVars, Goto, SessionEnds, TypeOK, PC
<1>2. SessionInv'
  BY DEF IInv, Crash, vars, opVars, sessionVars, Goto, SessionEnds, SessionInv
<1>3. OpInv'
  BY DEF IInv, Crash, vars, opVars, sessionVars, Goto, SessionEnds, OpInv, UserExist
<1>4. KeyInv'
  BY EmptyTables DEF IInv, Crash, vars, opVars, sessionVars, Goto, SessionEnds, KeyInv
<1>5. SteadyInv'
  BY DEF IInv, Crash, vars, opVars, sessionVars, Goto, SessionEnds, SteadyInv, Steady,
     After, AfterImg
<1>6. UniqueIds'
  BY DEF IInv, Crash, vars, opVars, sessionVars, Goto, SessionEnds, UniqueIds
<1>7. TablesAgree'
  BY DEF IInv, Crash, vars, opVars, sessionVars, Goto, SessionEnds, TablesAgree
<1>8. PromiseKept'
  BY DEF IInv, Crash, vars, opVars, sessionVars, Goto, SessionEnds, PromiseKept
<1>9. QED
  BY <1>1, <1>2, <1>3, <1>4, <1>5, <1>6, <1>7, <1>8 DEF IInv

(* User_Mgt::init reads tbl_user into the vector.                          *)
LEMMA RestartIInv ==
  ASSUME IInv, Restart
  PROVE  IInv'
<1>1. /\ m_users' \in Seq(User) /\ Distinct(m_users')
      /\ ToSet(m_users') = db.user
  BY ReadTable DEF IInv, Restart, TypeOK, Table, KeyInv
<1>10. TypeOK'
  BY <1>1, Modes DEF IInv, Restart, vars, opVars, sessionVars, Goto, PC, TypeOK
<1>11. SessionInv'
  BY DEF IInv, Restart, vars, opVars, sessionVars, Goto, SessionInv
<1>12. OpInv'
  BY DEF IInv, Restart, vars, opVars, sessionVars, Goto, OpInv, UserExist
<1>13. KeyInv'
  BY DEF IInv, Restart, vars, opVars, sessionVars, Goto, KeyInv, Keyed
<1>14. SteadyInv'
  BY <1>1 DEF IInv, Restart, vars, opVars, sessionVars, Goto, SteadyInv, Steady,
     SessionInv, OpInv, TypeOK, Op, NoOp
<1>15. UniqueIds'
  BY <1>1 DEF UniqueIds, Distinct
<1>16. TablesAgree'
  BY DEF IInv, Restart, vars, opVars, sessionVars, Goto, TablesAgree
<1>17. PromiseKept'
  BY DEF IInv, Restart, vars, opVars, sessionVars, Goto, PromiseKept
<1>18. QED
  BY <1>10, <1>11, <1>12, <1>13, <1>14, <1>15, <1>16, <1>17 DEF IInv

LEMMA NextIInv == IInv /\ [Next]_vars => IInv'
<1> SUFFICES ASSUME IInv, [Next]_vars PROVE IInv'
  OBVIOUS
<1>1. CASE Request
  BY <1>1, RequestIInv
<1>2. CASE CheckExist
  BY <1>2, CheckExistIInv
<1>3. CASE Begin
  BY <1>3, BeginIInv
<1>4. CASE SqlUser
  BY <1>4, SqlUserIInv
<1>5. CASE SqlImg
  BY <1>5, SqlImgIInv
<1>6. CASE Rollback
  BY <1>6, RollbackIInv
<1>7. CASE GiveUp
  BY <1>7, GiveUpIInv
<1>8. CASE Commit
  BY <1>8, CommitIInv
<1>9. CASE End
  BY <1>9, EndIInv
<1>10. CASE Memory
  BY <1>10, MemoryIInv
<1>11. CASE Answer
  BY <1>11, AnswerIInv
<1>12. CASE Drop
  BY <1>12, DropIInv
<1>13. CASE Crash
  BY <1>13, CrashIInv
<1>14. CASE Restart
  BY <1>14, RestartIInv
<1>15. CASE UNCHANGED vars
  <2>1. TypeOK' /\ SessionInv' /\ OpInv' /\ KeyInv'
    BY <1>15 DEF IInv, vars, opVars, sessionVars, TypeOK, SessionInv, OpInv, UserExist,
       KeyInv
  <2>2. SteadyInv' /\ UniqueIds' /\ TablesAgree' /\ PromiseKept'
    BY <1>15 DEF IInv, vars, opVars, sessionVars, SteadyInv, Steady, After, AfterImg,
                 UniqueIds, TablesAgree, PromiseKept
  <2>3. QED
    BY <2>1, <2>2 DEF IInv
<1>16. QED
  BY <1>1, <1>2, <1>3, <1>4, <1>5, <1>6, <1>7, <1>8, <1>9,
     <1>10, <1>11, <1>12, <1>13, <1>14, <1>15 DEF Next

(* The inductive invariant: session, transaction, tables and vector move   *)
(* in step with the operation, whatever call fails or process is killed.   *)
THEOREM Invariant == Spec => []IInv
BY InitIInv, NextIInv, PTL DEF Spec

----------------------------------------------------------------------------
(* The variables of UserStore keep their types.                            *)
THEOREM TypeCorrect == Spec => []TypeOK
<1>1. IInv => TypeOK
  BY DEF IInv
<1>2. QED
  BY <1>1, Invariant, PTL

(* m_users never holds one id twice, under every failure: user_exist looks *)
(* at the vector, the primary key at the table, and a restart reads it.    *)
THEOREM IdsStayUnique == Spec => []UniqueIds
<1>1. IInv => UniqueIds
  BY DEF IInv
<1>2. QED
  BY <1>1, Invariant, PTL

(* Between operations m_users is tbl_user, as long as the connection held. *)
THEOREM MemoryIsTable == Spec => []MemoryMatchesTable
<1>1. IInv => MemoryMatchesTable
  BY DEF IInv, MemoryMatchesTable, SteadyInv, Steady
<1>2. QED
  BY <1>1, Invariant, PTL

(* The transaction and CHECK_RET_ROLL_BACK: as long as the connection held *)
(* and every withdrawal named the user as registered, tbl_user and tbl_img *)
(* never disagree, not in the middle of an operation nor after a kill.     *)
THEOREM TablesStayInStep == Spec => []TablesAgree
<1>1. IInv => TablesAgree
  BY DEF IInv
<1>2. QED
  BY <1>1, Invariant, PTL

(* "Face regist OK." is a promise: as long as the connection held the user *)
(* is in tbl_user until somebody asks for the withdrawal of the id, over   *)
(* refused statements, kills and restarts.                                 *)
THEOREM PromisesHold == Spec => []PromiseKept
<1>1. IInv => PromiseKept
  BY DEF IInv
<1>2. QED
  BY <1>1, Invariant, PTL

(* User_Mgt hands the pooled session back without an open transaction,     *)
(* whichever of its calls failed.                                          *)
THEOREM SessionHandedBackClean == Spec => []NoOpenTransaction
<1>1. IInv => NoOpenTransaction
  BY DEF IInv, NoOpenTransaction, SessionInv
<1>2. QED
  BY <1>1, Invariant, PTL
=============================================================================
