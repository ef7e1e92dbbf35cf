----------------------------- MODULE UserStore -----------------------------
(***************************************************************************)
(* The registered users: User_Mgt's vector m_users, the tables tbl_user    *)
(* and tbl_img, the MySQL session between them, and the two operations     *)
(* that change them, registration and withdrawal, call by call.  The       *)
(* process may be killed and restarted between any two calls.              *)
(*                                                                         *)
(* One operation runs at a time: it needs a face handler, there is one,    *)
(* and it has one user (HandlerExclusive of HandlerPool).  The first free  *)
(* connection of the pool is then always the same one.                     *)
(***************************************************************************)
EXTENDS Naturals, Sequences, FiniteSets, SequencesExt

CONSTANTS Id, Name

User == [id : Id, name : Name]
Table == [user : SUBSET User, img : SUBSET Id]
Op == [type : {"regist", "withdraw"}, user : User]
NoOp == [type |-> "none"]

VARIABLES
    m_users,    \* User_Mgt::m_users (the feature vectors left out)
    op,         \* the operation under way
    pc,         \* the next call the operation makes
    result,     \* what it will return
    promised,   \* users answered "Face regist OK." and not withdrawn since
    seen,       \* history: did the connection break, was a name wrong?
    \* the server
    db,         \* the committed contents of the two tables
    tx,         \* the session's view, when it has an open transaction
    \* the session
    up,         \* is the connection alive?
    auto,       \* the session's autocommit mode
    inTrans,    \* has the session an open transaction?
    flag        \* SERVER_STATUS_IN_TRANS as libmysqlclient last saw it

opVars == <<m_users, op, pc, result, promised>>
sessionVars == <<db, tx, up, auto, inTrans, flag, seen>>
vars == <<opVars, sessionVars>>

PC == {"idle", "exist", "begin", "sql_user", "sql_img", "commit", "end",
       "rollback", "giveup", "memory", "answer", "down"}
NoUsers == [user |-> {}, img |-> {}]

TypeOK ==
    /\ m_users \in Seq(User)
    /\ op \in Op \cup {NoOp}
    /\ pc \in PC
    /\ result \in {"none", "ok", "error"}
    /\ promised \subseteq User
    /\ seen \subseteq {"dropped", "misnamed"}
    /\ db \in Table /\ tx \in Table
    /\ {up, auto, inTrans, flag} \subseteq BOOLEAN

Init ==
    /\ m_users = <<>>
    /\ op = NoOp
    /\ pc = "idle" /\ result = "none"
    /\ promised = {} /\ seen = {}
    /\ db = NoUsers /\ tx = NoUsers
    /\ up = TRUE /\ auto = TRUE /\ inTrans = FALSE /\ flag = FALSE

Goto(p) == pc' = p

----------------------------------------------------------------------------
(* The MySQL server and client library, as far as mysql_conn relies on     *)
(* them.  With MYSQL_OPT_RECONNECT set, a call on a broken connection      *)
(* reconnects, unless the library thinks a transaction is open: then it    *)
(* fails once.  A new session starts in autocommit mode.                   *)

(* The call reaches the server, on the old session or on a new one.        *)
Reaches == up \/ ~flag
View == IF inTrans THEN tx ELSE db

CallFails ==
    /\ ~Reaches
    /\ flag' = FALSE
    /\ UNCHANGED <<db, tx, up, auto, inTrans, seen>>

(* A statement that succeeds and leaves the tables as t.                   *)
Apply(t) ==
    /\ Reaches
    /\ up' = TRUE
    /\ \/ auto /\ db' = t /\ UNCHANGED <<tx, inTrans>>
       \/ ~auto /\ tx' = t /\ inTrans' = TRUE /\ UNCHANGED db
    /\ flag' = ~auto
    /\ UNCHANGED <<auto, seen>>

(* A statement the server refuses, for whatever reason (a duplicate key, a *)
(* missing table, a lock it cannot get): an error, nothing else changes.   *)
Refused ==
    /\ Reaches
    /\ up' = TRUE
    /\ flag' = inTrans
    /\ UNCHANGED <<db, tx, auto, inTrans, seen>>

(* COMMIT and ROLLBACK, which leave the tables as t.                       *)
CloseTrans(t) ==
    /\ Reaches
    /\ up' = TRUE /\ inTrans' = FALSE /\ flag' = FALSE
    /\ db' = t /\ tx' = NoUsers
    /\ UNCHANGED <<auto, seen>>

(* SET autocommit: turning it on commits what is open.                     *)
SetAuto(on) ==
    \/ /\ Reaches
       /\ up' = TRUE /\ auto' = on
       /\ IF on THEN /\ db' = View /\ tx' = NoUsers
                     /\ inTrans' = FALSE /\ flag' = FALSE
                ELSE /\ flag' = inTrans
                     /\ UNCHANGED <<db, tx, inTrans>>
       /\ UNCHANGED seen
    \/ CallFails

(* The session is gone: the server rolled its transaction back, and the    *)
(* next session will be in autocommit mode.                                *)
SessionEnds == up' = FALSE /\ auto' = TRUE /\ inTrans' = FALSE /\ tx' = NoUsers

Drop ==
    /\ up
    /\ pc # "down"
    /\ SessionEnds
    /\ seen' = seen \cup {"dropped"}
    /\ UNCHANGED <<db, flag, opVars>>

(* The connection breaks after the server has executed a call that leaves  *)
(* the committed tables as t and before the client reads the reply.        *)
Unanswered(t) ==
    /\ up
    /\ SessionEnds
    /\ seen' = seen \cup {"dropped"}
    /\ db' = t
    /\ UNCHANGED flag

----------------------------------------------------------------------------
(* A request arrives.  A withdrawal may give a name the user does not have,*)
(* or none.                                                                *)
Request == \E o \in Op :
    /\ pc = "idle"
    /\ op' = o
    /\ Goto(IF o.type = "regist" THEN "exist" ELSE "begin")
    /\ promised' = IF o.type = "regist" THEN promised
                   ELSE {u \in promised : u.id # o.user.id}
    /\ seen' = IF /\ o.type = "withdraw"
                  /\ \E u \in db.user : u.id = o.user.id /\ u # o.user
               THEN seen \cup {"misnamed"} ELSE seen
    /\ UNCHANGED <<m_users, result, db, tx, up, auto, inTrans, flag>>

(* regist: user_exist, which looks at the vector only, and the extraction  *)
(* of the feature vector, which may fail.                                  *)
UserExist_ByName(u) == \E v \in ToSet(m_users) : v = u              \* mutant
UserExist(u) == \E v \in ToSet(m_users) : v.id = u.id

CheckExist ==
    /\ pc = "exist"
    /\ \/ Goto("answer") /\ result' = "error"
       \/ ~UserExist(op.user) /\ Goto("begin") /\ UNCHANGED result
    /\ UNCHANGED <<m_users, op, promised, sessionVars>>

(* conn->autocommit(false): its result is not looked at.                   *)
Begin_Forgotten ==                                                  \* mutant
    /\ pc = "begin"
    /\ Goto("sql_user")
    /\ UNCHANGED <<m_users, op, result, promised, sessionVars>>

Begin ==
    /\ pc = "begin"
    /\ SetAuto(FALSE)
    /\ Goto("sql_user")
    /\ UNCHANGED <<m_users, op, result, promised>>

(* The statement on tbl_user.  id is its primary key; a delete has to find *)
(* id and name, and finding nothing is no error.                           *)
SqlUser ==
    /\ pc = "sql_user"
    /\ LET u == op.user
           dup == op.type = "regist" /\ \E v \in View.user : v.id = u.id
           rows == IF op.type = "regist" THEN View.user \cup {u} ELSE View.user \ {u}
       IN  \/ ~dup /\ Apply([View EXCEPT !.user = rows]) /\ Goto("sql_img")
           \/ Refused /\ Goto("rollback")
           \/ ~dup /\ Unanswered(IF auto THEN [db EXCEPT !.user = rows] ELSE db)
              /\ Goto("rollback")
           \/ CallFails /\ Goto("rollback")
    /\ UNCHANGED <<m_users, op, result, promised>>

(* The statement on tbl_img; a delete looks at the id only.                *)
SqlImg ==
    /\ pc = "sql_img"
    /\ LET i == op.user.id
           rows == IF op.type = "regist" THEN View.img \cup {i} ELSE View.img \ {i}
       IN  \/ Apply([View EXCEPT !.img = rows]) /\ Goto("commit")
           \/ Refused /\ Goto("rollback")
           \/ Unanswered(IF auto THEN [db EXCEPT !.img = rows] ELSE db)
              /\ Goto("rollback")
           \/ CallFails /\ Goto("rollback")
    /\ UNCHANGED <<m_users, op, result, promised>>

(* CHECK_RET_ROLL_BACK: rollback, autocommit(true), return the error.      *)
Rollback_Forgotten ==                                               \* mutant
    /\ pc = "rollback"
    /\ Goto("giveup")
    /\ UNCHANGED <<m_users, op, result, promised, sessionVars>>

Rollback ==
    /\ pc = "rollback"
    /\ CloseTrans(db) \/ CallFails
    /\ Goto("giveup")
    /\ UNCHANGED <<m_users, op, result, promised>>

GiveUp ==
    /\ pc = "giveup"
    /\ SetAuto(TRUE)
    /\ result' = "error"
    /\ Goto("answer")
    /\ UNCHANGED <<m_users, op, promised>>

(* conn->commit(), then conn->autocommit(true): neither result is looked   *)
(* at.                                                                     *)
Commit_Forgotten ==                                                 \* mutant
    /\ pc = "commit"
    /\ Goto("memory")
    /\ UNCHANGED <<m_users, op, result, promised, sessionVars>>

Commit ==
    /\ pc = "commit"
    /\ CloseTrans(View) \/ Unanswered(View) \/ CallFails
    /\ Goto("end")
    /\ UNCHANGED <<m_users, op, result, promised>>

End ==
    /\ pc = "end"
    /\ SetAuto(TRUE)
    /\ Goto("memory")
    /\ UNCHANGED <<m_users, op, result, promised>>

(* push_back, or erase of the first entry with this id and name.           *)
Memory_KeepsUser ==                                                 \* mutant
    /\ pc = "memory"
    /\ m_users' = IF op.type = "regist" THEN Append(m_users, op.user) ELSE m_users
    /\ result' = "ok"
    /\ Goto("answer")
    /\ UNCHANGED <<op, promised, sessionVars>>

Memory ==
    /\ pc = "memory"
    /\ m_users' = IF op.type = "regist" THEN Append(m_users, op.user)
                                       ELSE RemoveFirst(m_users, op.user)
    /\ result' = "ok"
    /\ Goto("answer")
    /\ UNCHANGED <<op, promised, sessionVars>>

(* svc sends "Face regist OK.", "Face delete OK." or an error.             *)
Answer ==
    /\ pc = "answer"
    /\ promised' = IF result = "ok" /\ op.type = "regist"
                   THEN promised \cup {op.user} ELSE promised
    /\ op' = NoOp /\ result' = "none"
    /\ Goto("idle")
    /\ UNCHANGED <<m_users, sessionVars>>

----------------------------------------------------------------------------
(* start_stop_srv.sh stops the server with kill -9.                        *)
Crash ==
    /\ pc # "down"
    /\ Goto("down")
    /\ SessionEnds /\ flag' = FALSE
    /\ m_users' = <<>> /\ op' = NoOp /\ result' = "none"
    /\ UNCHANGED <<promised, db, seen>>

Restart_ReadsImg ==                                                 \* mutant
    /\ pc = "down"
    /\ up' = TRUE
    /\ m_users' = SetToSeq(db.img)
    /\ Goto("idle")
    /\ UNCHANGED <<op, result, promised, db, tx, auto, inTrans, flag, seen>>

(* main() connects the pool and User_Mgt::init reads tbl_user; nothing     *)
(* depends on the order of the rows.                                       *)
Restart ==
    /\ pc = "down"
    /\ up' = TRUE
    /\ m_users' = SetToSeq(db.user)
    /\ Goto("idle")
    /\ UNCHANGED <<op, result, promised, db, tx, auto, inTrans, flag, seen>>

Next ==
    \/ Request \/ CheckExist \/ Begin \/ SqlUser \/ SqlImg
    \/ Rollback \/ GiveUp \/ Commit \/ End \/ Memory \/ Answer
    \/ Drop \/ Crash \/ Restart

Spec == Init /\ [][Next]_vars

----------------------------------------------------------------------------
(* No two entries of m_users have one id, although user_exist looks at the *)
(* vector and the primary key at the table, and the two may differ.        *)
UniqueIds == \A j, k \in DOMAIN m_users : m_users[j].id = m_users[k].id => j = k

(* Between operations the vector and tbl_user hold the same users, as long *)
(* as the connection has held.                                             *)
MemoryMatchesTable ==
    pc = "idle" /\ "dropped" \notin seen => ToSet(m_users) = db.user

(* A user never appears in one committed table only, not even while an     *)
(* operation runs or after a crash: what the rollback macro is for.        *)
TablesAgree == seen = {} => {u.id : u \in db.user} = db.img

(* A user whose registration was answered OK is in tbl_user, and so comes  *)
(* back after a restart, until a withdrawal is asked for.                  *)
PromiseKept == "dropped" \notin seen => promised \subseteq db.user

(* No operation leaves a transaction open in the pooled session: the next  *)
(* one would commit or lose its statements.                                *)
NoOpenTransaction == pc \in {"idle", "answer", "memory"} => ~inTrans

(* req_processor.cpp:122, "Face regist OK.": the user is stored.           *)
RegistOkIsStored ==
    pc = "answer" /\ op.type = "regist" /\ result = "ok" => op.user \in db.user
=============================================================================
