-------------------------------- MODULE Config --------------------------------
(***************************************************************************)
(* The configuration (conf_mgt.cpp): what Conf_Mgt::refresh makes of the   *)
(* XML file, check by check.  A file is a record: a text is a string or    *)
(* "missing", a number is <<n>>, or <<>> when its node is missing; svr is  *)
(* the sequence of mysql servers, whose missing attributes are empty.      *)
(***************************************************************************)
EXTENDS Integers, Sequences, SequencesExt

EXTRA_CONNCTION_POOL_NUM == 3
MinQueue == 100000
Short == 65536                                       \* unsigned short

NoSys == [id |-> "", ip |-> "", ip_out |-> "", port |-> 0, thr_num |-> 0,
          max_queue_size |-> 0, TZ |-> ""]

NoMysql == [ip |-> "", port |-> 0, db |-> "", user |-> "", num |-> 1]

\* Conf_Mgt as it is constructed, and what refresh returned.
Fresh == [ret |-> 0, sys |-> NoSys, recognizer |-> "recognizer_model_v1.pb",
          mysql |-> NoMysql]

Present(text) == text \notin {"missing", ""}

\* The node of a number that is missing keeps the text of the one before it.
LastRead(f) ==
    CASE f.max_queue_size # <<>> -> f.max_queue_size[1]
      [] f.max_queue_size = <<>> /\ f.thr_num # <<>> -> f.thr_num[1]
      [] OTHER -> f.port[1]

\* The system part; cpus is what get_cpu_number_proc finds.
SysInfo(f, cpus) ==
    [id |-> f.id, ip |-> f.ip,
     ip_out |-> IF f.ip_out = "missing" THEN f.ip ELSE f.ip_out,
     port |-> f.port[1] % Short,
     thr_num |-> IF f.thr_num = <<>> THEN cpus ELSE f.thr_num[1] % Short,
     max_queue_size |-> IF LastRead(f) < MinQueue THEN MinQueue ELSE LastRead(f),
     TZ |-> IF f.TZ = "missing" THEN "" ELSE f.TZ]

SysRefused(f) ==
    \/ ~Present(f.id) \/ ~Present(f.ip) \/ f.ip_out = ""
    \/ f.port = <<>>
    \/ f.port # <<>> /\ f.port[1] % Short = 0
    \/ f.thr_num # <<>> /\ f.thr_num[1] % Short = 0

\* A server of the list; refused ends the whole refresh.
SvrRefused(s) ==
    s.mode # "write" \/ s.ip = "" \/ s.port % Short = 0 \/ s.db = ""
    \/ s.user = "" \/ s.pwd = "" \/ s.chars = ""

\* The map has one entry, "write": of several servers the last is used.
Access(svr, thr_num) ==
    LET s == Last(svr)
    IN  [ip |-> s.ip, port |-> s.port % Short, db |-> s.db, user |-> s.user,
         num |-> thr_num + EXTRA_CONNCTION_POOL_NUM]

\* refresh: each part is stored as soon as it is read.
Refresh(conf, f, cpus) ==
    LET sys == SysInfo(f, cpus)
        stored == [conf EXCEPT !.sys = sys,
                               !.recognizer = IF f.recognizer = "missing"
                                              THEN Fresh.recognizer ELSE f.recognizer]
    IN  IF SysRefused(f) THEN [conf EXCEPT !.ret = -1]
        ELSE IF f.svr = <<>> \/ \E i \in DOMAIN f.svr : SvrRefused(f.svr[i])
        THEN [stored EXCEPT !.ret = -1]
        ELSE [stored EXCEPT !.ret = 0, !.mysql = Access(f.svr, sys.thr_num)]

\* init: refresh, then mysql_mgt::init opens the connections, which may fail.
InitConf(f, cpus, connects) ==
    LET conf == Refresh(Fresh, f, cpus)
    IN  IF conf.ret # 0 \/ connects THEN conf ELSE [conf EXCEPT !.ret = -1]
=============================================================================
