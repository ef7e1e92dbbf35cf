----------------------------- MODULE Recognition -----------------------------
(***************************************************************************)
(* Recognition (insightface_recognizer.cpp, facenet_recognizer.cpp) over   *)
(* the users' features (user_mgt.cpp).  The features of a registered face  *)
(* are kept in memory as they were computed and in the database as decimal *)
(* text with few digits: after a restart they are not quite the same.  The *)
(* network is external: it gives each picture its features, a vector of    *)
(* length one, here a sequence of thousandths.                             *)
(*                                                                         *)
(* Calls of the database all succeed here, those that fail are the subject *)
(* of UserStore.  A user is named by its id.                               *)
(***************************************************************************)
EXTENDS Integers, Sequences, FiniteSets, SequencesExt, FiniteSetsExt

CONSTANTS
    UserId,
    Faces,         \* features a picture may have, of length One, rounded down
    Thresholds,    \* thresholds a client may ask for, in thousandths
    Digits         \* significant digits of a number in the text

One == 1000

ASSUME UserIdAssumption == UserId \cap {"unknown", "dead", "none"} = {}
ASSUME ThresholdAssumption == Thresholds \subseteq Int
ASSUME DigitsAssumption == Digits \in Nat \ {0}

VARIABLES
    recUsers,      \* User_Mgt::m_users: sequence of [id, feat_vec]
    tbl_user,      \* the rows: [id, feat_vec], the second the text
    known,         \* history: id -> the features the network gave at its registration
    asked,         \* the last request: [face, threshold]
    answer         \* what it was answered, or "none"; "dead" without a process

recVars == <<recUsers, tbl_user, known, asked, answer>>

-----------------------------------------------------------------------------
(* Numbers as text: a sequence of <<number>> and the delimiter.              *)

Comma == <<",", "">>

Tens[n \in Nat] == IF n = 0 THEN 1 ELSE 10 * Tens[n - 1]

\* operator<< of a float: the nearest number with so many digits; spare is how
\* many digits too many it has, at most three.
Decimal(v) ==
    LET a == IF v < 0 THEN -v ELSE v
        spare == CHOOSE n \in 0 .. 3 : /\ a < Tens[Digits + n]
                                       /\ n = 0 \/ a >= Tens[Digits + n - 1]
        near == ((a + Tens[spare] \div 2) \div Tens[spare]) * Tens[spare]
    IN  IF v < 0 THEN -near ELSE near

\* The numbers, and a comma after each but the last.
feat_vec_to_str(feat) ==
    [k \in 1 .. 2 * Len(feat) - 1 |->
       IF k % 2 = 1 THEN <<Decimal(feat[(k + 1) \div 2])>> ELSE Comma]

\* Each piece up to a comma, and the piece after the last one.
str_to_feat_vec(text) ==
    LET read[k \in 0 .. Len(text)] ==
          IF k = 0 THEN <<>>
          ELSE IF text[k] # Comma /\ (k = Len(text) \/ text[k + 1] = Comma)
               THEN Append(read[k - 1], text[k][1]) ELSE read[k - 1]
    IN  read[Len(text)]

-----------------------------------------------------------------------------
(* The network and the distance                                             *)

\* extract_feat_vec: a new face has no features, and keeps none when the
\* session fails.
extract_feat_vec(feat, ok) == IF ok THEN feat ELSE <<>>

\* cal_similarity, squared.
Squared(a, b) ==
    LET sum[i \in 0 .. Len(a)] ==
          IF i = 0 THEN 0 ELSE sum[i - 1] + (a[i] - b[i]) * (a[i] - b[i])
    IN  sum[Len(a)]

Zero(feat) == [i \in DOMAIN feat |-> 0]

\* All of one length; the networks' last layer makes them unit vectors.
ASSUME FacesAssumption ==
    \A f, g \in Faces : /\ f \in Seq(Int) /\ f # <<>> /\ Len(f) = Len(g)
                        /\ Squared(f, Zero(f)) <= One * One

\* cv::norm throws for vectors of different lengths.
Comparable(a, b) == Len(a) = Len(b)

Nearest_LastWins(users, feat, threshold) ==                      \* mutant
    LET near == {i \in DOMAIN users :
                   Squared(users[i].feat_vec, feat) < threshold * threshold}
    IN  IF near = {} THEN 0 ELSE CHOOSE i \in near : \A j \in near : j <= i

\* The loop of recognize: the first of the nearest users under the threshold
\* (0 when there is none), over the squares of the distances.
Nearest(users, feat, threshold) ==
    LET best[i \in 0 .. Len(users)] ==
          LET diff == Squared(users[i].feat_vec, feat)
          IN  IF i = 0 THEN [min_diff |-> 100 * One * One, idx |-> 0]
              ELSE IF /\ threshold > 0 /\ diff < threshold * threshold
                      /\ diff < best[i - 1].min_diff
                   THEN [min_diff |-> diff, idx |-> i] ELSE best[i - 1]
    IN  best[Len(users)].idx

Recognize(users, feat, threshold) ==
    IF \E i \in DOMAIN users : ~Comparable(users[i].feat_vec, feat) THEN "dead"
    ELSE LET idx == Nearest(users, feat, threshold)
         IN  IF idx = 0 THEN "unknown" ELSE users[idx].id

-----------------------------------------------------------------------------
NotAsked == [face |-> <<>>, threshold |-> 0]

RecInit ==
    /\ recUsers = <<>> /\ tbl_user = {} /\ known = << >>
    /\ asked = NotAsked /\ answer = "none"

Quiet == answer' = "none" /\ asked' = NotAsked

\* regist: extraction, then add_user; nothing happens for a known id.
Regist(id, face, ok) ==
    /\ answer # "dead"
    /\ LET feat == extract_feat_vec(face, ok)
           exist == \E i \in DOMAIN recUsers : recUsers[i].id = id
       IN  IF exist \/ ~ok THEN UNCHANGED <<recUsers, tbl_user, known>>
           ELSE /\ recUsers' = Append(recUsers, [id |-> id, feat_vec |-> feat])
                /\ tbl_user' = tbl_user \cup {[id |-> id, feat_vec |-> feat_vec_to_str(feat)]}
                /\ known' = [u \in DOMAIN known \cup {id} |->
                               IF u = id THEN face ELSE known[u]]
    /\ Quiet

\* withdraw of the recognizer, which is del_user: the first of that id goes.
Withdraw(id) ==
    /\ answer # "dead" /\ id \in DOMAIN known
    /\ recUsers' = RemoveAt(recUsers, Min({i \in DOMAIN recUsers : recUsers[i].id = id}))
    /\ tbl_user' = {row \in tbl_user : row.id # id}
    /\ known' = [u \in DOMAIN known \ {id} |-> known[u]]
    /\ Quiet

\* The process ends and starts: User_Mgt::init reads the rows.
Reload ==
    /\ \E rows \in SetToSeqs(tbl_user) :
         recUsers' = [i \in DOMAIN rows |->
                        [id |-> rows[i].id, feat_vec |-> str_to_feat_vec(rows[i].feat_vec)]]
    /\ UNCHANGED <<tbl_user, known>>
    /\ Quiet

\* A request to recognize; its outcome is only looked at by the client.
Ask(face, threshold, ok) ==
    /\ answer = "none"
    /\ asked' = [face |-> face, threshold |-> threshold]
    /\ answer' = Recognize(recUsers, extract_feat_vec(face, ok), threshold)
    /\ UNCHANGED <<recUsers, tbl_user, known>>

RecNext ==
    \/ \E id \in UserId, face \in Faces, ok \in BOOLEAN : Regist(id, face, ok)
    \/ \E id \in UserId : Withdraw(id)
    \/ Reload
    \/ \E face \in Faces, threshold \in Thresholds, ok \in BOOLEAN :
          Ask(face, threshold, ok)

-----------------------------------------------------------------------------
Root(n) == CHOOSE r \in 0 .. 2 * One : r * r <= n /\ n < (r + 1) * (r + 1)

\* Distance of a face to a user's features as the network gave them.
Distance(id, face) == Root(Squared(known[id], face))

\* What the digits of the text can move a vector of length one by, and the
\* whole thousandth Root leaves out.
Blur == One \div (2 * Tens[Digits - 1]) + 1

\* Whatever was registered, withdrawn and reloaded before: the user a face is
\* recognized as is registered, is as near as any other and nearer than the
\* threshold, and a face is unknown only when no registered user is nearer
\* than the threshold, up to what the text's digits may move a vector
\* (user_mgt.cpp:67-147, insightface_recognizer.cpp:318-364).
RegisteredIsRecognised ==
    answer \notin {"none", "dead"} /\ asked # NotAsked =>
      LET d(id) == Distance(id, asked.face)
      IN  IF answer = "unknown"
          THEN \A id \in DOMAIN known : d(id) >= asked.threshold - Blur
          ELSE /\ answer \in DOMAIN known
               /\ d(answer) <= asked.threshold + Blur
               /\ \A id \in DOMAIN known : d(answer) <= d(id) + 2 * Blur
=============================================================================
