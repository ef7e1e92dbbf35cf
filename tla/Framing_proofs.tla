-------------------------- MODULE Framing_proofs ---------------------------
(***************************************************************************)
(* Proofs about Framing for every set of connections, all streams, frame   *)
(* sizes and arrival patterns.                                             *)
(***************************************************************************)
EXTENDS Framing, TLAPS

(* The frame the server is at in c's stream, unless c was upset.           *)
Here(c) == Len(taken[c]) + 1

(* svc and recv_n only touch connections that are open, each once a batch. *)
HandledIsOpen ==
    /\ \A c \in batch : open[c]
    /\ cur \in Conn => open[cur] /\ cur \notin batch

(* recv_n was given the extent of the frame's body, and is not past it.    *)
InBody(c) ==
    /\ Here(c) \in Frames(c)
    /\ from = Start[c][Here(c)] + HeaderLen
    /\ from + want = Start[c][Here(c) + 1]
    /\ from <= read[c] /\ read[c] < from + want

(* Between frames: nothing of the next one is read, or the client has left *)
(* in the middle of it and there is nothing more to read.                  *)
BetweenFrames(c) ==
    \/ read[c] = Start[c][Here(c)]
    \/ /\ end[c] = "fin" /\ read[c] = arrived[c]
       /\ Here(c) \in Frames(c)
       /\ read[c] < Start[c][Here(c) + 1]

Placed(c) ==
    /\ Here(c) \in 1..Len(Start[c])
    /\ cur = c => InBody(c)
    /\ cur # c => BetweenFrames(c)
    /\ ~open[c] => end[c] = "fin" /\ read[c] = arrived[c]

(* The requests made from c are its first frames.                          *)
Faithful(c) == \A i \in 1..Len(taken[c]) :
    i \in Frames(c) /\ taken[c][i] = <<Start[c][i] + HeaderLen, Start[c][i + 1]>>

IInv ==
    /\ TypeOK
    /\ HandledIsOpen
    /\ \A c \in Conn \ upset : Placed(c) /\ Faithful(c)

----------------------------------------------------------------------------
LEMMA AtMostBounds ==
  ASSUME NEW m \in Nat, NEW n \in Nat
  PROVE  /\ AtMost(m, n) \in Nat
         /\ AtMost(m, n) <= m /\ AtMost(m, n) <= n
         /\ m >= n => AtMost(m, n) = n
         /\ m < n => AtMost(m, n) = m
BY DEF AtMost

LEMMA ElementOfSeq ==
  ASSUME NEW S, NEW s \in Seq(S), NEW k \in 1..Len(s)
  PROVE  s[k] \in S
OBVIOUS

(* A header of at most four bytes that are in the stream has a length.     *)
LEMMA LengthNat ==
  ASSUME NEW c \in Conn, NEW pos \in Nat, NEW n \in Nat,
         pos + n <= Len(Stream[c])
  PROVE  Length(c, pos, n) \in Nat
<1> DEFINE byte(i) == IF i <= n THEN Stream[c][pos + i] ELSE 0
<1>1. Stream[c] \in Seq(0..(Base - 1))
  BY StreamAssumption
<1>2. \A i \in Nat : i >= 1 => byte(i) \in Nat
  <2> TAKE i \in Nat
  <2> HAVE i >= 1
  <2>1. CASE i <= n
    <3>1. pos + i \in 1..Len(Stream[c])
      BY <2>1, <1>1
    <3>2. Stream[c][pos + i] \in 0..(Base - 1)
      BY <1>1, <3>1, ElementOfSeq
    <3>3. QED
      BY <2>1, <3>2, BaseAssumption
  <2>2. CASE ~(i <= n)
    BY <2>2
  <2>3. QED
    BY <2>1, <2>2
<1>3. byte(1) \in Nat /\ byte(2) \in Nat /\ byte(3) \in Nat /\ byte(4) \in Nat
  BY <1>2
<1> HIDE DEF byte
<1>4. Base * byte(1) + byte(2) \in Nat
  BY <1>3, BaseAssumption
<1>5. Base * (Base * byte(1) + byte(2)) + byte(3) \in Nat
  BY <1>3, <1>4, BaseAssumption
<1>6. Base * (Base * (Base * byte(1) + byte(2)) + byte(3)) + byte(4) \in Nat
  BY <1>3, <1>5, BaseAssumption
<1>7. QED
  BY <1>6 DEF Length, byte

(* What the proofs use of the frame boundaries.                            *)
LEMMA StartFacts ==
  ASSUME NEW c \in Conn
  PROVE  /\ Start[c] \in Seq(Nat) /\ Len(Start[c]) \in Nat /\ Len(Start[c]) >= 1
         /\ Start[c][1] = 0
         /\ \A i \in 1..Len(Start[c]) : Start[c][i] \in Nat
         /\ Start[c][Len(Start[c])] = Len(Stream[c])
         /\ \A i, j \in 1..Len(Start[c]) : i < j => Start[c][i] < Start[c][j]
         /\ \A i \in Frames(c) : Start[c][i] + HeaderLen < Start[c][i + 1]
         /\ \A i \in Frames(c) :
               Start[c][i + 1] = Start[c][i] + HeaderLen
                                 + Length(c, Start[c][i], HeaderLen)
<1>1. Start[c] \in Seq(Nat) /\ Start[c] # <<>>
  BY StartAssumption
<1>2. Len(Start[c]) \in Nat /\ Len(Start[c]) >= 1
  BY <1>1
<1>3. \A i \in 1..Len(Start[c]) : Start[c][i] \in Nat
  BY <1>1
<1>4. QED
  BY <1>1, <1>2, <1>3, StartAssumption

----------------------------------------------------------------------------
LEMMA InitIInv == Init => IInv
<1> SUFFICES ASSUME Init PROVE IInv
  OBVIOUS
<1>1. \A c \in Conn : Len(Stream[c]) \in Nat
  <2> TAKE c \in Conn
  <2>1. Stream[c] \in Seq(0..(Base - 1))
    BY StreamAssumption
  <2>2. QED
    BY <2>1
<1>2. TypeOK
  <2>1. \A c \in Conn : read[c] <= arrived[c] /\ arrived[c] <= Len(Stream[c])
    <3> TAKE c \in Conn
    <3>1. read[c] = 0 /\ arrived[c] = 0
      BY DEF Init
    <3>2. Len(Stream[c]) \in Nat
      BY <1>1
    <3>3. QED
      BY <3>1, <3>2
  <2>2. <<>> \in Seq(Nat \X Nat)
    OBVIOUS
  <2>3. taken \in [Conn -> Seq(Nat \X Nat)]
    BY <2>2 DEF Init
  <2>4. QED
    BY <2>1, <2>3 DEF Init, TypeOK
<1>3. HandledIsOpen
  BY ConnAssumption DEF Init, HandledIsOpen
<1>4. ASSUME NEW c \in Conn PROVE Placed(c) /\ Faithful(c)
  <2>1. Len(taken[c]) = 0 /\ cur # c /\ open[c] /\ read[c] = 0
    BY ConnAssumption DEF Init
  <2>2. QED
    BY <2>1, StartFacts DEF Placed, Faithful, Here, BetweenFrames
<1>5. QED
  BY <1>2, <1>3, <1>4 DEF IInv

(* A step that leaves c's stream and its place in it alone.                *)
LEMMA OthersPlaced ==
  ASSUME NEW c \in Conn, Placed(c), Faithful(c),
         read'[c] = read[c], taken'[c] = taken[c],
         end'[c] = end[c], open'[c] = open[c],
         arrived'[c] = arrived[c] \/ (open[c] /\ end[c] = "open"),
         cur' = c <=> cur = c,
         cur = c => UNCHANGED <<from, want>>
  PROVE  Placed(c)' /\ Faithful(c)'
<1>1. Faithful(c)'
  BY DEF Faithful, Frames
<1>2. Placed(c)'
  BY DEF Placed, Here, InBody, BetweenFrames, Frames
<1>3. QED
  BY <1>1, <1>2

LEMMA ArriveIInv ==
  ASSUME IInv, NEW c \in Conn, Arrive(c)
  PROVE  IInv'
<1> USE DEF Arrive, recvVars
<1>1. TypeOK'
  <2>1. Len(Stream[c]) \in Nat
    BY StreamAssumption
  <2>2. QED
    BY <2>1 DEF IInv, TypeOK
<1>2. HandledIsOpen'
  BY DEF IInv, HandledIsOpen
<1>3. ASSUME NEW d \in Conn \ upset' PROVE Placed(d)' /\ Faithful(d)'
  <2>1. Placed(d) /\ Faithful(d) /\ d \in Conn
    BY DEF IInv
  <2>2. arrived'[d] = arrived[d] \/ (open[d] /\ end[d] = "open")
    BY DEF IInv, TypeOK
  <2>3. QED
    BY <2>1, <2>2, OthersPlaced
<1>4. QED
  BY <1>1, <1>2, <1>3 DEF IInv

LEMMA LeaveIInv ==
  ASSUME IInv, NEW c \in Conn, Leave(c)
  PROVE  IInv'
<1> USE DEF Leave, recvVars
<1>1. TypeOK'
  BY DEF IInv, TypeOK
<1>2. HandledIsOpen'
  BY DEF IInv, HandledIsOpen
<1>3. ASSUME NEW d \in Conn \ upset' PROVE Placed(d)' /\ Faithful(d)'
  <2>1. Placed(d) /\ Faithful(d)
    BY DEF IInv
  <2>2. Faithful(d)'
    BY <2>1 DEF Faithful, Frames
  <2>3. (open[d] \/ d # c) /\ (d = c => end[d] = "open") /\ (d # c => end'[d] = end[d])
    BY DEF IInv, TypeOK
  <2>4. Placed(d)'
    BY <2>1, <2>3 DEF Placed, Here, InBody, BetweenFrames, Frames
  <2>5. QED
    BY <2>2, <2>4
<1>4. QED
  BY <1>1, <1>2, <1>3 DEF IInv

LEMMA WaitIInv == IInv /\ Wait => IInv'
<1> SUFFICES ASSUME IInv, Wait PROVE IInv'
  OBVIOUS
<1> USE DEF Wait, recvVars, clientVars
<1>1. TypeOK'
  BY DEF IInv, TypeOK, Ready
<1>2. HandledIsOpen'
  BY ConnAssumption DEF IInv, HandledIsOpen, Ready
<1>3. ASSUME NEW d \in Conn \ upset' PROVE Placed(d)' /\ Faithful(d)'
  BY OthersPlaced DEF IInv
<1>4. QED
  BY <1>1, <1>2, <1>3 DEF IInv

----------------------------------------------------------------------------
(* The reactor's steps.  Only the connection they handle moves.            *)
LEMMA HeaderIInv ==
  ASSUME IInv, NEW c \in Conn, Header(c)
  PROVE  IInv'
<1> DEFINE n == AtMost(Unread(c), HeaderLen)
<1>1. /\ cur = NoConn /\ c \in batch /\ batch' = batch \ {c}
      /\ read[c] \in Nat /\ arrived[c] \in Nat /\ read[c] < arrived[c]
      /\ arrived[c] <= Len(Stream[c])
      /\ cur' = c /\ tried' = FALSE
      /\ UNCHANGED <<arrived, end, open, taken>>
  BY DEF IInv, TypeOK, Header, Dispatch, Unread, clientVars
<1>2. n \in Nat /\ n <= Unread(c) /\ n <= HeaderLen
      /\ (Unread(c) >= HeaderLen => n = HeaderLen)
  <2>1. Unread(c) \in Nat /\ HeaderLen \in Nat
    BY <1>1 DEF Unread, HeaderLen
  <2>2. QED
    BY <2>1, AtMostBounds
<1>3. /\ read' = [read EXCEPT ![c] = @ + n]
      /\ from' = read[c] + n
      /\ want' = Length(c, read[c], n)
      /\ upset' = IF n < HeaderLen THEN upset \cup {c} ELSE upset
  BY DEF Header
<1> HIDE DEF n
<1>4. read[c] + n <= arrived[c]
  BY <1>1, <1>2 DEF Unread
<1>5. want' \in Nat
  <2>1. Len(Stream[c]) \in Nat
    BY StreamAssumption
  <2>2. read[c] + n <= Len(Stream[c])
    BY <1>1, <1>2, <1>4, <2>1
  <2>3. QED
    BY <1>1, <1>2, <1>3, <2>2, LengthNat
<1>6. TypeOK'
  <2>1. read' \in [Conn -> Nat] /\ from' \in Nat
    BY <1>1, <1>2, <1>3 DEF IInv, TypeOK
  <2>2. \A d \in Conn : read'[d] <= arrived'[d] /\ arrived'[d] <= Len(Stream[d])
    BY <1>1, <1>3, <1>4 DEF IInv, TypeOK
  <2>3. QED
    BY <1>1, <1>3, <1>5, <2>1, <2>2 DEF IInv, TypeOK
<1>7. HandledIsOpen'
  BY <1>1 DEF IInv, HandledIsOpen
<1>8. ASSUME NEW d \in Conn \ upset' PROVE Placed(d)' /\ Faithful(d)'
  <2>1. Placed(d) /\ Faithful(d) /\ d \notin upset
    BY <1>3, <1>8 DEF IInv
  <2>2. CASE d # c
    <3>1. read'[d] = read[d] /\ cur # d /\ cur' # d
      BY <1>1, <1>3, <2>2, ConnAssumption DEF IInv, TypeOK
    <3>2. QED
      BY <1>1, <2>1, <3>1, OthersPlaced
  <2>3. CASE d = c
    <3>1. n = HeaderLen /\ read'[c] = read[c] + HeaderLen /\ from' = read'[c]
      BY <1>1, <1>2, <1>3, <2>3 DEF IInv, TypeOK, HeaderLen
    <3>2. read[c] = Start[c][Here(c)] /\ Here(c) \in 1..Len(Start[c])
      BY <1>1, <2>1, <2>3, ConnAssumption DEF Placed, BetweenFrames
    <3>3. Here(c) \in Frames(c)
      <4>1. Len(Stream[c]) \in Nat /\ read[c] < Len(Stream[c])
        BY <1>1, StreamAssumption
      <4>2. Here(c) # Len(Start[c])
        BY <3>2, <4>1, StartFacts
      <4>3. QED
        BY <3>2, <4>2, StartFacts DEF Frames
    <3>4. /\ from' + want' = Start[c][Here(c) + 1]
          /\ read'[c] < Start[c][Here(c) + 1]
      BY <1>3, <3>1, <3>2, <3>3, StartFacts
    <3>5. InBody(c)'
      <4>1. Here(c)' = Here(c) /\ Frames(c)' = Frames(c)
        BY <1>1 DEF Here, Frames
      <4>2. read'[c] \in Nat /\ from' = Start[c][Here(c)] + HeaderLen
        BY <1>6, <3>1, <3>2 DEF TypeOK
      <4>3. from' <= read'[c] /\ read'[c] < from' + want'
        BY <3>1, <3>4, <4>2
      <4>4. QED
        BY <3>3, <3>4, <4>1, <4>2, <4>3 DEF InBody
    <3>6. open'[c]
      BY <1>1 DEF IInv, HandledIsOpen
    <3>7. Placed(c)' /\ Faithful(c)'
      BY <1>1, <2>1, <2>3, <3>2, <3>5, <3>6 DEF Placed, Faithful, Here, Frames
    <3>8. QED
      BY <2>3, <3>7
  <2>4. QED
    BY <2>2, <2>3
<1>9. QED
  BY <1>6, <1>7, <1>8 DEF IInv

LEMMA HeaderEofIInv ==
  ASSUME IInv, NEW c \in Conn, HeaderEof(c)
  PROVE  IInv'
<1>1. /\ cur = NoConn /\ c \in batch /\ batch' = batch \ {c}
      /\ read[c] = arrived[c] /\ end[c] = "fin"
      /\ open' = [open EXCEPT ![c] = FALSE]
      /\ UNCHANGED <<arrived, end, read, cur, from, want, tried, taken, upset>>
  BY DEF IInv, TypeOK, HeaderEof, Dispatch, Unread, Close, clientVars, recvVars
<1>2. TypeOK'
  BY <1>1 DEF IInv, TypeOK
<1>3. HandledIsOpen'
  BY <1>1, ConnAssumption DEF IInv, TypeOK, HandledIsOpen
<1>4. ASSUME NEW d \in Conn \ upset' PROVE Placed(d)' /\ Faithful(d)'
  <2>1. Placed(d) /\ Faithful(d)
    BY <1>1, <1>4 DEF IInv
  <2>2. (d # c => open'[d] = open[d]) /\ cur # d
    BY <1>1, ConnAssumption DEF IInv, TypeOK
  <2>3. Placed(d)'
    BY <1>1, <2>1, <2>2 DEF Placed, Here, BetweenFrames, Frames
  <2>4. QED
    BY <1>1, <2>1, <2>3 DEF Faithful, Frames
<1>5. QED
  BY <1>2, <1>3, <1>4 DEF IInv

LEMMA HeaderErrorIInv ==
  ASSUME IInv, NEW c \in Conn, HeaderError(c)
  PROVE  IInv'
<1>1. /\ cur = NoConn /\ c \in batch /\ batch' = batch \ {c}
      /\ read[c] = arrived[c] /\ end[c] = "reset"
      /\ end' = [end EXCEPT ![c] = "fin"]
      /\ UNCHANGED <<arrived, open, read, cur, from, want, tried, taken, upset>>
  BY DEF IInv, TypeOK, HeaderError, Dispatch, Unread, recvVars
<1>2. TypeOK'
  BY <1>1 DEF IInv, TypeOK
<1>3. HandledIsOpen'
  BY <1>1, ConnAssumption DEF IInv, TypeOK, HandledIsOpen
<1>4. ASSUME NEW d \in Conn \ upset' PROVE Placed(d)' /\ Faithful(d)'
  <2>1. Placed(d) /\ Faithful(d)
    BY <1>1, <1>4 DEF IInv
  <2>2. (d # c => end'[d] = end[d]) /\ end'[c] = "fin" /\ cur # d
    BY <1>1, ConnAssumption DEF IInv, TypeOK
  <2>3. Placed(d)'
    BY <1>1, <2>1, <2>2 DEF Placed, Here, BetweenFrames, Frames
  <2>4. QED
    BY <1>1, <2>1, <2>3 DEF Faithful, Frames
<1>5. QED
  BY <1>2, <1>3, <1>4 DEF IInv

(* More of the body, or the rest of it and with it a request.              *)
LEMMA RecvSomeIInv == IInv /\ RecvSome => IInv'
<1> SUFFICES ASSUME IInv, RecvSome PROVE IInv'
  OBVIOUS
<1> DEFINE n == AtMost(Unread(cur), Missing)
<1>1. /\ cur \in Conn /\ Missing > 0 /\ Unread(cur) > 0
      /\ read' = [read EXCEPT ![cur] = @ + n]
      /\ UNCHANGED <<arrived, end, open, batch, upset>>
  BY DEF RecvSome, clientVars
<1>2. /\ read[cur] \in Nat /\ arrived[cur] \in Nat /\ from \in Nat /\ want \in Nat
      /\ Unread(cur) \in Nat /\ Missing \in Nat
  <2>1. read[cur] \in Nat /\ arrived[cur] \in Nat /\ from \in Nat /\ want \in Nat
    BY <1>1 DEF IInv, TypeOK
  <2>2. QED
    BY <1>1, <2>1 DEF Unread, Missing
<1>3. /\ n \in Nat /\ n <= Unread(cur)
      /\ (Unread(cur) >= Missing => n = Missing)
      /\ (Unread(cur) < Missing => n = Unread(cur))
  BY <1>2, AtMostBounds
<1> HIDE DEF n
<1>4. /\ read[cur] + n <= arrived[cur]
      /\ read'[cur] = read[cur] + n
      /\ read' \in [Conn -> Nat]
      /\ \A d \in Conn : d # cur => read'[d] = read[d]
  BY <1>1, <1>2, <1>3 DEF Unread, IInv, TypeOK
<1>5. \A d \in Conn : read'[d] <= arrived'[d] /\ arrived'[d] <= Len(Stream[d])
  BY <1>1, <1>4 DEF IInv, TypeOK
<1>6. CASE /\ Unread(cur) >= Missing
           /\ taken' = [taken EXCEPT ![cur] = Append(@, <<from, from + want>>)]
           /\ Return
  <2>1. cur' = NoConn /\ from' = 0 /\ want' = 0 /\ tried' = FALSE
    BY <1>6 DEF Return
  <2>2. /\ taken[cur] \in Seq(Nat \X Nat)
        /\ taken'[cur] = Append(taken[cur], <<from, from + want>>)
        /\ \A d \in Conn : d # cur => taken'[d] = taken[d]
    BY <1>1, <1>6 DEF IInv, TypeOK
  <2>3. taken'[cur] \in Seq(Nat \X Nat) /\ Len(taken'[cur]) = Len(taken[cur]) + 1
    BY <1>2, <2>2
  <2>4. TypeOK'
    BY <1>1, <1>4, <1>5, <1>6, <2>1, <2>3 DEF IInv, TypeOK
  <2>5. HandledIsOpen'
    BY <1>1, <2>1, ConnAssumption DEF IInv, HandledIsOpen
  <2>6. ASSUME NEW d \in Conn \ upset' PROVE Placed(d)' /\ Faithful(d)'
    <3>1. Placed(d) /\ Faithful(d)
      BY <1>1, <2>6 DEF IInv
    <3>2. CASE d # cur
      BY <1>1, <1>4, <2>1, <2>2, <3>1, <3>2, ConnAssumption, OthersPlaced
    <3>3. CASE d = cur
      <4>1. InBody(d) /\ open[d]
        BY <1>1, <3>1, <3>3 DEF Placed, IInv, HandledIsOpen
      <4>2. Here(d)' = Here(d) + 1 /\ Frames(d)' = Frames(d)
        BY <2>2, <2>3, <3>3 DEF Here, Frames
      <4>3. read'[d] = Start[d][Here(d) + 1]
        BY <1>2, <1>3, <1>4, <1>6, <3>3, <4>1 DEF InBody, Missing
      <4>4. Placed(d)'
        <5>1. Here(d)' \in 1..Len(Start[d])
          BY <2>2, <3>3, <4>1, <4>2, StartFacts DEF InBody, Here, Frames
        <5>2. BetweenFrames(d)' /\ cur' # d /\ open'[d]
          BY <1>1, <2>1, <4>1, <4>2, <4>3, ConnAssumption DEF BetweenFrames
        <5>3. QED
          BY <5>1, <5>2 DEF Placed
      <4>5. Faithful(d)'
        <5>1. \A i \in 1..Len(taken[d]) : taken'[d][i] = taken[d][i]
          BY <2>2, <3>3
        <5>2. taken'[d][Here(d)] = <<from, from + want>>
          BY <2>2, <3>3 DEF Here
        <5>3. ASSUME NEW i \in 1..Len(taken'[d])
              PROVE  /\ i \in Frames(d)
                     /\ taken'[d][i] = <<Start[d][i] + HeaderLen, Start[d][i + 1]>>
          <6>1. i \in 1..Len(taken[d]) \/ i = Here(d)
            BY <2>2, <2>3, <3>3 DEF Here
          <6>2. CASE i = Here(d)
            BY <4>1, <5>2, <6>2 DEF InBody
          <6>3. CASE i \in 1..Len(taken[d])
            BY <3>1, <5>1, <6>3 DEF Faithful
          <6>4. QED
            BY <6>1, <6>2, <6>3
        <5>4. QED
          BY <4>2, <5>3 DEF Faithful
      <4>6. QED
        BY <4>4, <4>5
    <3>4. QED
      BY <3>2, <3>3
  <2>7. QED
    BY <2>4, <2>5, <2>6 DEF IInv
<1>7. CASE /\ Unread(cur) < Missing
           /\ tried' = TRUE
           /\ UNCHANGED <<taken, cur, from, want>>
  <2>1. TypeOK'
    BY <1>1, <1>4, <1>5, <1>7 DEF IInv, TypeOK
  <2>2. HandledIsOpen'
    BY <1>1, <1>7 DEF IInv, HandledIsOpen
  <2>3. ASSUME NEW d \in Conn \ upset' PROVE Placed(d)' /\ Faithful(d)'
    <3>1. Placed(d) /\ Faithful(d)
      BY <1>1, <2>3 DEF IInv
    <3>2. CASE d # cur
      BY <1>1, <1>4, <1>7, <3>1, <3>2, OthersPlaced
    <3>3. CASE d = cur
      <4>1. InBody(d) /\ open[d]
        BY <1>1, <3>1, <3>3 DEF Placed, IInv, HandledIsOpen
      <4>2. from <= read'[d] /\ read'[d] < from + want
        BY <1>2, <1>3, <1>4, <1>7, <3>3, <4>1 DEF InBody, Missing
      <4>3. InBody(d)'
        BY <1>7, <4>1, <4>2 DEF InBody, Here, Frames
      <4>4. QED
        BY <1>1, <1>7, <3>1, <3>3, <4>1, <4>3 DEF Placed, Faithful, Here, Frames
    <3>4. QED
      BY <3>2, <3>3
  <2>4. QED
    BY <2>1, <2>2, <2>3 DEF IInv
<1>8. QED
  BY <1>6, <1>7 DEF RecvSome, n

LEMMA RecvNothingIInv == IInv /\ RecvNothing => IInv'
<1> SUFFICES ASSUME IInv, RecvNothing PROVE IInv'
  OBVIOUS
<1>1. /\ tried' = TRUE
      /\ UNCHANGED <<arrived, end, read, open, batch, cur, from, want, taken, upset>>
  BY DEF RecvNothing, clientVars
<1>2. TypeOK'
  BY <1>1 DEF IInv, TypeOK
<1>3. HandledIsOpen'
  BY <1>1 DEF IInv, HandledIsOpen
<1>4. ASSUME NEW d \in Conn \ upset' PROVE Placed(d)' /\ Faithful(d)'
  BY <1>1, <1>4, OthersPlaced DEF IInv
<1>5. QED
  BY <1>2, <1>3, <1>4 DEF IInv

(* handle_input gives up on c after the client left, or c was upset.       *)
LEMMA GiveUpPlaced ==
  ASSUME IInv, cur \in Conn, cur' = NoConn,
         UNCHANGED <<arrived, read, taken>>, upset \subseteq upset',
         \A d \in Conn : d # cur => end'[d] = end[d] /\ open'[d] = open[d],
         cur \in upset' \/ (end'[cur] = "fin" /\ read[cur] = arrived[cur])
  PROVE  \A d \in Conn \ upset' : Placed(d)' /\ Faithful(d)'
<1> TAKE d \in Conn \ upset'
<1>1. Placed(d) /\ Faithful(d)
  BY DEF IInv
<1>2. CASE d # cur
  BY <1>1, <1>2, ConnAssumption, OthersPlaced
<1>3. CASE d = cur
  <2>1. InBody(d) /\ end'[d] = "fin" /\ read[d] = arrived[d] /\ cur' # d
    BY <1>1, <1>3, ConnAssumption DEF Placed
  <2>2. BetweenFrames(d)'
    BY <2>1 DEF InBody, BetweenFrames, Here, Frames
  <2>3. QED
    BY <1>1, <2>1, <2>2 DEF Placed, Faithful, Here, Frames
<1>4. QED
  BY <1>2, <1>3

LEMMA RecvEofIInv == IInv /\ RecvEof => IInv'
<1> SUFFICES ASSUME IInv, RecvEof PROVE IInv'
  OBVIOUS
<1>1. /\ cur \in Conn
      /\ want = 0 \/ (read[cur] = arrived[cur] /\ end[cur] = "fin")
      /\ open' = [open EXCEPT ![cur] = FALSE]
      /\ cur' = NoConn /\ from' = 0 /\ want' = 0 /\ tried' = FALSE
      /\ UNCHANGED <<arrived, end, read, batch, taken, upset>>
  BY DEF IInv, TypeOK, RecvEof, Close, Return, Unread, clientVars
<1>2. TypeOK'
  BY <1>1 DEF IInv, TypeOK
<1>3. HandledIsOpen'
  BY <1>1, ConnAssumption DEF IInv, TypeOK, HandledIsOpen
<1>4. cur \in upset' \/ (end'[cur] = "fin" /\ read[cur] = arrived[cur])
  <2>1. CASE want = 0 /\ cur \notin upset
    <3>1. InBody(cur)
      BY <1>1, <2>1 DEF IInv, Placed
    <3>2. FALSE
      BY <1>1, <2>1, <3>1 DEF InBody, IInv, TypeOK
    <3>3. QED
      BY <3>2
  <2>2. QED
    BY <1>1, <2>1
<1>5. \A d \in Conn : d # cur => open'[d] = open[d]
  BY <1>1 DEF IInv, TypeOK
<1>6. \A d \in Conn \ upset' : Placed(d)' /\ Faithful(d)'
  BY <1>1, <1>4, <1>5, GiveUpPlaced
<1>7. QED
  BY <1>2, <1>3, <1>6 DEF IInv

LEMMA RecvErrorIInv == IInv /\ RecvError => IInv'
<1> SUFFICES ASSUME IInv, RecvError PROVE IInv'
  OBVIOUS
<1>1. /\ cur \in Conn
      /\ read[cur] = arrived[cur] /\ end[cur] = "reset"
      /\ end' = [end EXCEPT ![cur] = "fin"]
      /\ cur' = NoConn /\ from' = 0 /\ want' = 0 /\ tried' = FALSE
      /\ UNCHANGED <<arrived, open, read, batch, taken, upset>>
  BY DEF IInv, TypeOK, RecvError, Return, Unread
<1>2. TypeOK'
  BY <1>1 DEF IInv, TypeOK
<1>3. HandledIsOpen'
  BY <1>1, ConnAssumption DEF IInv, HandledIsOpen
<1>4. end'[cur] = "fin" /\ \A d \in Conn : d # cur => end'[d] = end[d]
  BY <1>1 DEF IInv, TypeOK
<1>5. \A d \in Conn \ upset' : Placed(d)' /\ Faithful(d)'
  BY <1>1, <1>4, GiveUpPlaced
<1>6. QED
  BY <1>2, <1>3, <1>5 DEF IInv

LEMMA TimeoutIInv == IInv /\ Timeout => IInv'
<1> SUFFICES ASSUME IInv, Timeout PROVE IInv'
  OBVIOUS
<1>1. /\ cur \in Conn /\ upset' = upset \cup {cur}
      /\ cur' = NoConn /\ from' = 0 /\ want' = 0 /\ tried' = FALSE
      /\ UNCHANGED <<arrived, end, open, read, batch, taken>>
  BY DEF Timeout, Return, clientVars
<1>2. TypeOK'
  BY <1>1 DEF IInv, TypeOK
<1>3. HandledIsOpen'
  BY <1>1, ConnAssumption DEF IInv, HandledIsOpen
<1>4. \A d \in Conn \ upset' : Placed(d)' /\ Faithful(d)'
  BY <1>1, GiveUpPlaced
<1>5. QED
  BY <1>2, <1>3, <1>4 DEF IInv

----------------------------------------------------------------------------
LEMMA NextIInv == IInv /\ [Next]_vars => IInv'
<1> SUFFICES ASSUME IInv, [Next]_vars PROVE IInv'
  OBVIOUS
<1>1. CASE Client
  BY <1>1, ArriveIInv, LeaveIInv DEF Client
<1>2. CASE Reactor
  BY <1>2, WaitIInv, HeaderIInv, HeaderEofIInv, HeaderErrorIInv, RecvSomeIInv,
     RecvNothingIInv, RecvEofIInv, RecvErrorIInv, TimeoutIInv DEF Reactor, Recv
<1>3. CASE UNCHANGED vars
  <2>1. UNCHANGED <<arrived, end, read, open, batch, cur, from, want, tried,
                    taken, upset>>
    BY <1>3 DEF vars, clientVars, recvVars
  <2>2. TypeOK' /\ HandledIsOpen'
    BY <2>1 DEF IInv, TypeOK, HandledIsOpen
  <2>3. ASSUME NEW d \in Conn \ upset' PROVE Placed(d)' /\ Faithful(d)'
    BY <2>1, <2>3, OthersPlaced DEF IInv
  <2>4. QED
    BY <2>2, <2>3 DEF IInv
<1>4. QED
  BY <1>1, <1>2, <1>3 DEF Next

LEMMA SpecIInv == Spec => []IInv
BY InitIInv, NextIInv, PTL DEF Spec

LEMMA IInvFramesIntact == IInv => FramesIntact
BY DEF IInv, FramesIntact, Faithful

(* A closed connection's socket is empty, so what arrived ends where the   *)
(* server stopped reading: before the last byte of the frame it is at.     *)
LEMMA IInvNoArrivedFrameLost == IInv => NoArrivedFrameLost
<1> SUFFICES ASSUME IInv, NEW c \in Conn \ upset, ~open[c],
                    NEW i \in Frames(c), Start[c][i + 1] <= arrived[c]
             PROVE  i <= Len(taken[c])
  BY DEF NoArrivedFrameLost
<1>1. Placed(c) /\ BetweenFrames(c) /\ read[c] = arrived[c]
  BY DEF IInv, HandledIsOpen, Placed
<1>2. Len(taken[c]) \in Nat /\ read[c] \in Nat
  BY DEF IInv, TypeOK
<1>3. i \in Nat /\ i + 1 \in 1..Len(Start[c]) /\ Start[c][i + 1] \in Nat
  BY StartFacts DEF Frames
<1>4. SUFFICES ASSUME i >= Here(c) PROVE FALSE
  BY <1>2, <1>3 DEF Here
<1>5. CASE read[c] = Start[c][Here(c)]
  <2>1. Here(c) < i + 1 /\ Here(c) \in 1..Len(Start[c])
    BY <1>1, <1>2, <1>3, <1>4 DEF Placed, Here
  <2>2. Start[c][Here(c)] < Start[c][i + 1]
    BY <1>3, <2>1, StartFacts
  <2>3. QED
    BY <1>1, <1>2, <1>3, <1>5, <2>2
<1>6. CASE Here(c) \in Frames(c) /\ read[c] < Start[c][Here(c) + 1]
  <2>1. /\ Here(c) + 1 \in 1..Len(Start[c]) /\ Here(c) + 1 <= i + 1
        /\ Start[c][Here(c) + 1] \in Nat
    <3>1. Here(c) \in Nat /\ Here(c) >= 1
      BY <1>2 DEF Here
    <3>2. Len(Start[c]) \in Nat
      BY StartFacts
    <3>3. Here(c) + 1 \in 1..Len(Start[c])
      BY <1>6, <3>1, <3>2 DEF Frames
    <3>4. QED
      BY <1>3, <1>4, <3>1, <3>3, StartFacts
  <2>2. Start[c][Here(c) + 1] <= Start[c][i + 1]
    <3>1. CASE Here(c) = i
      BY <1>3, <3>1
    <3>2. CASE Here(c) < i
      BY <1>2, <1>3, <2>1, <3>2, StartFacts DEF Here
    <3>3. QED
      BY <1>2, <1>3, <1>4, <3>1, <3>2 DEF Here
  <2>3. QED
    BY <1>1, <1>2, <1>3, <1>6, <2>1, <2>2
<1>7. QED
  BY <1>1, <1>5, <1>6 DEF BetweenFrames

----------------------------------------------------------------------------
(* The variables keep their types; no byte is read that has not arrived.   *)
THEOREM TypeCorrect == Spec => []TypeOK
<1>1. IInv => TypeOK
  BY DEF IInv
<1>2. QED
  BY <1>1, SpecIInv, PTL

(* However the bytes are cut by the network and whatever other connections *)
(* do, handle_input builds from an undisturbed connection exactly its      *)
(* client's frames, in order and whole.                                    *)
THEOREM FramesAreIntact == Spec => []FramesIntact
BY SpecIInv, IInvFramesIntact, PTL

(* Closing an undisturbed connection loses no frame that had arrived.      *)
THEOREM NothingArrivedIsLost == Spec => []NoArrivedFrameLost
BY SpecIInv, IInvNoArrivedFrameLost, PTL
=============================================================================
