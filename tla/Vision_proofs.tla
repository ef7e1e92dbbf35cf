---------------------------- MODULE Vision_proofs ----------------------------
(***************************************************************************)
(* Proofs about Vision, and about Detection, NcnnNet and Recognition       *)
(* inside it: for all pictures, whatever the networks answer, for all      *)
(* files, users, unit vectors and thresholds.                              *)
(***************************************************************************)
EXTENDS Vision, NcnnNet_proofs

----------------------------------------------------------------------------
(* Detection: the suppression.                                             *)

Box == [x1 : Int, y1 : Int, x2 : Int, y2 : Int, score : Int, area : Int,
        reg : [1 .. 4 -> Int]]

LEMMA SameOverlap ==
  ASSUME NEW a \in Box, NEW b \in Box, NEW percent, NEW mode
  PROVE  Overlaps(a, b, percent, mode) = Overlaps(b, a, percent, mode)
<1>1. \A i, j \in Int : Lower(i, j) = Lower(j, i) /\ Higher(i, j) = Higher(j, i)
  BY DEF Lower, Higher
<1>2. /\ a.x1 \in Int /\ a.x2 \in Int /\ a.y1 \in Int /\ a.y2 \in Int /\ a.area \in Int
      /\ b.x1 \in Int /\ b.x2 \in Int /\ b.y1 \in Int /\ b.y2 \in Int /\ b.area \in Int
  BY DEF Box
<1>3. Shared(a, b) = Shared(b, a)
  <2>1. /\ Lower(a.x2, b.x2) = Lower(b.x2, a.x2) /\ Higher(a.x1, b.x1) = Higher(b.x1, a.x1)
        /\ Lower(a.y2, b.y2) = Lower(b.y2, a.y2) /\ Higher(a.y1, b.y1) = Higher(b.y1, a.y1)
    BY <1>1, <1>2
  <2>2. QED
    BY <2>1 DEF Shared
<1> DEFINE shared == Shared(a, b)
<1>4. shared \in Int
  <2>1. \A i, j \in Int : Lower(i, j) \in Int /\ Higher(i, j) \in Int /\ i - j + 1 \in Int
                     /\ Higher(0, i) \in Int
    BY DEF Lower, Higher
  <2>2. \A i, j \in Int : i * j \in Int
    OBVIOUS
  <2>3. /\ Higher(0, Lower(a.x2, b.x2) - Higher(a.x1, b.x1) + 1) \in Int
        /\ Higher(0, Lower(a.y2, b.y2) - Higher(a.y1, b.y1) + 1) \in Int
    BY <1>2, <2>1, Zenon
  <2>4. QED
    BY <2>2, <2>3 DEF Shared
<1>5. Divisor(a, b, mode) = Divisor(b, a, mode)
  <2>1. /\ Lower(a.area, b.area) = Lower(b.area, a.area)
        /\ a.area + b.area = b.area + a.area
    BY <1>1, <1>2
  <2>2. CASE mode = "Union"
    <3>1. Divisor(a, b, mode) = a.area + b.area - shared
      BY <2>2 DEF Divisor
    <3>2. Divisor(b, a, mode) = b.area + a.area - shared
      BY <1>3, <2>2 DEF Divisor
    <3>3. QED
      <4> HIDE DEF shared
      <4> QED
        BY <1>2, <1>4, <3>1, <3>2
  <2>3. CASE mode # "Union"
    BY <2>1, <2>3 DEF Divisor
  <2>4. QED
    BY <2>2, <2>3
<1>6. QED
  BY <1>3, <1>5 DEF Overlaps

(* There is a best box, the one the fewest are better than.                *)
LEMMA BestIsBest ==
  ASSUME NEW list \in Seq(Box), NEW S \in SUBSET DOMAIN list, S # {}
  PROVE  /\ BestOf(list, S) \in S
         /\ \A j \in S : list[j].score <= list[BestOf(list, S)].score
<1> DEFINE Le(j, i) == \/ list[j].score < list[i].score
                       \/ (list[j].score = list[i].score /\ j <= i)
           above(i) == {j \in S : ~Le(j, i)}
<1>1. /\ DOMAIN list = 1 .. Len(list) /\ Len(list) \in Nat
      /\ \A i \in DOMAIN list : i \in Int /\ list[i] \in Box
  OBVIOUS
<1>2. \A i \in DOMAIN list : i \in Int /\ list[i].score \in Int
  BY <1>1 DEF Box
<1>3. IsFiniteSet(S)
  <2>1. IsFiniteSet(1 .. Len(list))
    BY <1>1, FS_Interval
  <2>2. QED
    BY <1>1, <2>1, FS_Subset
<1>4. ASSUME NEW i \in S PROVE IsFiniteSet(above(i)) /\ Cardinality(above(i)) \in Nat
  <2>1. above(i) \subseteq S
    OBVIOUS
  <2>2. QED
    <3> HIDE DEF above
    <3> QED
      BY <1>3, <2>1, FS_Subset, FS_CardinalityType
<1>5. PICK i \in S : \A k \in S : Cardinality(above(i)) <= Cardinality(above(k))
  <2> DEFINE T == {Cardinality(above(k)) : k \in S}
  <2>1. T \in SUBSET Nat /\ T # {}
    BY <1>4
  <2>2. PICK n \in T : \A m \in T : n <= m
    <3> HIDE DEF T
    <3> QED
      BY <2>1, Least
  <2>3. QED
    BY <2>2
<1>6. ASSUME NEW k \in S PROVE Le(k, i)
  <2>1. SUFFICES ASSUME ~Le(k, i) PROVE FALSE
    OBVIOUS
  <2>2. above(k) \subseteq above(i)
    BY <1>2, <2>1
  <2>3. k \in above(i) /\ k \notin above(k)
    BY <1>2, <2>1
  <2>4. Cardinality(above(k)) < Cardinality(above(i))
    <3> HIDE DEF above
    <3> QED
      BY <1>4, <2>2, <2>3, FS_Subset
  <2>5. QED
    <3> HIDE DEF above
    <3> QED
      BY <1>4, <1>5, <2>4
<1>7. BestOf(list, S) \in S /\ \A j \in S : Le(j, BestOf(list, S))
  BY <1>6 DEF BestOf
<1>8. QED
  BY <1>2, <1>7

(* One turn of the loop of nms, given what the later turns pick.           *)
PickStep(pick, S, list, percent, mode) ==
  LET last == BestOf(list, S)
      rest == {i \in S : ~Overlaps(list[i], list[last], percent, mode)}
  IN  IF S = {} THEN <<>>
      ELSE IF last \in rest THEN <<0>> ELSE <<last>> \o pick[rest]

LEMMA PicksEquation ==
  ASSUME NEW list \in Seq(Box), NEW percent, NEW mode
  PROVE  \E pick : /\ pick = [S \in SUBSET DOMAIN list |->
                                PickStep(pick, S, list, percent, mode)]
                   /\ Picks(list, percent, mode) = pick[DOMAIN list]
<1> DEFINE I == SUBSET DOMAIN list
           V == Seq(Nat)
           G(g) == [S \in I |-> PickStep(g, S, list, percent, mode)]
           F == [g \in [I -> V] |-> G(g)]
           rank == [S \in I |-> Cardinality(S)]
           Rest(S) == {i \in S : ~Overlaps(list[i], list[BestOf(list, S)], percent, mode)}
<1>1. IsFiniteSet(DOMAIN list) /\ DOMAIN list \subseteq Nat
  BY FS_Interval
<1>2. rank \in [I -> Nat] /\ \A S \in I : IsFiniteSet(S)
  BY <1>1, FS_Subset, FS_CardinalityType
<1>3. ASSUME NEW S \in I, S # {}, BestOf(list, S) \notin Rest(S)
      PROVE  Rest(S) \in I /\ rank[Rest(S)] < rank[S]
  <2>1. BestOf(list, S) \in S
    BY <1>3, BestIsBest
  <2>2. Rest(S) \subseteq S /\ Rest(S) # S
    BY <1>3, <2>1
  <2>3. QED
    <3> HIDE DEF Rest
    <3> QED
      BY <1>2, <2>2, FS_Subset
<1>4. ASSUME NEW g \in [I -> V], NEW S \in I
      PROVE  PickStep(g, S, list, percent, mode) \in V
  <2>1. CASE S = {} \/ BestOf(list, S) \in Rest(S)
    BY <2>1 DEF PickStep
  <2>2. CASE S # {} /\ BestOf(list, S) \notin Rest(S)
    <3>1. BestOf(list, S) \in Nat /\ g[Rest(S)] \in Seq(Nat)
      BY <2>2, <1>1, <1>3, BestIsBest
    <3>2. <<BestOf(list, S)>> \o g[Rest(S)] \in Seq(Nat)
      BY <3>1, ConcatProperties
    <3>3. QED
      BY <2>2, <3>2 DEF PickStep
  <2>3. QED
    BY <2>1, <2>2
<1>5. F \in [[I -> V] -> [I -> V]]
  BY <1>4
<1>6. ASSUME NEW g \in [I -> V], NEW h \in [I -> V], NEW S \in I,
             \A y \in I : rank[y] < rank[S] => g[y] = h[y]
      PROVE  F[g][S] = F[h][S]
  <2>1. PickStep(g, S, list, percent, mode) = PickStep(h, S, list, percent, mode)
    <3>1. CASE S = {} \/ BestOf(list, S) \in Rest(S)
      BY <3>1 DEF PickStep
    <3>2. CASE S # {} /\ BestOf(list, S) \notin Rest(S)
      <4>1. g[Rest(S)] = h[Rest(S)]
        BY <1>3, <1>6, <3>2
      <4>2. QED
        BY <4>1 DEF PickStep
    <3>3. QED
      BY <3>1, <3>2
  <2>2. QED
    BY <2>1
<1>7. \E f \in [I -> V] : f = F[f]
  <2> HIDE DEF F, I, V, rank
  <2>1. V # {}
    <3>1. <<>> \in V
      BY DEF V
    <3>2. QED
      BY <3>1
  <2>2. \A g, h \in [I -> V] : \A S \in I :
          (\A y \in I : rank[y] < rank[S] => g[y] = h[y]) => F[g][S] = F[h][S]
    BY <1>6
  <2>3. rank \in [I -> Nat]
    BY <1>2
  <2>4. F \in [[I -> V] -> [I -> V]]
    BY <1>5
  <2>5. Recursion(I, V, rank, F)
    BY <2>1, <2>2, <2>3, <2>4 DEF Recursion
  <2>6. QED
    BY <2>5, FixedPoint
<1>8. \E f : f = G(f)
  BY <1>7
<1> DEFINE pick == CHOOSE f : f = G(f)
<1>9. pick = G(pick)
  <2> HIDE DEF G
  <2> QED
    BY <1>8
<1>10. Picks(list, percent, mode) = pick[DOMAIN list]
  BY DEF Picks, PickStep
<1>11. QED
  <2> HIDE DEF pick
  <2> QED
    BY <1>9, <1>10

(* What is picked out of S, unless the loop goes round for ever.           *)
PickedFrom(q, S, list, percent, mode) ==
  /\ q \in Seq(S)
  /\ \A i, j \in 1 .. Len(q) :
       i < j => ~Overlaps(list[q[j]], list[q[i]], percent, mode)
  /\ \A s \in S : \E j \in 1 .. Len(q) :
       /\ Overlaps(list[s], list[q[j]], percent, mode)
       /\ list[s].score <= list[q[j]].score

LEMMA PicksSound ==
  ASSUME NEW list \in Seq(Box), NEW percent, NEW mode, ~Endless(list, percent, mode)
  PROVE  PickedFrom(Picks(list, percent, mode), DOMAIN list, list, percent, mode)
<1>1. PICK pick : /\ pick = [S \in SUBSET DOMAIN list |->
                               PickStep(pick, S, list, percent, mode)]
                  /\ Picks(list, percent, mode) = pick[DOMAIN list]
  BY PicksEquation
<1> DEFINE I == SUBSET DOMAIN list
           Over(i, j) == Overlaps(list[i], list[j], percent, mode)
           Sound(S) == 0 \notin Range(pick[S]) => PickedFrom(pick[S], S, list, percent, mode)
           T == {n \in Nat : \A S \in I : Cardinality(S) = n =>
                               pick[S] \in Seq(Nat) /\ Sound(S)}
<1>2. DOMAIN list \subseteq Nat \ {0} /\ \A S \in I : IsFiniteSet(S) /\ Cardinality(S) \in Nat
  <2>1. DOMAIN list = 1 .. Len(list) /\ Len(list) \in Nat
    OBVIOUS
  <2>2. IsFiniteSet(DOMAIN list)
    BY <2>1, FS_Interval
  <2>3. ASSUME NEW S \in I PROVE IsFiniteSet(S) /\ Cardinality(S) \in Nat
    BY <2>2, FS_Subset, FS_CardinalityType
  <2>4. QED
    BY <2>1, <2>3
<1>3. ASSUME NEW n \in Nat, \A m \in Nat : m < n => m \in T,
             NEW S \in I, Cardinality(S) = n
      PROVE  pick[S] \in Seq(Nat) /\ Sound(S)
  <2> DEFINE last == BestOf(list, S)
             rest == {i \in S : ~Over(i, last)}
  <2>1. pick[S] = IF S = {} THEN <<>>
                  ELSE IF last \in rest THEN <<0>> ELSE <<last>> \o pick[rest]
    BY <1>1 DEF PickStep
  <2>2. CASE S = {}
    BY <2>1, <2>2 DEF PickedFrom
  <2>3. CASE S # {} /\ last \in rest
    <3>1. pick[S] = <<0>>
      BY <2>1, <2>3
    <3>2. 0 \in Range(pick[S])
      BY <3>1 DEF Range
    <3>3. QED
      BY <3>1, <3>2
  <2>4. CASE S # {} /\ last \notin rest
    <3> DEFINE p == pick[rest]
               q == <<last>> \o p
    <3>1. last \in S /\ \A j \in S : list[j].score <= list[last].score
      BY <2>4, BestIsBest
    <3>2. rest \subseteq S /\ rest # S
      BY <2>4, <3>1
    <3>3. rest \in I /\ Cardinality(rest) \in Nat /\ Cardinality(rest) < n
      <4> HIDE DEF rest
      <4> QED
        BY <1>2, <1>3, <3>2, FS_Subset
    <3>4. p \in Seq(Nat) /\ Sound(rest)
      BY <1>3, <3>3
    <3>5. /\ q \in Seq(Nat) /\ Len(q) = Len(p) + 1 /\ q[1] = last
          /\ \A i \in 1 .. Len(p) : q[i + 1] = p[i]
          /\ \A i \in 2 .. Len(q) : i - 1 \in 1 .. Len(p) /\ q[i] = p[i - 1]
      <4>1. last \in Nat /\ <<last>> \in Seq(Nat) /\ Len(<<last>>) = 1
        BY <1>2, <3>1
      <4>2. QED
        <5> HIDE DEF p, last
        <5> QED
          BY <3>4, <4>1, ConcatProperties
    <3>6. pick[S] = q
      BY <2>1, <2>4
    <3>7. ASSUME 0 \notin Range(q) PROVE PickedFrom(q, S, list, percent, mode)
      <4> HIDE DEF q, p, last
      <4>1. 0 \notin Range(p)
        <5>1. \A i \in 1 .. Len(p) : i + 1 \in 1 .. Len(q) /\ p[i] = q[i + 1]
          BY <3>4, <3>5
        <5>2. DOMAIN p = 1 .. Len(p) /\ DOMAIN q = 1 .. Len(q)
          BY <3>4, <3>5
        <5>3. QED
          BY <3>7, <5>1, <5>2 DEF Range
      <4>2. PickedFrom(p, rest, list, percent, mode)
        BY <3>4, <4>1 DEF p
      <4>3. q \in Seq(S)
        <5>1. p \in Seq(S)
          <6>1. \A i \in 1 .. Len(p) : p[i] \in S
            BY <3>2, <4>2, ElementOfSeq DEF PickedFrom
          <6>2. p = [i \in 1 .. Len(p) |-> p[i]] /\ Len(p) \in Nat
            BY <3>4
          <6>3. QED
            BY <6>1, <6>2, IsASeq
        <5>2. <<last>> \in Seq(S)
          BY <3>1
        <5>3. QED
          BY <5>1, <5>2, ConcatProperties DEF q
      <4>4. ASSUME NEW i \in 1 .. Len(q), NEW j \in 1 .. Len(q), i < j
            PROVE  ~Over(q[j], q[i])
        <5>1. j - 1 \in 1 .. Len(p) /\ q[j] = p[j - 1]
          BY <4>4, <3>4, <3>5
        <5>2. CASE i = 1
          <6>1. q[j] \in rest
            BY <5>1, <4>2 DEF PickedFrom
          <6>2. QED
            BY <5>2, <6>1, <3>5
        <5>3. CASE i # 1
          <6>1. i - 1 \in 1 .. Len(p) /\ q[i] = p[i - 1] /\ i - 1 < j - 1
            BY <5>3, <4>4, <3>4, <3>5
          <6>2. QED
            BY <5>1, <6>1, <4>2 DEF PickedFrom
        <5>4. QED
          BY <5>2, <5>3
      <4>5. ASSUME NEW s \in S
            PROVE  \E j \in 1 .. Len(q) : Over(s, q[j]) /\ list[s].score <= list[q[j]].score
        <5>1. CASE s \in rest
          <6>1. PICK j \in 1 .. Len(p) : Over(s, p[j]) /\ list[s].score <= list[p[j]].score
            BY <5>1, <4>2 DEF PickedFrom
          <6>2. j + 1 \in 1 .. Len(q) /\ q[j + 1] = p[j]
            BY <3>4, <3>5
          <6>3. QED
            BY <6>1, <6>2
        <5>2. CASE s \notin rest
          <6>1. 1 \in 1 .. Len(q) /\ q[1] = last
            BY <3>4, <3>5
          <6>2. QED
            BY <5>2, <6>1, <3>1
        <5>3. QED
          BY <5>1, <5>2
      <4>6. QED
        BY <4>3, <4>4, <4>5 DEF PickedFrom
    <3>8. QED
      BY <3>5, <3>6, <3>7
  <2>5. QED
    BY <2>2, <2>3, <2>4
<1>4. \A n \in Nat : (\A m \in Nat : m < n => m \in T) => n \in T
  BY <1>3
<1>5. Nat \subseteq T
  <2> HIDE DEF T
  <2> QED
    BY <1>4, Induction
<1>6. DOMAIN list \in I /\ Sound(DOMAIN list)
  BY <1>2, <1>5
<1>7. 0 \notin Range(Picks(list, percent, mode))
  BY DEF Endless
<1>8. QED
  BY <1>1, <1>6, <1>7

LEMMA NmsIsSound ==
  ASSUME NEW list \in Seq(Box), NEW percent, NEW mode, ~Endless(list, percent, mode)
  PROVE  LET after == Nms(list, percent, mode)
         IN  /\ after \in Seq(Box)
             /\ \A i \in DOMAIN after : \E j \in DOMAIN list : after[i] = list[j]
             /\ \A i, j \in DOMAIN after :
                  i # j => ~Overlaps(after[i], after[j], percent, mode)
             /\ \A i \in DOMAIN list : \E j \in DOMAIN after :
                  /\ Overlaps(list[i], after[j], percent, mode)
                  /\ after[j].score >= list[i].score
<1> DEFINE after == Nms(list, percent, mode)
           picks == Picks(list, percent, mode)
           Over(a, b) == Overlaps(a, b, percent, mode)
<1>1. /\ picks \in Seq(DOMAIN list)
      /\ \A i, j \in 1 .. Len(picks) : i < j => ~Over(list[picks[j]], list[picks[i]])
      /\ \A s \in DOMAIN list : \E j \in 1 .. Len(picks) :
           Over(list[s], list[picks[j]]) /\ list[s].score <= list[picks[j]].score
  BY PicksSound DEF PickedFrom
<1>2. \A i \in DOMAIN list : list[i] \in Box /\ list[i].score \in Int
  <2>1. \A i \in DOMAIN list : list[i] \in Box
    OBVIOUS
  <2>2. QED
    BY <2>1 DEF Box
<1> HIDE DEF picks
<1>3. /\ DOMAIN picks = 1 .. Len(picks) /\ Len(picks) \in Nat
      /\ \A i \in 1 .. Len(picks) : picks[i] \in DOMAIN list
  BY <1>1
<1>4. after = [i \in 1 .. Len(picks) |-> list[picks[i]]]
  BY <1>3 DEF Nms, picks
<1>5. after \in Seq(Box)
  BY <1>2, <1>3, <1>4
<1>6. DOMAIN after = 1 .. Len(picks) /\ \A i \in 1 .. Len(picks) : after[i] = list[picks[i]]
  BY <1>4
<1> HIDE DEF after
<1>7. ASSUME NEW i \in DOMAIN after, NEW j \in DOMAIN after, i # j
      PROVE  ~Over(after[i], after[j])
  <2>1. i \in 1 .. Len(picks) /\ j \in 1 .. Len(picks) /\ i \in Int /\ j \in Int
    BY <1>6
  <2>2. /\ after[i] = list[picks[i]] /\ after[j] = list[picks[j]]
        /\ list[picks[i]] \in Box /\ list[picks[j]] \in Box
    BY <2>1, <1>2, <1>3, <1>6
  <2>3. Over(after[i], after[j]) = Over(after[j], after[i])
    BY <2>2, SameOverlap
  <2>4. CASE i < j
    BY <2>1, <2>2, <2>3, <2>4, <1>1
  <2>5. CASE j < i
    BY <2>1, <2>2, <2>5, <1>1
  <2>6. QED
    BY <1>7, <2>1, <2>4, <2>5
<1>8. ASSUME NEW i \in DOMAIN list
      PROVE  \E j \in DOMAIN after : Over(list[i], after[j]) /\ after[j].score >= list[i].score
  <2>1. PICK j \in 1 .. Len(picks) :
          Over(list[i], list[picks[j]]) /\ list[i].score <= list[picks[j]].score
    BY <1>1
  <2>2. list[i].score \in Int /\ list[picks[j]].score \in Int
    BY <1>2, <1>3
  <2>3. QED
    BY <2>1, <2>2, <1>6
<1>9. \A i \in DOMAIN after : \E j \in DOMAIN list : after[i] = list[j]
  BY <1>3, <1>6
<1>10. QED
  BY <1>5, <1>7, <1>8, <1>9 DEF after

-----------------------------------------------------------------------------
(* Detection: the scales.                                                  *)

(* The powers of b, times a: the way the model writes each recursion.      *)
IsPower(p, a, b) == p = CHOOSE g : g = [n \in Nat |-> IF n = 0 THEN a ELSE b * g[n - 1]]

LEMMA Powers ==
  ASSUME NEW a \in Nat \ {0}, NEW b \in Nat \ {0}, NEW p, IsPower(p, a, b)
  PROVE  /\ p \in [Nat -> Nat] /\ p[0] = a
         /\ \A n \in Nat : p[n + 1] = b * p[n] /\ 1 <= p[n]
<1> DEFINE H(g) == [n \in Nat |-> IF n = 0 THEN a ELSE b * g[n - 1]]
           F == [g \in [Nat -> Nat] |-> H(g)]
           rank == [n \in Nat |-> n]
           I == Nat
           V == Nat
<1>1. \A n \in I : n # 0 => n - 1 \in I /\ rank[n - 1] < rank[n]
  OBVIOUS
<1>2. Recursion(I, V, rank, F)
  <2>1. F \in [[I -> V] -> [I -> V]]
    <3>1. ASSUME NEW g \in [Nat -> Nat] PROVE H(g) \in [Nat -> Nat]
      OBVIOUS
    <3>2. QED
      <4> HIDE DEF H
      <4> QED
        BY <3>1
  <2>2. rank \in [I -> Nat] /\ V # {}
    OBVIOUS
  <2>3. ASSUME NEW g \in [I -> V], NEW h \in [I -> V], NEW n \in I,
               \A j \in I : rank[j] < rank[n] => g[j] = h[j]
        PROVE  F[g][n] = F[h][n]
    <3>1. n # 0 => g[n - 1] = h[n - 1]
      BY <1>1, <2>3
    <3>2. QED
      BY <3>1
  <2>4. QED
    <3> HIDE DEF F, I, V, rank
    <3> QED
      BY <2>1, <2>2, <2>3 DEF Recursion
<1>3. \E f \in [I -> V] : f = F[f]
  <2> HIDE DEF F, I, V, rank
  <2> QED
    BY <1>2, FixedPoint
<1>4. PICK f \in [Nat -> Nat] : f = H(f)
  BY <1>3
<1>5. p = CHOOSE g : g = H(g)
  BY DEF IsPower
<1>6. p = H(p)
  <2> HIDE DEF H
  <2> QED
    BY <1>4, <1>5
<1> DEFINE T == {n \in Nat : p[n] \in Nat /\ 1 <= p[n]}
<1>7. ASSUME NEW n \in Nat, \A m \in Nat : m < n => m \in T PROVE n \in T
  <2>1. CASE n = 0
    BY <1>6, <2>1
  <2>2. CASE n # 0
    <3>1. n - 1 \in T
      BY <1>7, <2>2
    <3>2. p[n] = b * p[n - 1]
      BY <1>6, <2>2
    <3>3. QED
      BY <3>1, <3>2
  <2>3. QED
    BY <2>1, <2>2
<1>8. Nat \subseteq T
  <2> HIDE DEF T
  <2> QED
    BY <1>7, Induction
<1>9. DOMAIN p = Nat /\ p = [n \in Nat |-> p[n]]
  BY <1>6
<1>10. p \in [Nat -> Nat] /\ \A n \in Nat : 1 <= p[n]
  BY <1>8, <1>9
<1>11. p[0] = a
  BY <1>6
<1>12. ASSUME NEW n \in Nat PROVE p[n + 1] = b * p[n]
  <2>1. n + 1 \in Nat /\ n + 1 # 0 /\ (n + 1) - 1 = n
    OBVIOUS
  <2>2. QED
    BY <1>6, <2>1
<1>13. QED
  BY <1>10, <1>11, <1>12

LEMMA Scales ==
  ASSUME NEW k \in Nat
  PROVE  /\ ScaleNum[k] \in Nat \ {0} /\ ScaleDen[k] \in Nat \ {0}
         /\ 10 * ScaleNum[k] <= 3 * ScaleDen[k]
<1>1. /\ ScaleNum \in [Nat -> Nat] /\ ScaleNum[0] = 3
      /\ \A n \in Nat : ScaleNum[n + 1] = 709 * ScaleNum[n] /\ 1 <= ScaleNum[n]
  <2>1. ScaleNum = CHOOSE g : g = [n \in Nat |-> IF n = 0 THEN 3 ELSE 709 * g[n - 1]]
    BY DEF ScaleNum
  <2>2. IsPower(ScaleNum, 3, 709)
    BY <2>1 DEF IsPower
  <2>3. QED
    BY <2>2, Powers
<1>2. /\ ScaleDen \in [Nat -> Nat] /\ ScaleDen[0] = 10
      /\ \A n \in Nat : ScaleDen[n + 1] = 1000 * ScaleDen[n] /\ 1 <= ScaleDen[n]
  <2>1. ScaleDen = CHOOSE g : g = [n \in Nat |-> IF n = 0 THEN 10 ELSE 1000 * g[n - 1]]
    BY DEF ScaleDen
  <2>2. IsPower(ScaleDen, 10, 1000)
    BY <2>1 DEF IsPower
  <2>3. QED
    BY <2>2, Powers
<1> DEFINE T == {n \in Nat : 10 * ScaleNum[n] <= 3 * ScaleDen[n]}
<1>3. ASSUME NEW n \in 0 .. k, n < k, n \in T PROVE n + 1 \in T
  <2>1. /\ ScaleNum[n + 1] = 709 * ScaleNum[n] /\ ScaleDen[n + 1] = 1000 * ScaleDen[n]
        /\ ScaleNum[n] \in Nat /\ ScaleDen[n] \in Nat /\ n + 1 \in Nat
        /\ 10 * ScaleNum[n] <= 3 * ScaleDen[n]
    BY <1>1, <1>2, <1>3
  <2>2. 10 * ScaleNum[n + 1] <= 3 * ScaleDen[n + 1]
    BY <2>1
  <2>3. QED
    BY <2>1, <2>2
<1>4. 0 .. k \subseteq T
  <2>1. 0 \in T
    BY <1>1, <1>2
  <2> HIDE DEF T
  <2>2. QED
    BY <2>1, <1>3, StepInduction
<1>5. k \in T
  BY <1>4
<1>6. QED
  BY <1>1, <1>2, <1>5

(* What a quotient rounded down is.                                        *)
LEMMA Quotient ==
  ASSUME NEW a \in Int, NEW d \in Nat \ {0}
  PROVE  a \div d \in Int /\ d * (a \div d) <= a /\ a < d * (a \div d) + d
OBVIOUS

----------------------------------------------------------------------------
(* Detection: boxes stay boxes.                                            *)

Answer == [score : Int, reg : [1 .. 4 -> Int]]

LEMMA CellBoxType ==
  ASSUME NEW row \in Int, NEW col \in Int, NEW k \in Nat, NEW said \in Answer
  PROVE  CellBox(row, col, k, said) \in Box
<1>1. ScaleNum[k] \in Nat \ {0} /\ ScaleDen[k] \in Nat \ {0}
  BY Scales
<1>2. ASSUME NEW i \in Int PROVE Pixel(i, k) \in Int
  <2>1. \A a \in Int, n \in Nat \ {0}, m \in Nat \ {0} : (2 * a * m + n) \in Int /\ 2 * n \in Nat \ {0}
    OBVIOUS
  <2>2. \A a \in Int, n \in Nat \ {0} : a \div n \in Int
    OBVIOUS
  <2>3. QED
    BY <1>1, <2>1, <2>2 DEF Pixel
<1>3. /\ 2 * col + 1 \in Int /\ 2 * col + 13 \in Int
      /\ 2 * row + 1 \in Int /\ 2 * row + 13 \in Int
  OBVIOUS
<1> DEFINE x1 == Pixel(2 * col + 1, k)
           x2 == Pixel(2 * col + 13, k)
           y1 == Pixel(2 * row + 1, k)
           y2 == Pixel(2 * row + 13, k)
<1>4. x1 \in Int /\ x2 \in Int /\ y1 \in Int /\ y2 \in Int
  BY <1>2, <1>3
<1>5. CellBox(row, col, k, said) =
        [x1 |-> x1, y1 |-> y1, x2 |-> x2, y2 |-> y2, score |-> said.score,
         area |-> (x2 - x1) * (y2 - y1), reg |-> said.reg]
  BY DEF CellBox
<1>6. said.score \in Int /\ said.reg \in [1 .. 4 -> Int]
  BY DEF Answer
<1> HIDE DEF x1, x2, y1, y2
<1>7. (x2 - x1) * (y2 - y1) \in Int
  BY <1>4
<1>8. QED
  BY <1>4, <1>5, <1>6, <1>7 DEF Box

(* A box that does not leave the picture p.                                *)
Cut(b, p) == 0 <= b.x1 /\ 0 <= b.y1 /\ b.x2 <= p[1] /\ b.y2 <= p[2]

AllCut(list, p) == \A i \in DOMAIN list : Cut(list[i], p)

LEMMA RefinedType ==
  ASSUME NEW box \in Box, NEW p \in Nat \X Nat
  PROVE  Refined(box, p) \in Box /\ Cut(Refined(box, p), p)
<1> DEFINE bbw == box.x2 - box.x1 + 1
           bbh == box.y2 - box.y1 + 1
           moved(c, i, side) == c * Unit + box.reg[i] * side * (Unit \div 4)
           left == moved(box.x1, 1, bbw)
           top == moved(box.y1, 2, bbh)
           w == moved(box.x2, 3, bbw) - left + Unit
           h == moved(box.y2, 4, bbh) - top + Unit
           maxSide == (Higher(h, w) * 11) \div 10
           x1 == left + w \div 2 - maxSide \div 2
           y1 == top + h \div 2 - maxSide \div 2 + maxSide \div 50
           nx1 == Higher(0, Rounded(x1))
           ny1 == Higher(0, Rounded(y1))
           nx2 == CutHigh(Rounded(x1 + maxSide - Unit), p[1])
           ny2 == CutHigh(Rounded(y1 + maxSide - Unit), p[2])
<1>1. /\ box.x1 \in Int /\ box.x2 \in Int /\ box.y1 \in Int /\ box.y2 \in Int
      /\ box.reg \in [1 .. 4 -> Int] /\ p[1] \in Int /\ p[2] \in Int
  BY DEF Box
<1>2. bbw \in Int /\ bbh \in Int
  BY <1>1
<1>3. ASSUME NEW c \in Int, NEW i \in 1 .. 4, NEW side \in Int
      PROVE  moved(c, i, side) \in Int
  <2>1. box.reg[i] \in Int
    BY <1>1
  <2>2. \A r \in Int : c * 4000 + r * side * (4000 \div 4) \in Int
    OBVIOUS
  <2>3. QED
    BY <2>1, <2>2 DEF Unit
<1>4. left \in Int /\ top \in Int /\ moved(box.x2, 3, bbw) \in Int /\ moved(box.y2, 4, bbh) \in Int
  <2>1. 1 \in 1 .. 4 /\ 2 \in 1 .. 4 /\ 3 \in 1 .. 4 /\ 4 \in 1 .. 4
    OBVIOUS
  <2>2. /\ moved(box.x1, 1, bbw) \in Int /\ moved(box.y1, 2, bbh) \in Int
        /\ moved(box.x2, 3, bbw) \in Int /\ moved(box.y2, 4, bbh) \in Int
    <3> HIDE DEF moved, bbw, bbh
    <3> QED
      BY <2>1, <1>1, <1>2, <1>3
  <2>3. QED
    BY <2>2, Zenon
<1>5. w \in Int /\ h \in Int
  <2> HIDE DEF moved, bbw, bbh, left, top
  <2> QED
    BY <1>4 DEF Unit
<1>6. maxSide \in Int
  <2> HIDE DEF w, h
  <2>1. Higher(h, w) \in Int
    BY <1>5 DEF Higher
  <2>2. \A v \in Int : (v * 11) \div 10 \in Int
    OBVIOUS
  <2>3. QED
    BY <2>1, <2>2
<1>7. x1 \in Int /\ y1 \in Int
  <2> HIDE DEF left, top, w, h, maxSide
  <2>1. \A v \in Int : v \div 2 \in Int /\ v \div 50 \in Int
    OBVIOUS
  <2>2. /\ w \div 2 \in Int /\ h \div 2 \in Int
        /\ maxSide \div 2 \in Int /\ maxSide \div 50 \in Int
    BY <2>1, <1>5, <1>6
  <2>3. QED
    BY <1>4, <2>2
<1>8. \A v \in Int : Rounded(v) \in Int /\ Higher(0, v) \in Int /\ 0 <= Higher(0, v)
  BY DEF Rounded, ToInt, Unit, Higher
<1>9. \A v, u \in Int : CutHigh(v, u) \in Int /\ CutHigh(v, u) <= u
  BY DEF CutHigh
<1>10. /\ nx1 \in Int /\ ny1 \in Int /\ nx2 \in Int /\ ny2 \in Int
       /\ 0 <= nx1 /\ 0 <= ny1 /\ nx2 <= p[1] /\ ny2 <= p[2]
  <2> HIDE DEF x1, y1, maxSide
  <2>1. x1 + maxSide - Unit \in Int /\ y1 + maxSide - Unit \in Int
    BY <1>6, <1>7 DEF Unit
  <2>2. QED
    BY <2>1, <1>1, <1>7, <1>8, <1>9, Zenon
<1>11. Refined(box, p) =
         [box EXCEPT !.x1 = nx1, !.y1 = ny1, !.x2 = nx2, !.y2 = ny2,
                     !.area = (nx2 - nx1) * (ny2 - ny1)]
  BY DEF Refined
<1> HIDE DEF nx1, nx2, ny1, ny2
<1>12. (nx2 - nx1) * (ny2 - ny1) \in Int
  BY <1>10
<1>13. Refined(box, p) \in Box
  BY <1>10, <1>11, <1>12 DEF Box
<1>14. /\ Refined(box, p).x1 = nx1 /\ Refined(box, p).y1 = ny1
       /\ Refined(box, p).x2 = nx2 /\ Refined(box, p).y2 = ny2
  BY <1>11 DEF Box
<1>15. QED
  BY <1>10, <1>13, <1>14 DEF Cut

LEMMA RefineType ==
  ASSUME NEW list \in Seq(Box), NEW p \in Nat \X Nat
  PROVE  Refine(list, p) \in Seq(Box) /\ AllCut(Refine(list, p), p)
<1>1. \A i \in 1 .. Len(list) : Refined(list[i], p) \in Box /\ Cut(Refined(list[i], p), p)
  BY RefinedType
<1>2. Refine(list, p) = [i \in 1 .. Len(list) |-> Refined(list[i], p)] /\ Len(list) \in Nat
  BY DEF Refine
<1>3. QED
  BY <1>1, <1>2 DEF AllCut

(* PNet looks at a scale only if the picture is large enough for it: the   *)
(* score map has rows and columns.                                         *)
LEMMA LevelsAre ==
  ASSUME NEW p \in Pictures
  PROVE  LevelsOf(p) \in Nat /\ \A k \in Nat : k < LevelsOf(p) => ~TooSmall(p, k)
<1> DEFINE small == {k \in 0 .. MaxLevel : TooSmall(p, k)}
<1>1. MaxLevel \in Nat /\ small \in SUBSET Nat /\ small # {}
  BY MaxLevelAssumption
<1>2. PICK least \in small : \A k \in small : least <= k
  <2> HIDE DEF small
  <2> QED
    BY <1>1, Least
<1>3. LevelsOf(p) \in small /\ \A k \in small : k >= LevelsOf(p)
  <2> HIDE DEF small
  <2>1. LevelsOf(p) = CHOOSE x \in small : \A y \in small : x =< y
    BY DEF LevelsOf, Min, small
  <2>2. /\ LevelsOf(p) \in small /\ \A y \in small : LevelsOf(p) <= y
    BY <1>2, <2>1
  <2>3. \A y \in small : y \in Int
    BY <1>1
  <2>4. QED
    BY <2>2, <2>3
<1>4. ASSUME NEW k \in Nat, k < LevelsOf(p) PROVE ~TooSmall(p, k)
  BY <1>1, <1>3, <1>4
<1>5. QED
  BY <1>1, <1>3, <1>4

LEMMA MapNotEmpty ==
  ASSUME NEW p \in Pictures, NEW k \in Nat, k < LevelsOf(p)
  PROVE  MapSize(p[1], k) \in Nat \ {0} /\ MapSize(p[2], k) \in Nat \ {0}
<1> DEFINE min == IF p[1] < p[2] THEN p[1] ELSE p[2]
<1>1. min \in Nat /\ min <= p[1] /\ min <= p[2] /\ p[1] \in Nat /\ p[2] \in Nat
  BY PictureAssumption
<1>2. ScaleNum[k] \in Nat \ {0} /\ ScaleDen[k] \in Nat \ {0}
  BY Scales
<1>3. min * ScaleNum[k] \in Nat /\ min * ScaleNum[k] > 12 * ScaleDen[k]
  <2>1. ~(min * ScaleNum[k] <= 12 * ScaleDen[k])
    BY LevelsAre DEF TooSmall
  <2>2. \A u, v \in Nat : u * v \in Nat
    OBVIOUS
  <2> HIDE DEF min
  <2>3. min * ScaleNum[k] \in Nat
    BY <1>1, <1>2, <2>2
  <2>4. QED
    BY <1>2, <2>1, <2>3
<1>4. ASSUME NEW n \in Nat, min <= n PROVE MapSize(n, k) \in Nat \ {0}
  <2> HIDE DEF min
  <2> DEFINE num == ScaleNum[k]
             den == ScaleDen[k]
             product == n * num
             side == (product + den - 1) \div den
  <2>1. product \in Nat /\ product > 12 * den
    <3>1. \A u, v, c \in Nat : u <= v => u * c <= v * c /\ v * c \in Nat
      OBVIOUS
    <3>2. min * num <= product /\ product \in Nat
      BY <1>1, <1>2, <1>4, <3>1
    <3> HIDE DEF product
    <3>3. QED
      BY <1>2, <1>3, <3>2
  <2>2. MapSize(n, k) = (side - 4 + 1) \div 2 + 1 - 4
    BY DEF MapSize
  <2>3. side \in Int /\ product + den - 1 < den * side + den
    <3> HIDE DEF product
    <3>1. product + den - 1 \in Int /\ den \in Nat \ {0}
      BY <1>2, <2>1
    <3> HIDE DEF den
    <3>2. QED
      BY <3>1, Quotient
  <2>4. den \in Nat \ {0}
    BY <1>2
  <2> HIDE DEF side, product, den
  <2>5. side >= 13
    <3>1. SUFFICES ASSUME side <= 12 PROVE FALSE
      BY <2>3
    <3>2. \A d \in Nat, s \in Int : s <= 12 => d * s <= 12 * d /\ d * s \in Int
      OBVIOUS
    <3>3. den * side <= 12 * den /\ den * side \in Int
      BY <2>3, <2>4, <3>1, <3>2
    <3>4. QED
      BY <2>1, <2>3, <2>4, <3>3
  <2>6. QED
    BY <2>2, <2>3, <2>5
<1>5. QED
  <2> HIDE DEF min
  <2> QED
    BY <1>1, <1>4

LEMMA GenerateType ==
  ASSUME NEW n \in Nat, NEW w \in Nat \ {0}, NEW k \in Nat,
         NEW C \in SUBSET Int, NEW cells \in Increasing(n, C), NEW answers \in [1 .. n -> Answer]
  PROVE  GenerateBbox(cells, answers, w, k) \in Seq(Box)
<1>1. cells \in [1 .. n -> C]
  BY DEF Increasing
<1>2. ASSUME NEW i \in 1 .. n
      PROVE  CellBox(cells[i] \div w, cells[i] % w, k, answers[i]) \in Box
  <2>1. cells[i] \in Int /\ answers[i] \in Answer
    BY <1>1
  <2>2. \A c \in Int : c \div w \in Int /\ c % w \in Int
    OBVIOUS
  <2>3. cells[i] \div w \in Int /\ cells[i] % w \in Int
    BY <2>1, <2>2
  <2>4. QED
    BY <2>1, <2>3, CellBoxType
<1>3. QED
  BY <1>1, <1>2 DEF GenerateBbox

LEMMA KeptType ==
  ASSUME NEW list \in Seq(Box), NEW n \in Nat, NEW kept \in Increasing(n, DOMAIN list),
         NEW verdict \in [1 .. n -> Answer]
  PROVE  Kept(list, kept, verdict) \in Seq(Box)
<1> DEFINE reviewed(b, v) == [b EXCEPT !.score = v.score, !.reg = v.reg,
                                       !.area = (b.x2 - b.x1) * (b.y2 - b.y1)]
<1>1. kept \in [1 .. n -> DOMAIN list]
  BY DEF Increasing
<1>2. ASSUME NEW b \in Box, NEW v \in Answer PROVE reviewed(b, v) \in Box
  <2>1. (b.x2 - b.x1) * (b.y2 - b.y1) \in Int
    BY DEF Box
  <2>2. QED
    BY <2>1 DEF Box, Answer
<1>3. Kept(list, kept, verdict) = [k \in 1 .. n |-> reviewed(list[kept[k]], verdict[k])]
  BY <1>1 DEF Kept
<1> HIDE DEF reviewed
<1>4. \A k \in 1 .. n : list[kept[k]] \in Box /\ verdict[k] \in Answer
  BY <1>1
<1>5. QED
  BY <1>2, <1>3, <1>4

----------------------------------------------------------------------------
(* Detection: the invariant.                                               *)

DetType ==
  /\ picture \in Nat \X Nat
  /\ stage = "pnet" => picture \in Pictures
  /\ level \in Nat
  /\ boxes \in Seq(Box)
  /\ nmsCall.before \in Seq(Box)

(* What of FacesInside does not depend on what the networks answer.        *)
FacesCut == stage \in {"rnet", "onet", "done"} => AllCut(boxes, picture)

DetInv == DetType /\ NmsSound /\ FacesCut

LEMMA Answers ==
  Proposed \subseteq Answer /\ Reviewed \subseteq Answer /\ Decided \subseteq Answer
BY AnswerAssumption DEF Answer

(* A suppression of boxes leaves boxes, the ones it should leave.          *)
LEMMA SuppressInv ==
  ASSUME NEW list \in Seq(Box), NEW earlier \in Seq(Box), NEW percent, NEW mode, NEW next,
         NEW refined \in BOOLEAN, picture \in Nat \X Nat,
         Suppress(list, percent, mode, next, earlier, refined),
         next # "pnet" => earlier = <<>> /\ (refined \/ AllCut(list, picture)),
         picture' = picture
  PROVE  /\ boxes' \in Seq(Box) /\ nmsCall'.before \in Seq(Box) /\ NmsSound' /\ FacesCut'
         /\ stage' \in {"broken", next}
<1>1. CASE Endless(list, percent, mode)
  <2>1. stage' = "broken" /\ boxes' = list
    BY <1>1 DEF Suppress
  <2>2. nmsCall'.before = list
    BY <1>1 DEF Suppress, Call
  <2>3. QED
    BY <2>1, <2>2 DEF NmsSound, FacesCut
<1>2. CASE ~Endless(list, percent, mode)
  <2> DEFINE after == Nms(list, percent, mode)
  <2>1. /\ after \in Seq(Box)
        /\ \A i \in DOMAIN after : \E j \in DOMAIN list : after[i] = list[j]
        /\ \A i, j \in DOMAIN after :
             i # j => ~Overlaps(after[i], after[j], percent, mode)
        /\ \A i \in DOMAIN list : \E j \in DOMAIN after :
             /\ Overlaps(list[i], after[j], percent, mode)
             /\ after[j].score >= list[i].score
    BY <1>2, NmsIsSound
  <2>2. /\ nmsCall' = [before |-> list, after |-> after, percent |-> percent, mode |-> mode]
        /\ boxes' = earlier \o (IF refined THEN Refine(nmsCall'.after, picture)
                                ELSE nmsCall'.after)
        /\ stage' = next
    BY <1>2 DEF Suppress, Call
  <2> HIDE DEF after
  <2>3. /\ nmsCall'.before = list /\ nmsCall'.after = after
        /\ nmsCall'.percent = percent /\ nmsCall'.mode = mode
    BY <2>2
  <2>4. boxes' \in Seq(Box)
    <3>1. Refine(after, picture) \in Seq(Box)
      BY <2>1, RefineType
    <3>2. QED
      BY <2>1, <2>2, <2>3, <3>1, ConcatProperties
  <2>5. NmsSound'
    BY <2>1, <2>3 DEF NmsSound
  <2>6. FacesCut'
    <3>1. CASE next = "pnet"
      BY <2>2, <3>1 DEF FacesCut
    <3>2. CASE next # "pnet"
      <4>1. boxes' = IF refined THEN Refine(after, picture) ELSE after
        <5>1. Refine(after, picture) \in Seq(Box)
          BY <2>1, RefineType
        <5>2. \A s \in Seq(Box) : <<>> \o s = s
          OBVIOUS
        <5>3. QED
          BY <2>1, <2>2, <2>3, <3>2, <5>1, <5>2
      <4>2. CASE refined
        BY <2>1, <4>1, <4>2, RefineType DEF FacesCut
      <4>3. CASE ~refined
        <5>1. AllCut(list, picture) /\ boxes' = after
          BY <3>2, <4>1, <4>3
        <5>2. AllCut(after, picture)
          BY <2>1, <5>1 DEF AllCut
        <5>3. QED
          BY <5>1, <5>2 DEF FacesCut
      <4>4. QED
        BY <4>2, <4>3
    <3>3. QED
      BY <3>1, <3>2
  <2>7. QED
    BY <2>2, <2>3, <2>4, <2>5, <2>6
<1>3. QED
  BY <1>1, <1>2

LEMMA EmptyCall == NoCall.before = <<>> /\ NoCall.after = <<>>
BY DEF NoCall

LEMMA IdleInv == ASSUME DetIdle PROVE DetInv
<1>1. /\ picture \in Nat \X Nat /\ level \in Nat /\ boxes = <<>> /\ nmsCall = NoCall
      /\ DOMAIN boxes = {} /\ stage = "done"
  BY DEF DetIdle
<1>2. nmsCall.before = <<>> /\ nmsCall.after = <<>>
  BY <1>1, EmptyCall
<1>3. DOMAIN nmsCall.before = {} /\ DOMAIN nmsCall.after = {}
  BY <1>2
<1>4. QED
  BY <1>1, <1>2, <1>3 DEF DetInv, DetType, NmsSound, FacesCut, AllCut

LEMMA StartInv == ASSUME DetInit PROVE DetInv
<1>1. /\ picture \in Nat \X Nat /\ level \in Nat /\ boxes = <<>> /\ nmsCall = NoCall
      /\ DOMAIN boxes = {} /\ picture \in Pictures
  BY PictureAssumption DEF DetInit
<1>2. nmsCall.before = <<>> /\ nmsCall.after = <<>>
  BY <1>1, EmptyCall
<1>3. DOMAIN nmsCall.before = {} /\ DOMAIN nmsCall.after = {}
  BY <1>2
<1>4. QED
  BY <1>1, <1>2, <1>3 DEF DetInv, DetType, NmsSound, FacesCut, AllCut

LEMMA DetStepInv == ASSUME DetInv, DetNext PROVE DetInv'
<1>1. /\ picture \in Nat \X Nat /\ level \in Nat /\ boxes \in Seq(Box)
      /\ stage = "pnet" => picture \in Pictures
  BY DEF DetInv, DetType
<1>2. CASE PNet
  <2> DEFINE w == MapSize(picture[1], level)
             h == MapSize(picture[2], level)
  <2>0. PICK n \in 0 .. MaxFound - Len(boxes) :
          \E cells \in Increasing(n, 0 .. w * h - 1), answers \in [1 .. n -> Proposed] :
               /\ Suppress(GenerateBbox(cells, answers, w, level), 50, "Union", "pnet",
                           boxes, FALSE)
               /\ Notes(answers)
    BY <1>2 DEF PNet
  <2>1. PICK cells \in Increasing(n, 0 .. w * h - 1), answers \in [1 .. n -> Proposed] :
               /\ Suppress(GenerateBbox(cells, answers, w, level), 50, "Union", "pnet",
                           boxes, FALSE)
               /\ Notes(answers)
    BY <2>0
  <2>2. picture \in Pictures /\ w \in Nat \ {0} /\ h \in Nat \ {0}
    BY <1>1, <1>2, MapNotEmpty DEF PNet
  <2>3. n \in Nat /\ answers \in [1 .. n -> Answer] /\ cells \in Increasing(n, 0 .. w * h - 1)
    BY Answers, MaxFoundAssumption
  <2> HIDE DEF w, h
  <2>4. GenerateBbox(cells, answers, w, level) \in Seq(Box)
    <3> DEFINE C == 0 .. w * h - 1
    <3>1. C \in SUBSET Int /\ cells \in Increasing(n, C)
      BY <2>3
    <3> HIDE DEF C
    <3>2. QED
      BY <1>1, <2>2, <2>3, <3>1, GenerateType
  <2>5. level' \in Nat /\ picture' = picture
    BY <1>1, <1>2 DEF PNet
  <2>6. /\ boxes' \in Seq(Box) /\ nmsCall'.before \in Seq(Box) /\ NmsSound' /\ FacesCut'
        /\ stage' \in {"broken", "pnet"}
    BY <1>1, <2>1, <2>4, <2>5, SuppressInv
  <2>7. QED
    BY <1>1, <2>2, <2>5, <2>6 DEF DetInv, DetType
<1>3. CASE FirstNms
  <2>1. picture' = picture /\ level' = level
    BY <1>3 DEF FirstNms
  <2>2. CASE boxes = <<>>
    <3>1. stage' = "done" /\ boxes' = boxes /\ nmsCall' = nmsCall /\ stage = "pnet"
      BY <1>3, <2>2 DEF FirstNms
    <3>2. QED
      BY <2>1, <2>2, <3>1 DEF DetInv, DetType, NmsSound, FacesCut, AllCut
  <2>3. CASE boxes # <<>>
    <3>1. Suppress(boxes, 50, "Union", "rnet", <<>>, TRUE)
      BY <1>3, <2>3 DEF FirstNms
    <3>2. <<>> \in Seq(Box)
      OBVIOUS
    <3>3. /\ boxes' \in Seq(Box) /\ nmsCall'.before \in Seq(Box) /\ NmsSound' /\ FacesCut'
          /\ stage' \in {"broken", "rnet"}
      BY <1>1, <2>1, <3>1, <3>2, SuppressInv
    <3>4. QED
      BY <1>1, <2>1, <3>3 DEF DetInv, DetType
  <2>4. QED
    BY <2>2, <2>3
<1>4. CASE RNet
  <2>0. PICK n \in DOMAIN boxes :
          \E kept \in Increasing(n, DOMAIN boxes), verdict \in [1 .. n -> Reviewed] :
               /\ Suppress(Kept(boxes, kept, verdict), 70, "Union", "onet", <<>>, TRUE)
               /\ Notes(verdict)
    BY <1>4 DEF RNet
  <2>1. PICK kept \in Increasing(n, DOMAIN boxes), verdict \in [1 .. n -> Reviewed] :
               /\ Suppress(Kept(boxes, kept, verdict), 70, "Union", "onet", <<>>, TRUE)
               /\ Notes(verdict)
    BY <2>0
  <2>2. n \in Nat /\ verdict \in [1 .. n -> Answer]
    BY <1>1, Answers
  <2>3. Kept(boxes, kept, verdict) \in Seq(Box) /\ <<>> \in Seq(Box)
    BY <1>1, <2>2, KeptType
  <2>4. level' = level /\ picture' = picture
    BY <1>4 DEF RNet
  <2>5. /\ boxes' \in Seq(Box) /\ nmsCall'.before \in Seq(Box) /\ NmsSound' /\ FacesCut'
        /\ stage' \in {"broken", "onet"}
    BY <1>1, <2>1, <2>3, <2>4, SuppressInv
  <2>6. QED
    BY <1>1, <2>4, <2>5 DEF DetInv, DetType
<1>5. CASE ONet
  <2>0. PICK n \in DOMAIN boxes :
          \E kept \in Increasing(n, DOMAIN boxes), verdict \in [1 .. n -> Decided] :
               /\ Suppress(Refine(Kept(boxes, kept, verdict), picture), 70, "Min", "done",
                           <<>>, FALSE)
               /\ Notes(verdict)
    BY <1>5 DEF ONet
  <2>1. PICK kept \in Increasing(n, DOMAIN boxes), verdict \in [1 .. n -> Decided] :
               /\ Suppress(Refine(Kept(boxes, kept, verdict), picture), 70, "Min", "done",
                           <<>>, FALSE)
               /\ Notes(verdict)
    BY <2>0
  <2>2. n \in Nat /\ verdict \in [1 .. n -> Answer]
    BY <1>1, Answers
  <2>3. /\ Refine(Kept(boxes, kept, verdict), picture) \in Seq(Box) /\ <<>> \in Seq(Box)
        /\ AllCut(Refine(Kept(boxes, kept, verdict), picture), picture)
    <3>1. Kept(boxes, kept, verdict) \in Seq(Box) /\ <<>> \in Seq(Box)
      BY <1>1, <2>2, KeptType
    <3>2. QED
      BY <1>1, <3>1, RefineType
  <2>4. level' = level /\ picture' = picture
    BY <1>5 DEF ONet
  <2>5. /\ boxes' \in Seq(Box) /\ nmsCall'.before \in Seq(Box) /\ NmsSound' /\ FacesCut'
        /\ stage' \in {"broken", "done"}
    BY <1>1, <2>1, <2>3, <2>4, SuppressInv
  <2>6. QED
    BY <1>1, <2>4, <2>5 DEF DetInv, DetType
<1>6. CASE NoneKept
  <2>1. /\ boxes' = <<>> /\ picture' = picture /\ level' = level /\ nmsCall' = nmsCall
        /\ stage # "broken" /\ stage' = "done"
    BY <1>6 DEF NoneKept
  <2>2. QED
    BY <2>1 DEF DetInv, DetType, NmsSound, FacesCut, AllCut
<1>7. CASE CutOutside
  <2>1. /\ boxes' = boxes /\ picture' = picture /\ level' = level /\ nmsCall' = nmsCall
        /\ stage' = "broken"
    BY <1>7 DEF CutOutside
  <2>2. QED
    BY <2>1 DEF DetInv, DetType, NmsSound, FacesCut
<1>8. QED
  BY <1>2, <1>3, <1>4, <1>5, <1>6, <1>7 DEF DetNext

LEMMA DetInvariant == Spec => []DetInv
<1>1. Init => DetInv
  BY IdleInv, StartInv DEF Init
<1>2. DetInv /\ [Next]_visionVars => DetInv'
  <2>1. SUFFICES ASSUME DetInv, [Next]_visionVars PROVE DetInv'
    OBVIOUS
  <2>2. CASE DetectStep
    BY <2>1, <2>2, DetStepInv DEF DetectStep
  <2>3. CASE UNCHANGED detVars
    BY <2>1, <2>3 DEF DetInv, DetType, NmsSound, FacesCut, detVars
  <2>4. CASE NetStep \/ RecognizeStep \/ CallStep
    <3>1. UNCHANGED detVars
      BY <2>4 DEF NetStep, RecognizeStep, CallStep
    <3>2. QED
      BY <3>1, <2>3
  <2>5. CASE UNCHANGED visionVars
    <3>1. UNCHANGED detVars
      BY <2>5 DEF visionVars
    <3>2. QED
      BY <3>1, <2>3
  <2>6. QED
    BY <2>1, <2>2, <2>4, <2>5 DEF Next
<1>3. QED
  BY <1>1, <1>2, PTL DEF Spec

(* Whatever pictures come and whatever the networks answer: no two boxes a *)
(* suppression leaves overlap by more than its threshold, and each one it  *)
(* takes out overlaps one that is left and scores at least as high         *)
(* (MTCNN::nms, mtcnn.cpp:87-141).                                         *)
THEOREM SuppressionSound == Spec => []NmsSound
<1>1. DetInv => NmsSound
  BY DEF DetInv
<1>2. QED
  BY <1>1, DetInvariant, PTL

-----------------------------------------------------------------------------
(* Detection: boxes are large enough, as long as no network moved a side   *)
(* by more than a quarter of it.                                           *)

(* Sides from u to v, in a picture of n pixels, that refine leaves at      *)
(* least t of: PNet's, which may stick out, RNet's and ONet's.             *)
Fits(u, v, n, t) ==
  /\ 0 <= u
  /\ \/ t = 18 /\ u + 40 <= v /\ 4 * (v - n) <= (v - u + 1) + 2
     \/ t = 8 /\ u + 18 <= v /\ v <= n
     \/ t = 3 /\ u + 8 <= v /\ v <= n

(* A side of one of PNet's windows.                                        *)
LEMMA WindowFits ==
  ASSUME NEW n \in Nat, NEW k \in Nat, NEW c \in 0 .. MapSize(n, k) - 1
  PROVE  Fits(Pixel(2 * c + 1, k), Pixel(2 * c + 13, k), n, 18)
<1> DEFINE num == ScaleNum[k]
           den == ScaleDen[k]
           side == (n * num + den - 1) \div den
           u == Pixel(2 * c + 1, k)
           v == Pixel(2 * c + 13, k)
<1>1. num \in Nat \ {0} /\ den \in Nat \ {0} /\ 10 * num <= 3 * den
  BY Scales
<1>2. \A i, j \in Int : i * j \in Int
  OBVIOUS
<1> HIDE DEF num, den
<1>3. side \in Int /\ den * side <= n * num + den - 1
  <2>1. n * num + den - 1 \in Int
    BY <1>1, <1>2
  <2>2. QED
    BY <1>1, <2>1, Quotient
<1>4. c \in Nat /\ 2 * c + 11 <= side
  <2>1. MapSize(n, k) = (side - 4 + 1) \div 2 + 1 - 4
    BY DEF MapSize, num, den
  <2> HIDE DEF side
  <2>2. MapSize(n, k) \in Int
    BY <1>3, <2>1
  <2>3. c \in Nat /\ c <= MapSize(n, k) - 1
    BY <2>2
  <2>4. QED
    BY <1>3, <2>1, <2>3
<1> DEFINE cd == c * den
<1>5. /\ cd \in Nat /\ u = (4 * cd + 2 * den + num) \div (2 * num)
      /\ v = (4 * cd + 26 * den + num) \div (2 * num)
  <2>1. cd \in Nat
    BY <1>1, <1>4
  <2>2. /\ 2 * (2 * c + 1) * den = 4 * cd + 2 * den
        /\ 2 * (2 * c + 13) * den = 4 * cd + 26 * den
    BY <1>1, <1>4
  <2>3. u = (2 * (2 * c + 1) * den + num) \div (2 * num)
    BY DEF Pixel, num, den
  <2>4. v = (2 * (2 * c + 13) * den + num) \div (2 * num)
    BY DEF Pixel, num, den
  <2>5. QED
    BY <2>1, <2>2, <2>3, <2>4
<1> HIDE DEF cd, u, v
<1> DEFINE size == 2 * num
           su == size * u
           sv == size * v
<1>6. /\ u \in Int /\ su <= 4 * cd + 2 * den + num /\ 4 * cd + 2 * den + num < su + size
      /\ v \in Int /\ sv <= 4 * cd + 26 * den + num /\ 4 * cd + 26 * den + num < sv + size
  <2>1. size \in Nat \ {0} /\ 4 * cd + 2 * den + num \in Int /\ 4 * cd + 26 * den + num \in Int
    BY <1>1, <1>5
  <2>2. QED
    BY <1>5, <2>1, Quotient
<1>7. size \in Nat \ {0} /\ su \in Int /\ sv \in Int
  <2>1. size \in Nat \ {0}
    BY <1>1
  <2> HIDE DEF size
  <2>2. QED
    BY <1>2, <1>6, <2>1
<1>8. \A s \in Nat \ {0}, z \in Int : s * z > 0 => z > 0
  OBVIOUS
<1>9. 0 <= u
  <2>1. size * (u + 1) = su + size
    <3> HIDE DEF size
    <3> QED
      BY <1>6, <1>7
  <2>2. su + size > 0
    <3> HIDE DEF su
    <3> QED
      BY <1>1, <1>5, <1>6, <1>7
  <2>3. u + 1 > 0
    <3> HIDE DEF size, su
    <3> QED
      BY <1>6, <1>7, <1>8, <2>1, <2>2
  <2>4. QED
    BY <1>6, <2>3
<1>10. u + 40 <= v
  <2>1. size * (v - u - 39) = sv - su - 39 * size
    <3> HIDE DEF size
    <3> QED
      BY <1>6, <1>7
  <2>2. sv - su - 39 * size > 0
    <3> HIDE DEF su, sv
    <3> QED
      BY <1>1, <1>5, <1>6, <1>7
  <2>3. v - u - 39 > 0
    <3> HIDE DEF size, su, sv
    <3> QED
      BY <1>6, <1>7, <1>8, <2>1, <2>2
  <2>4. QED
    BY <1>6, <2>3
<1>11. 4 * (v - n) <= (v - u + 1) + 2
  <2> DEFINE product == n * num
             ds == den * side
  <2>1. /\ product \in Nat /\ ds \in Int /\ ds <= product + den - 1
        /\ 2 * cd + 11 * den <= ds
    <3>1. product \in Nat /\ ds \in Int
      <4> HIDE DEF side
      <4> QED
        BY <1>1, <1>2, <1>3
    <3>2. den * (2 * c + 11) <= ds
      <4>1. \A d \in Nat, i, j \in Int : i <= j => d * i <= d * j
        OBVIOUS
      <4> HIDE DEF side
      <4>2. QED
        BY <1>1, <1>3, <1>4, <4>1
    <3>3. den * (2 * c + 11) = 2 * cd + 11 * den
      BY <1>1, <1>4 DEF cd
    <3>4. QED
      <4> HIDE DEF product, ds
      <4>1. ds <= product + den - 1
        BY <1>3 DEF product, ds
      <4>2. QED
        BY <3>1, <3>2, <3>3, <4>1
  <2>2. size * (4 * n + 2 - 3 * v - u) = 8 * product + 2 * size - 3 * sv - su
    <3>1. \A s, i \in Int : s * (4 * n + 2 - 3 * i - u) = 4 * (s * n) + 2 * s - 3 * (s * i) - s * u
      BY <1>6
    <3>2. size * n = 2 * product
      BY <1>1
    <3>3. size * (4 * n + 2 - 3 * v - u) = 4 * (size * n) + 2 * size - 3 * sv - su
      <4> HIDE DEF size
      <4> QED
        BY <1>6, <1>7, <3>1
    <3>4. QED
      <4> HIDE DEF su, sv, product
      <4> QED
        BY <1>7, <2>1, <3>2, <3>3
  <2>3. 8 * product + 2 * size - 3 * sv - su > 0
    <3> HIDE DEF su, sv, product, ds
    <3> QED
      BY <1>1, <1>5, <1>6, <1>7, <2>1
  <2>4. 4 * n + 2 - 3 * v - u > 0
    <3> HIDE DEF size, su, sv, product
    <3> QED
      BY <1>6, <1>7, <1>8, <2>2, <2>3
  <2>5. QED
    BY <1>6, <2>4
<1>12. QED
  BY <1>9, <1>10, <1>11 DEF Fits, u, v

(* Where refine moves a side to, in its units: the left border no further  *)
(* in than a quarter of the side, the right border likewise.               *)
Moves(u, v, a, b, length, left, w, longest, maxSide, x) ==
  LET middle == left + w \div 2 - maxSide \div 2
  IN  /\ length = v - u + 1
      /\ left = u * 4000 + a * length * 1000
      /\ w = v * 4000 + b * length * 1000 - left + 4000
      /\ maxSide = (longest * 11) \div 10
      /\ x = middle \/ x = middle + maxSide \div 50

LEMMA SideMoves ==
  ASSUME NEW u \in Int, NEW v \in Int, u + 8 <= v, NEW a \in -1 .. 1, NEW b \in -1 .. 1,
         NEW length, NEW left, NEW w, NEW longest \in Int, w <= longest, NEW maxSide, NEW x,
         Moves(u, v, a, b, length, left, w, longest, maxSide, x)
  PROVE  /\ x \in Int /\ maxSide \in Int /\ length \in Int
         /\ x <= 4000 * u + 950 * length
         /\ x + maxSide - 4000 >= 4000 * u + 3050 * length - 4000
         /\ maxSide >= 2200 * length
<1>1. /\ length = v - u + 1
      /\ left = u * 4000 + a * length * 1000
      /\ w = v * 4000 + b * length * 1000 - left + 4000
      /\ maxSide = (longest * 11) \div 10
      /\ \/ x = left + w \div 2 - maxSide \div 2
         \/ x = left + w \div 2 - maxSide \div 2 + maxSide \div 50
  BY DEF Moves
<1>2. length \in Int /\ length >= 9 /\ v = u + length - 1
  BY <1>1
<1>3. a \in {-1, 0, 1} /\ b \in {-1, 0, 1}
  OBVIOUS
<1> DEFINE al == a * length
           bl == b * length
<1>4. al \in {-length, 0, length} /\ bl \in {-length, 0, length}
  <2>1. CASE a = -1
    BY <1>2, <1>3, <2>1
  <2>2. CASE a = 0
    BY <1>2, <1>3, <2>2
  <2>3. CASE a = 1
    BY <1>2, <1>3, <2>3
  <2>4. QED
    BY <1>3, <2>1, <2>2, <2>3
<1>5. left = u * 4000 + al * 1000 /\ w = v * 4000 + bl * 1000 - left + 4000
  BY <1>1
<1> HIDE DEF al, bl
<1>6. left \in Int /\ w \in Int
  BY <1>2, <1>4, <1>5
<1>7. w = 4000 * length + 1000 * bl - 1000 * al
  BY <1>2, <1>4, <1>5
<1>8. w >= 2000 * length
  BY <1>2, <1>4, <1>7
<1>9. maxSide \in Int /\ 10 * maxSide <= 11 * longest /\ 11 * longest < 10 * maxSide + 10
  BY <1>1
<1>10. maxSide >= 2200 * length
  BY <1>2, <1>6, <1>8, <1>9
<1>11. /\ w \div 2 \in Int /\ 2 * (w \div 2) <= w /\ w <= 2 * (w \div 2) + 1
       /\ maxSide \div 2 \in Int /\ 2 * (maxSide \div 2) <= maxSide
       /\ maxSide <= 2 * (maxSide \div 2) + 1
       /\ maxSide \div 50 \in Int /\ 50 * (maxSide \div 50) <= maxSide
       /\ maxSide <= 50 * (maxSide \div 50) + 49
  BY <1>6, <1>9
<1>12. x \in Int
  BY <1>1, <1>6, <1>11
<1>13. /\ 100 * x <= 100 * left + 50 * w - 48 * maxSide + 100
       /\ 2 * x >= 2 * left + w - maxSide - 1
  BY <1>1, <1>2, <1>6, <1>9, <1>10, <1>11, <1>12
<1>14. x <= 4000 * u + 950 * length
  BY <1>2, <1>4, <1>5, <1>6, <1>7, <1>8, <1>9, <1>12, <1>13
<1>15. x + maxSide - 4000 >= 4000 * u + 3050 * length - 4000
  BY <1>2, <1>4, <1>5, <1>6, <1>7, <1>8, <1>9, <1>12, <1>13
<1>16. QED
  BY <1>2, <1>9, <1>10, <1>12, <1>14, <1>15

(* What is left of the side once it is rounded and cut to the picture.     *)
LEMMA SideLeft ==
  ASSUME NEW u \in Int, NEW v \in Int, NEW n \in Nat, NEW t, Fits(u, v, n, t),
         NEW length, length = v - u + 1,
         NEW x \in Int, NEW maxSide \in Int,
         x <= 4000 * u + 950 * length,
         x + maxSide - 4000 >= 4000 * u + 3050 * length - 4000,
         maxSide >= 2200 * length
  PROVE  LET nu == Higher(0, Rounded(x))
             nv == CutHigh(Rounded(x + maxSide - 4000), n)
         IN  0 <= nu /\ nu + t <= nv /\ nv <= n
<1> DEFINE y == x + maxSide - 4000
           rx == (x + 2000) \div 4000
           ry == (y + 2000) \div 4000
<1>1. /\ length \in Int /\ t \in {3, 8, 18} /\ 0 <= u /\ v = u + length - 1
      /\ length >= 9 /\ y \in Int /\ y >= 0
  BY DEF Fits
<1>2. Higher(0, Rounded(x)) = IF x + 2000 < 4000 THEN 0 ELSE rx
  BY DEF Higher, Rounded, ToInt, Unit
<1>3. Rounded(y) = ry
  BY <1>1 DEF Rounded, ToInt, Unit
<1>4. /\ rx \in Int /\ 4000 * rx <= x + 2000 /\ x + 2000 < 4000 * rx + 4000
      /\ ry \in Int /\ 4000 * ry <= y + 2000 /\ y + 2000 < 4000 * ry + 4000
  <2> HIDE DEF y
  <2> QED
    BY <1>1
<1>5. CutHigh(Rounded(y), n) = IF ry > n THEN n - 1 ELSE ry
  BY <1>3 DEF CutHigh
<1> DEFINE nu == IF x + 2000 < 4000 THEN 0 ELSE rx
           nv == IF ry > n THEN n - 1 ELSE ry
<1>6. /\ t = 18 => length >= 41 /\ 4 * (u + length - 1 - n) <= length + 2
      /\ t = 8 => length >= 19 /\ u + length - 1 <= n
      /\ t = 3 => length >= 9 /\ u + length - 1 <= n
  BY <1>1 DEF Fits
<1>7. 0 <= nu /\ nu + t <= nv /\ nv <= n
  <2>1. y = x + maxSide - 4000
    OBVIOUS
  <2> HIDE DEF rx, ry, y
  <2>2. CASE t = 18
    BY <1>1, <1>4, <1>6, <2>1, <2>2
  <2>3. CASE t = 8
    BY <1>1, <1>4, <1>6, <2>1, <2>3
  <2>4. CASE t = 3
    BY <1>1, <1>4, <1>6, <2>1, <2>4
  <2>5. QED
    BY <1>1, <2>2, <2>3, <2>4
<1>8. QED
  BY <1>2, <1>5, <1>7

(* A box both sides of which refine leaves at least t of; a box inside the *)
(* picture that is at least t wide and high; one that is what its area     *)
(* says.                                                                   *)
Roomy(b, p, t) == Fits(b.x1, b.x2, p[1], t) /\ Fits(b.y1, b.y2, p[2], t)

Inside(b, p, t) ==
  /\ 0 <= b.x1 /\ b.x1 + t <= b.x2 /\ b.x2 <= p[1]
  /\ 0 <= b.y1 /\ b.y1 + t <= b.y2 /\ b.y2 <= p[2]

Measured(b) == b.area = (b.x2 - b.x1) * (b.y2 - b.y1)

LEMMA RefinedInside ==
  ASSUME NEW b \in Box, NEW p \in Nat \X Nat, NEW t, Roomy(b, p, t), Gently(b.reg)
  PROVE  Inside(Refined(b, p), p, t) /\ Measured(Refined(b, p))
<1> DEFINE bbw == b.x2 - b.x1 + 1
           bbh == b.y2 - b.y1 + 1
           moved(c, i, side) == c * Unit + b.reg[i] * side * (Unit \div 4)
           left == moved(b.x1, 1, bbw)
           top == moved(b.y1, 2, bbh)
           w == moved(b.x2, 3, bbw) - left + Unit
           h == moved(b.y2, 4, bbh) - top + Unit
           longest == Higher(h, w)
           maxSide == (longest * 11) \div 10
           x1 == left + w \div 2 - maxSide \div 2
           y1 == top + h \div 2 - maxSide \div 2 + maxSide \div 50
           nx1 == Higher(0, Rounded(x1))
           ny1 == Higher(0, Rounded(y1))
           nx2 == CutHigh(Rounded(x1 + maxSide - Unit), p[1])
           ny2 == CutHigh(Rounded(y1 + maxSide - Unit), p[2])
<1>1. /\ b.x1 \in Int /\ b.x2 \in Int /\ b.y1 \in Int /\ b.y2 \in Int
      /\ p[1] \in Nat /\ p[2] \in Nat
  BY DEF Box
<1>2. \A i \in 1 .. 4 : b.reg[i] \in -1 .. 1
  BY DEF Gently
<1>3. /\ b.reg[1] \in -1 .. 1 /\ b.reg[2] \in -1 .. 1
      /\ b.reg[3] \in -1 .. 1 /\ b.reg[4] \in -1 .. 1
  <2>1. 1 \in 1 .. 4 /\ 2 \in 1 .. 4 /\ 3 \in 1 .. 4 /\ 4 \in 1 .. 4
    OBVIOUS
  <2>2. QED
    BY <1>2, <2>1
<1>4. /\ Fits(b.x1, b.x2, p[1], t) /\ Fits(b.y1, b.y2, p[2], t)
      /\ b.x1 + 8 <= b.x2 /\ b.y1 + 8 <= b.y2
  BY <1>1 DEF Roomy, Fits
<1> DEFINE leftward == b.reg[1] * bbw
           upward == b.reg[2] * bbh
           rightward == b.reg[3] * bbw
           downward == b.reg[4] * bbh
<1>5. /\ left = b.x1 * Unit + leftward * (Unit \div 4)
      /\ top = b.y1 * Unit + upward * (Unit \div 4)
  <2>1. left = b.x1 * Unit + leftward * (Unit \div 4)
    BY Zenon
  <2>2. top = b.y1 * Unit + upward * (Unit \div 4)
    BY Zenon
  <2>3. QED
    <3> HIDE DEF left, top
    <3> QED
      BY <2>1, <2>2
<1>6. /\ w = (b.x2 * Unit + rightward * (Unit \div 4)) - left + Unit
      /\ h = (b.y2 * Unit + downward * (Unit \div 4)) - top + Unit
  <2> HIDE DEF left, top
  <2>1. w = (b.x2 * Unit + rightward * (Unit \div 4)) - left + Unit
    BY Zenon
  <2>2. h = (b.y2 * Unit + downward * (Unit \div 4)) - top + Unit
    BY Zenon
  <2>3. QED
    <3> HIDE DEF w, h
    <3> QED
      BY <2>1, <2>2
<1>7. /\ leftward \in Int /\ rightward \in Int /\ upward \in Int /\ downward \in Int
      /\ bbw \in Int /\ bbh \in Int
  <2>1. \A m, n \in Int : m * n \in Int
    OBVIOUS
  <2>2. bbw \in Int /\ bbh \in Int
    BY <1>1
  <2> HIDE DEF bbw, bbh
  <2>3. QED
    BY <1>3, <2>1, <2>2
<1> HIDE DEF left, top, w, h, moved, leftward, rightward, upward, downward
<1>8. /\ left = b.x1 * 4000 + leftward * 1000
      /\ top = b.y1 * 4000 + upward * 1000
      /\ w = b.x2 * 4000 + rightward * 1000 - left + 4000
      /\ h = b.y2 * 4000 + downward * 1000 - top + 4000
  BY <1>1, <1>5, <1>7, <1>6 DEF Unit
<1>9. w \in Int /\ h \in Int
  <2>1. left \in Int /\ top \in Int
    BY <1>1, <1>7, <1>8
  <2>2. QED
    BY <1>1, <1>7, <1>8, <2>1
<1>10. longest \in Int /\ w <= longest /\ h <= longest
  BY <1>9 DEF Higher
<1> HIDE DEF longest
<1>11. /\ x1 \in Int /\ maxSide \in Int
      /\ x1 <= 4000 * b.x1 + 950 * bbw
      /\ x1 + maxSide - 4000 >= 4000 * b.x1 + 3050 * bbw - 4000
      /\ maxSide >= 2200 * bbw
  <2>1. Moves(b.x1, b.x2, b.reg[1], b.reg[3], bbw, left, w, longest, maxSide, x1)
    BY <1>8 DEF Moves, leftward, rightward
  <2> HIDE DEF x1, maxSide, bbw
  <2>2. QED
    BY <1>1, <1>3, <1>4, <1>10, <2>1, SideMoves
<1>12. /\ y1 \in Int
      /\ y1 <= 4000 * b.y1 + 950 * bbh
      /\ y1 + maxSide - 4000 >= 4000 * b.y1 + 3050 * bbh - 4000
      /\ maxSide >= 2200 * bbh
  <2>1. Moves(b.y1, b.y2, b.reg[2], b.reg[4], bbh, top, h, longest, maxSide, y1)
    BY <1>8 DEF Moves, upward, downward
  <2> HIDE DEF y1, maxSide, bbh
  <2>2. QED
    BY <1>1, <1>3, <1>4, <1>10, <2>1, SideMoves
<1> HIDE DEF x1, y1, maxSide
<1>13. 0 <= nx1 /\ nx1 + t <= nx2 /\ nx2 <= p[1]
  BY <1>1, <1>4, <1>11, SideLeft DEF Unit
<1>14. 0 <= ny1 /\ ny1 + t <= ny2 /\ ny2 <= p[2]
  BY <1>1, <1>4, <1>11, <1>12, SideLeft DEF Unit
<1>15. Refined(b, p) =
         [b EXCEPT !.x1 = nx1, !.y1 = ny1, !.x2 = nx2, !.y2 = ny2,
                   !.area = (nx2 - nx1) * (ny2 - ny1)]
  BY DEF Refined, moved, left, top, w, h, longest, maxSide, x1, y1, leftward, rightward, upward, downward
<1> HIDE DEF nx1, nx2, ny1, ny2
<1>16. /\ Refined(b, p).x1 = nx1 /\ Refined(b, p).y1 = ny1
       /\ Refined(b, p).x2 = nx2 /\ Refined(b, p).y2 = ny2
       /\ Refined(b, p).area = (nx2 - nx1) * (ny2 - ny1)
  BY <1>15 DEF Box
<1>17. QED
  BY <1>13, <1>14, <1>16 DEF Inside, Measured

(* A box three pixels wide and high overlaps itself by more than every     *)
(* threshold, so the loop of nms takes it out when it picks it.            *)
Ample(b) == b.x1 + 3 <= b.x2 /\ b.y1 + 3 <= b.y2 /\ Measured(b)

LEMMA SelfOverlap ==
  ASSUME NEW b \in Box, Ample(b), NEW percent \in 0 .. 100, NEW mode
  PROVE  Overlaps(b, b, percent, mode)
<1> DEFINE i == b.x2 - b.x1
           j == b.y2 - b.y1
           area == b.area
           shared == Shared(b, b)
<1>1. /\ b.x1 \in Int /\ b.x2 \in Int /\ b.y1 \in Int /\ b.y2 \in Int
      /\ i \in Int /\ j \in Int /\ i >= 3 /\ j >= 3
  BY DEF Box, Ample
<1>2. shared = (i + 1) * (j + 1)
  <2>1. /\ Lower(b.x2, b.x2) = b.x2 /\ Higher(b.x1, b.x1) = b.x1
        /\ Lower(b.y2, b.y2) = b.y2 /\ Higher(b.y1, b.y1) = b.y1
    BY DEF Lower, Higher
  <2>2. shared = Higher(0, i + 1) * Higher(0, j + 1)
    BY <2>1 DEF Shared
  <2>3. Higher(0, i + 1) = i + 1 /\ Higher(0, j + 1) = j + 1
    BY <1>1 DEF Higher
  <2>4. QED
    BY <2>2, <2>3
<1>3. area = i * j
  BY DEF Ample, Measured
<1> HIDE DEF i, j, area, shared
<1>4. area \in Int /\ shared = area + i + j + 1 /\ area >= 3 * i /\ area >= 3 * j
  <2>1. (i + 1) * (j + 1) = i * j + i + j + 1 /\ i * j \in Int
    BY <1>1
  <2>2. \A m, n \in Int : m >= 3 /\ n >= 3 => m * n >= 3 * m /\ m * n >= 3 * n
    <3>1. \A m, n \in Nat : m >= 3 => m * n >= 3 * n
      OBVIOUS
    <3>2. \A m, n \in Nat : m * n = n * m
      OBVIOUS
    <3>3. QED
      BY <3>1, <3>2
  <2>3. QED
    BY <1>1, <1>2, <1>3, <2>1, <2>2
<1> DEFINE d == Divisor(b, b, mode)
<1>5. d \in Int /\ d > 0 /\ d <= area
  <2>1. CASE mode = "Union"
    <3>1. d = area + area - shared
      BY <2>1 DEF Divisor, area, shared
    <3>2. QED
      <4> HIDE DEF d
      <4> QED
        BY <1>1, <1>4, <3>1
  <2>2. CASE mode # "Union"
    <3>1. d = Lower(area, area)
      BY <2>2 DEF Divisor, area
    <3>2. d = area
      BY <3>1 DEF Lower
    <3>3. QED
      <4> HIDE DEF d
      <4> QED
        BY <1>1, <1>4, <3>2
  <2>3. QED
    BY <2>1, <2>2
<1>6. Overlaps(b, b, percent, mode) = IF d = 0 THEN shared > 0
                                     ELSE d > 0 /\ 100 * shared > percent * d
  BY DEF Overlaps, shared
<1> HIDE DEF d
<1>7. percent * d <= 100 * d
  <2>1. \A m \in 0 .. 100, n \in Nat : m * n <= 100 * n
    OBVIOUS
  <2>2. QED
    BY <1>5, <2>1
<1>8. percent * d \in Int /\ 100 * shared > 100 * d
  <2>1. \A m, n \in Int : m * n \in Int
    OBVIOUS
  <2>2. QED
    BY <1>1, <1>4, <1>5, <2>1
<1>9. shared \in Int
  BY <1>1, <1>4
<1>10. 100 * shared > percent * d
  <2> DEFINE product == percent * d
  <2>1. product \in Int /\ product <= 100 * d
    BY <1>7, <1>8
  <2> HIDE DEF product
  <2>2. 100 * shared > product
    BY <1>5, <1>8, <1>9, <2>1
  <2>3. QED
    BY <2>2 DEF product
<1>11. QED
  <2>1. d # 0
    BY <1>5
  <2>2. QED
    BY <1>5, <1>6, <1>10, <2>1, Zenon

(* If every box overlaps itself, the loop of nms ends.                     *)
LEMMA PicksEnd ==
  ASSUME NEW list \in Seq(Box), NEW percent, NEW mode,
         \A i \in DOMAIN list : Overlaps(list[i], list[i], percent, mode)
  PROVE  ~Endless(list, percent, mode)
<1>1. PICK pick : /\ pick = [S \in SUBSET DOMAIN list |->
                               PickStep(pick, S, list, percent, mode)]
                  /\ Picks(list, percent, mode) = pick[DOMAIN list]
  BY PicksEquation
<1> DEFINE I == SUBSET DOMAIN list
           Ends(s) == s \in Seq(DOMAIN list)
           T == {n \in Nat : \A S \in I : Cardinality(S) = n => Ends(pick[S])}
<1>2. /\ DOMAIN list \subseteq Nat \ {0}
      /\ \A S \in I : IsFiniteSet(S) /\ Cardinality(S) \in Nat
  <2>1. DOMAIN list = 1 .. Len(list) /\ Len(list) \in Nat
    OBVIOUS
  <2>2. IsFiniteSet(DOMAIN list)
    BY <2>1, FS_Interval
  <2>3. ASSUME NEW S \in I PROVE IsFiniteSet(S) /\ Cardinality(S) \in Nat
    BY <2>2, FS_Subset, FS_CardinalityType
  <2>4. QED
    BY <2>1, <2>3
<1>3. ASSUME NEW n \in Nat, \A m \in Nat : m < n => m \in T,
             NEW S \in I, Cardinality(S) = n
      PROVE  Ends(pick[S])
  <2> DEFINE last == BestOf(list, S)
             rest == {i \in S : ~Overlaps(list[i], list[last], percent, mode)}
  <2>1. pick[S] = IF S = {} THEN <<>>
                  ELSE IF last \in rest THEN <<0>> ELSE <<last>> \o pick[rest]
    BY <1>1 DEF PickStep
  <2>2. CASE S = {}
    BY <2>1, <2>2
  <2>3. CASE S # {}
    <3>1. last \in S
      BY <2>3, BestIsBest
    <3>2. last \notin rest
      BY <3>1
    <3>3. rest \in I /\ Cardinality(rest) \in Nat /\ Cardinality(rest) < n
      <4>1. rest \subseteq S /\ rest # S
        BY <3>1, <3>2
      <4> HIDE DEF rest
      <4>2. QED
        BY <1>2, <1>3, <4>1, FS_Subset
    <3>4. Ends(pick[rest])
      BY <1>3, <3>3
    <3>5. pick[S] = <<last>> \o pick[rest]
      BY <2>1, <2>3, <3>2
    <3>6. QED
      <4> HIDE DEF last, rest
      <4>1. <<last>> \in Seq(DOMAIN list)
        BY <3>1
      <4>2. QED
        BY <3>4, <3>5, <4>1, ConcatProperties
  <2>4. QED
    BY <2>2, <2>3
<1>4. Nat \subseteq T
  <2>1. \A n \in Nat : (\A m \in Nat : m < n => m \in T) => n \in T
    BY <1>3
  <2> HIDE DEF T
  <2>2. QED
    BY <2>1, Induction
<1>5. Ends(Picks(list, percent, mode))
  <2>1. DOMAIN list \in I /\ Cardinality(DOMAIN list) \in T
    BY <1>2, <1>4
  <2>2. QED
    BY <1>1, <2>1
<1>6. QED
  <2>1. 0 \notin DOMAIN list
    BY <1>2
  <2>2. QED
    BY <1>5, <2>1 DEF Endless, Range

AllInside(list, p, t) == \A i \in DOMAIN list : Inside(list[i], p, t)

IsPercent(n) == n \in 0 .. 100

LEMMA Percents == IsPercent(50) /\ IsPercent(70)
BY DEF IsPercent

AllAmple(list) == \A i \in DOMAIN list : Ample(list[i])

(* What PNet finds, whatever it answers.                                   *)
Found(b, p) == Roomy(b, p, 18) /\ Measured(b)

Thin(b) == b.x2 < b.x1 + 3 \/ b.y2 < b.y1 + 3

SizeInv ==
  /\ stage = "pnet" => \A i \in DOMAIN boxes : Found(boxes[i], picture)
  /\ stage = "broken" => \E i \in DOMAIN boxes : Thin(boxes[i])
  /\ gentle =>
       /\ stage # "broken"
       /\ stage = "pnet" => \A i \in DOMAIN boxes : Gently(boxes[i].reg)
       /\ stage = "rnet" => AllInside(boxes, picture, 18)
       /\ stage = "onet" => AllInside(boxes, picture, 8)
       /\ stage = "done" => AllInside(boxes, picture, 3)

LEMMA RoomyIsAmple ==
  ASSUME NEW b \in Box, NEW p \in Nat \X Nat, NEW t
  PROVE  /\ Roomy(b, p, t) /\ Measured(b) => Ample(b)
         /\ Inside(b, p, 3) /\ Measured(b) => Ample(b)
         /\ Inside(b, p, 18) => Roomy(b, p, 8)
         /\ Inside(b, p, 8) => Roomy(b, p, 3)
<1>1. /\ b.x1 \in Int /\ b.x2 \in Int /\ b.y1 \in Int /\ b.y2 \in Int
      /\ p[1] \in Nat /\ p[2] \in Nat
  BY DEF Box
<1>2. ASSUME NEW u \in Int, NEW v \in Int, NEW n \in Nat, Fits(u, v, n, t)
      PROVE  u + 3 <= v
  BY <1>2 DEF Fits
<1>3. Roomy(b, p, t) /\ Measured(b) => Ample(b)
  BY <1>1, <1>2 DEF Roomy, Ample
<1>4. Inside(b, p, 3) /\ Measured(b) => Ample(b)
  BY DEF Inside, Ample
<1>5. ASSUME NEW u \in Int, NEW v \in Int, NEW n \in Nat, 0 <= u, v <= n
      PROVE  /\ u + 18 <= v => Fits(u, v, n, 8)
             /\ u + 8 <= v => Fits(u, v, n, 3)
  BY <1>5 DEF Fits
<1>6. Inside(b, p, 18) => Roomy(b, p, 8)
  BY <1>1, <1>5 DEF Inside, Roomy
<1>7. Inside(b, p, 8) => Roomy(b, p, 3)
  BY <1>1, <1>5 DEF Inside, Roomy
<1>8. QED
  BY <1>3, <1>4, <1>6, <1>7

(* A suppression of ample boxes ends; it leaves boxes it was given.        *)
LEMMA SuppressEnds ==
  ASSUME NEW list \in Seq(Box), NEW earlier \in Seq(Box), NEW percent, IsPercent(percent), NEW mode,
         NEW next, NEW refined \in BOOLEAN, picture \in Nat \X Nat,
         AllAmple(list),
         Suppress(list, percent, mode, next, earlier, refined)
  PROVE  /\ stage' = next
         /\ \A i \in DOMAIN boxes' :
              \/ \E j \in DOMAIN earlier : boxes'[i] = earlier[j]
              \/ \E j \in DOMAIN list :
                   boxes'[i] = IF refined THEN Refined(list[j], picture) ELSE list[j]
<1>1. ~Endless(list, percent, mode)
  <2>1. \A i \in DOMAIN list : list[i] \in Box
    OBVIOUS
  <2>2. \A i \in DOMAIN list : Overlaps(list[i], list[i], percent, mode)
    BY <2>1, SelfOverlap DEF AllAmple, IsPercent
  <2>3. QED
    BY <2>2, PicksEnd
<1> DEFINE after == Nms(list, percent, mode)
           left == IF refined THEN Refine(after, picture) ELSE after
<1>2. /\ after \in Seq(Box)
      /\ \A i \in DOMAIN after : \E j \in DOMAIN list : after[i] = list[j]
  BY <1>1, NmsIsSound
<1>3. /\ nmsCall' = [before |-> list, after |-> after, percent |-> percent, mode |-> mode]
      /\ boxes' = earlier \o (IF refined THEN Refine(nmsCall'.after, picture)
                              ELSE nmsCall'.after)
      /\ stage' = next
  BY <1>1 DEF Suppress, Call
<1> HIDE DEF after
<1>4. boxes' = earlier \o left
  BY <1>3
<1>5. /\ left \in Seq(Box)
      /\ \A i \in DOMAIN left : \E j \in DOMAIN list :
           left[i] = IF refined THEN Refined(list[j], picture) ELSE list[j]
  <2>1. CASE ~refined
    BY <1>2, <2>1
  <2>2. CASE refined
    <3>1. left = [i \in DOMAIN after |-> Refined(after[i], picture)]
      BY <2>2 DEF Refine
    <3>2. left \in Seq(Box)
      BY <1>2, <2>2, RefineType
    <3> HIDE DEF left
    <3>3. QED
      BY <1>2, <2>2, <3>1, <3>2
  <2>3. QED
    BY <2>1, <2>2
<1> HIDE DEF left
<1> DEFINE all == earlier \o left
<1>6. /\ DOMAIN all = 1 .. Len(earlier) + Len(left)
      /\ DOMAIN earlier = 1 .. Len(earlier) /\ DOMAIN left = 1 .. Len(left)
      /\ Len(earlier) \in Nat /\ Len(left) \in Nat
      /\ \A i \in DOMAIN all : all[i] = IF i <= Len(earlier) THEN earlier[i]
                                        ELSE left[i - Len(earlier)]
  <2>1. earlier \in Seq(Box) /\ left \in Seq(Box)
    BY <1>5
  <2>2. QED
    BY <2>1, ConcatProperties
<1>7. ASSUME NEW i \in DOMAIN all
      PROVE  \/ \E j \in DOMAIN earlier : all[i] = earlier[j]
             \/ \E j \in DOMAIN left : all[i] = left[j]
  <2> HIDE DEF all
  <2>1. CASE i <= Len(earlier)
    BY <1>6, <2>1
  <2>2. CASE ~(i <= Len(earlier))
    <3>1. i - Len(earlier) \in DOMAIN left /\ all[i] = left[i - Len(earlier)]
      BY <1>6, <2>2
    <3>2. QED
      BY <3>1
  <2>3. QED
    BY <2>1, <2>2
<1>8. boxes' = all
  BY <1>4
<1> HIDE DEF all
<1>9. ASSUME NEW i \in DOMAIN all
      PROVE  \/ \E j \in DOMAIN earlier : all[i] = earlier[j]
             \/ \E j \in DOMAIN list :
                  all[i] = IF refined THEN Refined(list[j], picture) ELSE list[j]
  <2>1. CASE \E j \in DOMAIN left : all[i] = left[j]
    BY <1>5, <2>1
  <2>2. QED
    BY <1>7, <2>1
<1>10. QED
  BY <1>3, <1>8, <1>9, Zenon

(* A suppression that does not end has been given a thin box.              *)
LEMMA SuppressBreaks ==
  ASSUME NEW list \in Seq(Box), NEW earlier \in Seq(Box), NEW percent, IsPercent(percent), NEW mode,
         NEW next, next # "broken", NEW refined \in BOOLEAN, picture \in Nat \X Nat,
         \A i \in DOMAIN list : Measured(list[i]),
         Suppress(list, percent, mode, next, earlier, refined)
  PROVE  /\ stage' \in {next, "broken"}
         /\ stage' = "broken" => \E i \in DOMAIN boxes' : Thin(boxes'[i])
<1>1. CASE AllAmple(list)
  <2>1. stage' = next
    BY <1>1, SuppressEnds
  <2>2. QED
    BY <2>1
<1>2. CASE ~AllAmple(list)
  <2>1. PICK i \in DOMAIN list : ~Ample(list[i])
    BY <1>2 DEF AllAmple
  <2>2. list[i] \in Box /\ Measured(list[i])
    OBVIOUS
  <2>3. Thin(list[i])
    <3>1. /\ list[i].x1 \in Int /\ list[i].x2 \in Int
          /\ list[i].y1 \in Int /\ list[i].y2 \in Int
      BY <2>2 DEF Box
    <3>2. ~(list[i].x1 + 3 <= list[i].x2 /\ list[i].y1 + 3 <= list[i].y2)
      BY <2>1, <2>2 DEF Ample
    <3>3. QED
      BY <3>1, <3>2 DEF Thin
  <2>4. CASE Endless(list, percent, mode)
    <3>1. stage' = "broken" /\ boxes' = list
      BY <2>4 DEF Suppress
    <3>2. QED
      BY <2>3, <3>1
  <2>5. CASE ~Endless(list, percent, mode)
    <3>1. stage' = next
      BY <2>5 DEF Suppress
    <3>2. QED
      BY <3>1
  <2>6. QED
    BY <2>4, <2>5
<1>3. QED
  BY <1>1, <1>2

LEMMA SuppressOnly ==
  ASSUME NEW list \in Seq(Box), NEW earlier \in Seq(Box), NEW percent, IsPercent(percent), NEW mode,
         NEW next, picture \in Nat \X Nat, AllAmple(list),
         Suppress(list, percent, mode, next, earlier, FALSE)
  PROVE  /\ stage' = next
         /\ \A i \in DOMAIN boxes' : \/ \E j \in DOMAIN earlier : boxes'[i] = earlier[j]
                                    \/ \E j \in DOMAIN list : boxes'[i] = list[j]
<1>1. PICK refined \in BOOLEAN : ~refined /\ refined = FALSE
  OBVIOUS
<1>2. Suppress(list, percent, mode, next, earlier, refined)
  BY <1>1
<1>3. /\ stage' = next
      /\ \A i \in DOMAIN boxes' :
           \/ \E j \in DOMAIN earlier : boxes'[i] = earlier[j]
           \/ \E j \in DOMAIN list :
                boxes'[i] = IF refined THEN Refined(list[j], picture) ELSE list[j]
  BY <1>2, SuppressEnds
<1>4. QED
  BY <1>1, <1>3

LEMMA SuppressRefine ==
  ASSUME NEW list \in Seq(Box), NEW percent, IsPercent(percent), NEW mode,
         NEW next, picture \in Nat \X Nat, AllAmple(list),
         Suppress(list, percent, mode, next, <<>>, TRUE)
  PROVE  /\ stage' = next
         /\ \A i \in DOMAIN boxes' : \E j \in DOMAIN list : boxes'[i] = Refined(list[j], picture)
<1>1. PICK refined \in BOOLEAN : refined /\ refined = TRUE
  OBVIOUS
<1>2. SUFFICES ASSUME NEW earlier \in Seq(Box), earlier = <<>>
               PROVE  /\ stage' = next
                      /\ \A i \in DOMAIN boxes' :
                           \E j \in DOMAIN list : boxes'[i] = Refined(list[j], picture)
  <2>1. <<>> \in Seq(Box)
    OBVIOUS
  <2>2. QED
    BY <2>1, Zenon
<1>3. DOMAIN earlier = {}
  BY <1>2
<1>4. Suppress(list, percent, mode, next, earlier, refined)
  BY <1>1, <1>2
<1>5. /\ stage' = next
      /\ \A i \in DOMAIN boxes' :
           \/ \E j \in DOMAIN earlier : boxes'[i] = earlier[j]
           \/ \E j \in DOMAIN list :
                boxes'[i] = IF refined THEN Refined(list[j], picture) ELSE list[j]
  BY <1>4, SuppressEnds
<1>6. QED
  BY <1>1, <1>3, <1>5

LEMMA RefinedMeasured ==
  ASSUME NEW b \in Box, NEW p PROVE Measured(Refined(b, p))
BY DEF Measured, Refined, Box

LEMMA KeptMeasured ==
  ASSUME NEW list \in Seq(Box), NEW n \in Nat, NEW kept \in Increasing(n, DOMAIN list),
         NEW verdict \in [1 .. n -> Answer]
  PROVE  \A i \in DOMAIN Kept(list, kept, verdict) : Measured(Kept(list, kept, verdict)[i])
<1> DEFINE reviewed(b, v) == [b EXCEPT !.score = v.score, !.reg = v.reg,
                                       !.area = (b.x2 - b.x1) * (b.y2 - b.y1)]
<1>1. kept \in [1 .. n -> DOMAIN list]
  BY DEF Increasing
<1>2. ASSUME NEW b \in Box, NEW v \in Answer PROVE Measured(reviewed(b, v))
  BY DEF Box, Measured
<1>3. Kept(list, kept, verdict) = [k \in 1 .. n |-> reviewed(list[kept[k]], verdict[k])]
  BY <1>1 DEF Kept
<1> HIDE DEF reviewed
<1>4. \A k \in 1 .. n : list[kept[k]] \in Box /\ verdict[k] \in Answer
  BY <1>1
<1>5. QED
  BY <1>2, <1>3, <1>4

(* A kept box is where it was, with its area and with the new answer's     *)
(* regressions.                                                            *)
LEMMA KeptAre ==
  ASSUME NEW list \in Seq(Box), NEW n \in Nat, NEW kept \in Increasing(n, DOMAIN list),
         NEW verdict \in [1 .. n -> Answer],
         NEW p \in Nat \X Nat, NEW t, AllInside(list, p, t),
         \A i \in 1 .. n : Gently(verdict[i].reg)
  PROVE  \A i \in DOMAIN Kept(list, kept, verdict) :
           LET b == Kept(list, kept, verdict)[i]
           IN  b \in Box /\ Inside(b, p, t) /\ Measured(b) /\ Gently(b.reg)
<1> DEFINE reviewed(b, v) == [b EXCEPT !.score = v.score, !.reg = v.reg,
                                       !.area = (b.x2 - b.x1) * (b.y2 - b.y1)]
<1>1. kept \in [1 .. n -> DOMAIN list]
  BY DEF Increasing
<1>2. ASSUME NEW b \in Box, NEW v \in Answer, Inside(b, p, t), Gently(v.reg)
      PROVE  /\ Inside(reviewed(b, v), p, t) /\ Measured(reviewed(b, v))
             /\ Gently(reviewed(b, v).reg)
  <2>1. /\ reviewed(b, v).x1 = b.x1 /\ reviewed(b, v).x2 = b.x2
        /\ reviewed(b, v).y1 = b.y1 /\ reviewed(b, v).y2 = b.y2
        /\ reviewed(b, v).area = (b.x2 - b.x1) * (b.y2 - b.y1)
        /\ reviewed(b, v).reg = v.reg
    BY DEF Box
  <2> HIDE DEF reviewed
  <2>2. QED
    BY <1>2, <2>1 DEF Inside, Measured
<1>3. Kept(list, kept, verdict) = [k \in 1 .. n |-> reviewed(list[kept[k]], verdict[k])]
  BY <1>1 DEF Kept
<1> HIDE DEF reviewed
<1>4. ASSUME NEW i \in 1 .. n
      PROVE  /\ list[kept[i]] \in Box /\ verdict[i] \in Answer
             /\ Inside(list[kept[i]], p, t) /\ Gently(verdict[i].reg)
  BY <1>1 DEF AllInside
<1>5. Kept(list, kept, verdict) \in Seq(Box)
  BY KeptType
<1>6. QED
  BY <1>2, <1>3, <1>4, <1>5

LEMMA CellsFound ==
  ASSUME NEW p \in Nat \X Nat, NEW k \in Nat, NEW row \in 0 .. MapSize(p[2], k) - 1,
         NEW col \in 0 .. MapSize(p[1], k) - 1, NEW said \in Answer
  PROVE  Found(CellBox(row, col, k, said), p) /\ CellBox(row, col, k, said).reg = said.reg
<1> DEFINE x1 == Pixel(2 * col + 1, k)
           x2 == Pixel(2 * col + 13, k)
           y1 == Pixel(2 * row + 1, k)
           y2 == Pixel(2 * row + 13, k)
           b == CellBox(row, col, k, said)
<1>1. p[1] \in Nat /\ p[2] \in Nat
  OBVIOUS
<1>2. Fits(x1, x2, p[1], 18) /\ Fits(y1, y2, p[2], 18)
  BY <1>1, WindowFits
<1>3. b = [x1 |-> x1, y1 |-> y1, x2 |-> x2, y2 |-> y2, score |-> said.score,
           area |-> (x2 - x1) * (y2 - y1), reg |-> said.reg]
  BY DEF CellBox
<1> HIDE DEF x1, x2, y1, y2, b
<1>4. /\ b.x1 = x1 /\ b.x2 = x2 /\ b.y1 = y1 /\ b.y2 = y2
      /\ b.area = (x2 - x1) * (y2 - y1) /\ b.reg = said.reg
  BY <1>3
<1>5. QED
  BY <1>2, <1>4 DEF Found, Roomy, Measured, b

(* Every step of detect_face, of a picture and from any answers.           *)
LEMMA SizeStep == ASSUME DetInv, SizeInv, DetNext PROVE SizeInv'
<1>1. /\ picture \in Nat \X Nat /\ level \in Nat /\ boxes \in Seq(Box)
      /\ stage = "pnet" => picture \in Pictures
      /\ \A i \in DOMAIN boxes : boxes[i] \in Box
  BY DEF DetInv, DetType
<1>2. ASSUME NEW a \in Proposed \cup Reviewed \cup Decided
      PROVE  a \in Answer
  BY Answers
<1>3. CASE PNet
  <2> DEFINE w == MapSize(picture[1], level)
             h == MapSize(picture[2], level)
  <2>0. PICK n \in 0 .. MaxFound - Len(boxes) :
          \E cells \in Increasing(n, 0 .. w * h - 1), answers \in [1 .. n -> Proposed] :
               /\ Suppress(GenerateBbox(cells, answers, w, level), 50, "Union", "pnet",
                           boxes, FALSE)
               /\ Notes(answers)
    BY <1>3 DEF PNet
  <2>1. PICK cells \in Increasing(n, 0 .. w * h - 1), answers \in [1 .. n -> Proposed] :
               /\ Suppress(GenerateBbox(cells, answers, w, level), 50, "Union", "pnet",
                           boxes, FALSE)
               /\ Notes(answers)
    BY <2>0
  <2>2. /\ picture \in Pictures /\ stage = "pnet"
        /\ w \in Nat \ {0} /\ h \in Nat \ {0} /\ picture' = picture
    BY <1>1, <1>3, MapNotEmpty DEF PNet
  <2>3. n \in Nat /\ answers \in [1 .. n -> Answer]
    <3>1. n \in Nat
      BY MaxFoundAssumption
    <3>2. \A i \in 1 .. n : answers[i] \in Answer
      BY <1>2
    <3>3. QED
      BY <3>1, <3>2
  <2> DEFINE found == GenerateBbox(cells, answers, w, level)
             C == 0 .. w * h - 1
  <2>4. C \in SUBSET Int /\ cells \in [1 .. n -> C]
    BY DEF Increasing
  <2>5. ASSUME NEW i \in 1 .. n
        PROVE  cells[i] \div w \in 0 .. h - 1 /\ cells[i] % w \in 0 .. w - 1
    <3> HIDE DEF w, h
    <3>1. cells[i] \in Int /\ 0 <= cells[i] /\ cells[i] <= w * h - 1 /\ w * h \in Int
      <4>1. \A u, v \in Nat : u * v \in Int
        OBVIOUS
      <4>2. w * h \in Int
        BY <2>2, <4>1
      <4>3. cells[i] \in C
        BY <2>4
      <4>4. QED
        BY <4>2, <4>3
    <3> DEFINE c == cells[i]
               q == c \div w
    <3>2. q \in Int /\ w * q <= c /\ c < w * q + w /\ c % w \in 0 .. w - 1
      <4> HIDE DEF c
      <4>1. c \in Int
        BY <3>1 DEF c
      <4>2. c \div w \in Int /\ w * (c \div w) <= c /\ c < w * (c \div w) + w
        BY <2>2, <4>1, Quotient
      <4>3. \A v \in Int, d \in Nat \ {0} : v % d \in 0 .. d - 1
        OBVIOUS
      <4>4. QED
        BY <2>2, <4>1, <4>2, <4>3
    <3> HIDE DEF c, q
    <3>3. 0 <= q
      <4>1. \A d \in Nat \ {0}, z \in Int : d * (z + 1) > 0 => z >= 0
        OBVIOUS
      <4>2. w * (q + 1) = w * q + w /\ w * q \in Int
        BY <2>2, <3>2
      <4>3. w * (q + 1) > 0
        BY <2>2, <3>1, <3>2, <4>2 DEF c
      <4>4. QED
        BY <2>2, <3>2, <4>1, <4>3
    <3>4. q < h
      <4>1. \A d \in Nat \ {0}, y, z \in Int : d * y < d * z => y < z
        OBVIOUS
      <4>2. w * q < w * h
        <5>1. \A u, v \in Int : u * v \in Int
          OBVIOUS
        <5>2. w * q \in Int /\ w * h \in Int
          BY <2>2, <3>2, <5>1
        <5>3. QED
          BY <3>1, <3>2, <5>2 DEF c
      <4>3. QED
        BY <2>2, <3>2, <4>1, <4>2
    <3>5. QED
      BY <2>2, <3>2, <3>3, <3>4 DEF c, q
  <2>6. found = [i \in 1 .. n |-> CellBox(cells[i] \div w, cells[i] % w, level, answers[i])]
    BY <2>4 DEF GenerateBbox
  <2>7. ASSUME NEW i \in 1 .. n
        PROVE  Found(found[i], picture) /\ found[i].reg = answers[i].reg
    <3>1. found[i] = CellBox(cells[i] \div w, cells[i] % w, level, answers[i])
      <4> HIDE DEF found
      <4> QED
        BY <2>6
    <3>2. answers[i] \in Answer
      BY <2>3
    <3> DEFINE b == CellBox(cells[i] \div w, cells[i] % w, level, answers[i])
    <3>3. Found(b, picture) /\ b.reg = answers[i].reg
      BY <1>1, <2>5, <3>2, CellsFound
    <3>4. QED
      BY <3>1, <3>3
  <2>8. found \in Seq(Box)
    <3> HIDE DEF C, w
    <3>1. C \in SUBSET Int /\ cells \in Increasing(n, C)
      BY <2>4 DEF C, w
    <3> HIDE DEF found
    <3>2. QED
      BY <1>1, <2>2, <2>3, <3>1, GenerateType DEF found
  <2>9. DOMAIN found = 1 .. n /\ Suppress(found, 50, "Union", "pnet", boxes, FALSE)
    BY <2>1, <2>6
  <2> HIDE DEF found, w, h
  <2>10. \A i \in DOMAIN found : found[i] \in Box /\ Found(found[i], picture) /\ Ample(found[i])
    BY <1>1, <2>7, <2>8, <2>9, RoomyIsAmple DEF Found
  <2>11. AllAmple(found)
    BY <2>10 DEF AllAmple
  <2>12. /\ stage' = "pnet"
         /\ \A i \in DOMAIN boxes' :
              \/ \E j \in DOMAIN boxes : boxes'[i] = boxes[j]
              \/ \E j \in DOMAIN found : boxes'[i] = found[j]
    BY <1>1, <2>8, <2>9, <2>11, SuppressOnly, Percents
  <2>13. \A i \in DOMAIN boxes : Found(boxes[i], picture)
    BY <2>2 DEF SizeInv
  <2>14. \A i \in DOMAIN boxes' : Found(boxes'[i], picture)
    BY <2>10, <2>12, <2>13
  <2>15. ASSUME gentle' PROVE \A i \in DOMAIN boxes' : Gently(boxes'[i].reg)
    <3>1. gentle /\ \A i \in 1 .. n : Gently(answers[i].reg)
      BY <2>1, <2>15 DEF Notes
    <3>2. \A i \in DOMAIN found : Gently(found[i].reg)
      BY <2>7, <2>9, <3>1
    <3>3. \A i \in DOMAIN boxes : Gently(boxes[i].reg)
      BY <2>2, <3>1 DEF SizeInv
    <3>4. QED
      BY <2>12, <3>2, <3>3
  <2>16. QED
    BY <2>2, <2>12, <2>14, <2>15 DEF SizeInv
<1>4. CASE FirstNms
  <2>1. /\ picture' = picture /\ gentle' = gentle /\ stage = "pnet"
        /\ \A i \in DOMAIN boxes : Found(boxes[i], picture)
    BY <1>4 DEF FirstNms, SizeInv
  <2>2. CASE boxes = <<>>
    <3>1. stage' = "done" /\ boxes' = <<>>
      BY <1>4, <2>2 DEF FirstNms
    <3>2. DOMAIN boxes' = {}
      BY <3>1
    <3>3. QED
      BY <3>1, <3>2 DEF SizeInv, AllInside
  <2>3. CASE boxes # <<>>
    <3>1. Suppress(boxes, 50, "Union", "rnet", <<>>, TRUE)
      BY <1>4, <2>3 DEF FirstNms
    <3>2. AllAmple(boxes)
      BY <1>1, <2>1, RoomyIsAmple DEF Found, AllAmple
    <3>3. /\ stage' = "rnet"
          /\ \A i \in DOMAIN boxes' :
               \E j \in DOMAIN boxes : boxes'[i] = Refined(boxes[j], picture)
      BY <1>1, <3>1, <3>2, SuppressRefine, Percents
    <3>4. ASSUME gentle'
          PROVE  \A j \in DOMAIN boxes : Inside(Refined(boxes[j], picture), picture, 18)
      <4>1. \A j \in DOMAIN boxes : Gently(boxes[j].reg)
        BY <2>1, <3>4 DEF SizeInv
      <4>2. QED
        BY <1>1, <2>1, <4>1, RefinedInside DEF Found
    <3>5. gentle' => AllInside(boxes', picture', 18)
      BY <2>1, <3>3, <3>4 DEF AllInside
    <3>6. QED
      BY <3>3, <3>5 DEF SizeInv
  <2>4. QED
    BY <2>2, <2>3
<1>5. CASE RNet
  <2>0. PICK n \in DOMAIN boxes :
          \E kept \in Increasing(n, DOMAIN boxes), verdict \in [1 .. n -> Reviewed] :
               /\ Suppress(Kept(boxes, kept, verdict), 70, "Union", "onet", <<>>, TRUE)
               /\ Notes(verdict)
    BY <1>5 DEF RNet
  <2>1. PICK kept \in Increasing(n, DOMAIN boxes), verdict \in [1 .. n -> Reviewed] :
               /\ Suppress(Kept(boxes, kept, verdict), 70, "Union", "onet", <<>>, TRUE)
               /\ Notes(verdict)
    BY <2>0
  <2>2. n \in Nat /\ verdict \in [1 .. n -> Answer]
    BY <1>1, <1>2
  <2> DEFINE list == Kept(boxes, kept, verdict)
  <2>3. /\ list \in Seq(Box) /\ \A i \in DOMAIN list : list[i] \in Box
        /\ \A i \in DOMAIN list : Measured(list[i])
    <3>1. list \in Seq(Box) /\ \A i \in DOMAIN list : Measured(list[i])
      BY <1>1, <2>2, KeptType, KeptMeasured
    <3> HIDE DEF list
    <3>2. QED
      BY <3>1
  <2>4. picture' = picture /\ stage = "rnet"
    BY <1>5 DEF RNet
  <2>5. Suppress(list, 70, "Union", "onet", <<>>, TRUE)
    BY <2>1
  <2>6. /\ stage' \in {"onet", "broken"}
        /\ stage' = "broken" => \E i \in DOMAIN boxes' : Thin(boxes'[i])
    <3> HIDE DEF list
    <3>1. <<>> \in Seq(Box)
      OBVIOUS
    <3>2. QED
      BY <1>1, <2>3, <2>5, <3>1, SuppressBreaks, Percents
  <2>7. ASSUME gentle' PROVE stage' = "onet" /\ AllInside(boxes', picture', 8)
    <3>1. gentle /\ \A i \in 1 .. n : Gently(verdict[i].reg)
      BY <2>1, <2>7 DEF Notes
    <3>2. AllInside(boxes, picture, 18)
      BY <2>4, <3>1 DEF SizeInv
    <3>3. \A i \in DOMAIN list : Inside(list[i], picture, 18) /\ Gently(list[i].reg)
      BY <1>1, <2>2, <3>1, <3>2, KeptAre
    <3> HIDE DEF list
    <3>4. \A i \in DOMAIN list : Roomy(list[i], picture, 8) /\ Ample(list[i])
      BY <1>1, <2>3, <3>3, RoomyIsAmple
    <3>5. AllAmple(list)
      BY <3>4 DEF AllAmple
    <3>6. /\ stage' = "onet"
          /\ \A i \in DOMAIN boxes' :
               \E j \in DOMAIN list : boxes'[i] = Refined(list[j], picture)
      BY <1>1, <2>3, <2>5, <3>5, SuppressRefine, Percents
    <3>7. \A j \in DOMAIN list : Inside(Refined(list[j], picture), picture, 8)
      BY <1>1, <2>3, <3>3, <3>4, RefinedInside
    <3>8. QED
      BY <2>4, <3>6, <3>7 DEF AllInside
  <2>8. QED
    BY <2>6, <2>7 DEF SizeInv
<1>6. CASE ONet
  <2>0. PICK n \in DOMAIN boxes :
          \E kept \in Increasing(n, DOMAIN boxes), verdict \in [1 .. n -> Decided] :
               /\ Suppress(Refine(Kept(boxes, kept, verdict), picture), 70, "Min", "done",
                           <<>>, FALSE)
               /\ Notes(verdict)
    BY <1>6 DEF ONet
  <2>1. PICK kept \in Increasing(n, DOMAIN boxes), verdict \in [1 .. n -> Decided] :
               /\ Suppress(Refine(Kept(boxes, kept, verdict), picture), 70, "Min", "done",
                           <<>>, FALSE)
               /\ Notes(verdict)
    BY <2>0
  <2>2. n \in Nat /\ verdict \in [1 .. n -> Answer]
    BY <1>1, <1>2
  <2>3. picture' = picture /\ stage = "onet"
    BY <1>6 DEF ONet
  <2> DEFINE list == Kept(boxes, kept, verdict)
             refined == Refine(list, picture)
  <2>4. list \in Seq(Box) /\ refined \in Seq(Box)
    <3>1. list \in Seq(Box)
      BY <1>1, <2>2, KeptType
    <3>2. QED
      BY <1>1, <3>1, RefineType
  <2>5. DOMAIN refined = DOMAIN list /\ \A i \in DOMAIN list : refined[i] = Refined(list[i], picture)
    BY DEF Refine
  <2>6. Suppress(refined, 70, "Min", "done", <<>>, FALSE)
    BY <2>1
  <2>7. /\ \A i \in DOMAIN list : list[i] \in Box
        /\ \A i \in DOMAIN refined : refined[i] \in Box
    <3> HIDE DEF list, refined
    <3> QED
      BY <2>4
  <2>8. \A i \in DOMAIN refined : Measured(refined[i])
    <3> HIDE DEF list, refined
    <3> QED
      BY <2>5, <2>7, RefinedMeasured
  <2>9. /\ stage' \in {"done", "broken"}
        /\ stage' = "broken" => \E i \in DOMAIN boxes' : Thin(boxes'[i])
    <3> HIDE DEF list, refined
    <3>1. <<>> \in Seq(Box)
      OBVIOUS
    <3>2. QED
      BY <1>1, <2>4, <2>6, <2>8, <3>1, SuppressBreaks, Percents
  <2>10. ASSUME gentle' PROVE stage' = "done" /\ AllInside(boxes', picture', 3)
    <3>1. gentle /\ \A i \in 1 .. n : Gently(verdict[i].reg)
      BY <2>1, <2>10 DEF Notes
    <3>2. AllInside(boxes, picture, 8)
      BY <2>3, <3>1 DEF SizeInv
    <3>3. \A i \in DOMAIN list : Inside(list[i], picture, 8) /\ Gently(list[i].reg)
      BY <1>1, <2>2, <3>1, <3>2, KeptAre
    <3> HIDE DEF list, refined
    <3>4. \A i \in DOMAIN refined : Inside(refined[i], picture, 3)
      <4>1. \A i \in DOMAIN list : Roomy(list[i], picture, 3)
        BY <1>1, <2>7, <3>3, RoomyIsAmple
      <4>2. QED
        BY <1>1, <2>5, <2>7, <3>3, <4>1, RefinedInside
    <3>5. AllAmple(refined)
      BY <1>1, <2>7, <2>8, <3>4, RoomyIsAmple DEF AllAmple
    <3>6. SUFFICES ASSUME NEW earlier \in Seq(Box), earlier = <<>>
                   PROVE  stage' = "done" /\ AllInside(boxes', picture', 3)
      <4>1. <<>> \in Seq(Box)
        OBVIOUS
      <4>2. QED
        BY <4>1, Zenon
    <3>7. DOMAIN earlier = {}
      BY <3>6
    <3>8. Suppress(refined, 70, "Min", "done", earlier, FALSE)
      BY <2>6, <3>6
    <3>9. /\ stage' = "done"
          /\ \A i \in DOMAIN boxes' : \/ \E j \in DOMAIN earlier : boxes'[i] = earlier[j]
                                     \/ \E j \in DOMAIN refined : boxes'[i] = refined[j]
      BY <1>1, <2>4, <3>5, <3>8, SuppressOnly, Percents
    <3>10. QED
      BY <2>3, <3>4, <3>7, <3>9 DEF AllInside
  <2>11. QED
    BY <2>9, <2>10 DEF SizeInv
<1>7. CASE NoneKept
  <2>1. stage' = "done" /\ boxes' = <<>>
    BY <1>7 DEF NoneKept
  <2>2. DOMAIN boxes' = {}
    BY <2>1
  <2>3. QED
    BY <2>1, <2>2 DEF SizeInv, AllInside
<1>8. CASE CutOutside
  <2>1. /\ boxes' = boxes /\ picture' = picture /\ stage' = "broken" /\ gentle' = gentle
        /\ stage \in {"rnet", "onet"}
    BY <1>8 DEF CutOutside
  <2>2. PICK i \in DOMAIN boxes : ~Croppable(boxes[i])
    BY <1>8 DEF CutOutside
  <2>3. boxes[i] \in Box
    BY <1>1
  <2>4. Thin(boxes[i])
    BY <2>2, <2>3 DEF Croppable, Thin, Box
  <2>5. ~gentle
    <3>1. \A t \in {8, 18} : ~Inside(boxes[i], picture, t)
      BY <2>3, <2>4 DEF Inside, Thin, Box
    <3>2. QED
      BY <2>1, <3>1 DEF SizeInv, AllInside
  <2>6. QED
    BY <2>1, <2>4, <2>5 DEF SizeInv
<1>9. QED
  BY <1>3, <1>4, <1>5, <1>6, <1>7, <1>8 DEF DetNext

LEMMA SizeIsInside == ASSUME DetInv, SizeInv PROVE FacesInside
<1> DEFINE IsCut == stage \in {"rnet", "onet", "done"}
<1>1. \A i \in DOMAIN boxes : boxes[i] \in Box
  BY DEF DetInv, DetType
<1>2. ASSUME NEW i \in DOMAIN boxes, NEW t \in {3, 8, 18}, Inside(boxes[i], picture, t)
      PROVE  Croppable(boxes[i])
  BY <1>1, <1>2 DEF Inside, Croppable, Box
<1>3. IsCut => \A i \in DOMAIN boxes :
        /\ 0 <= boxes[i].x1 /\ boxes[i].x2 <= picture[1]
        /\ 0 <= boxes[i].y1 /\ boxes[i].y2 <= picture[2]
  BY DEF DetInv, FacesCut, AllCut, Cut
<1>4. stage = "broken" => \E i \in DOMAIN boxes :
        boxes[i].x2 < boxes[i].x1 + 3 \/ boxes[i].y2 < boxes[i].y1 + 3
  BY DEF SizeInv, Thin
<1>5. gentle => stage # "broken" /\ (IsCut => \A i \in DOMAIN boxes : Croppable(boxes[i]))
  BY <1>2 DEF SizeInv, AllInside
<1>6. QED
  BY <1>3, <1>4, <1>5 DEF FacesInside

LEMMA SizeInvariant == Spec => []SizeInv
<1>1. Init => SizeInv
  <2>1. ASSUME DetIdle \/ DetInit PROVE SizeInv
    <3>1. boxes = <<>> /\ stage \in {"pnet", "done"}
      BY <2>1 DEF DetIdle, DetInit
    <3>2. DOMAIN boxes = {}
      BY <3>1
    <3>3. QED
      BY <3>1, <3>2 DEF SizeInv, AllInside
  <2>2. QED
    BY <2>1 DEF Init
<1>2. SizeInv /\ DetInv /\ [Next]_visionVars => SizeInv'
  <2>1. SUFFICES ASSUME SizeInv, DetInv, [Next]_visionVars PROVE SizeInv'
    OBVIOUS
  <2>2. CASE DetectStep
    BY <2>1, <2>2, SizeStep DEF DetectStep
  <2>3. CASE UNCHANGED detVars
    BY <2>1, <2>3 DEF SizeInv, AllInside, detVars
  <2>4. CASE NetStep \/ RecognizeStep \/ CallStep
    <3>1. UNCHANGED detVars
      BY <2>4 DEF NetStep, RecognizeStep, CallStep
    <3>2. QED
      BY <3>1, <2>3
  <2>5. CASE UNCHANGED visionVars
    <3>1. UNCHANGED detVars
      BY <2>5 DEF visionVars
    <3>2. QED
      BY <3>1, <2>3
  <2>6. QED
    BY <2>1, <2>2, <2>4, <2>5 DEF Next
<1>3. QED
  BY <1>1, <1>2, DetInvariant, PTL DEF Spec

(* For every picture and whatever the networks answer: no box that RNet,   *)
(* ONet and at last the recognizer cut out begins before the picture or    *)
(* ends behind it, and only a box less than three pixels wide or high can  *)
(* make a suppression endless or a cut or a scaling leave its source. As   *)
(* long as no answer moved a side by more than a quarter of it, there is   *)
(* no such box: every suppression ends and each box is at least two pixels *)
(* wide and high (MTCNN::generateBbox, nms and refine, mtcnn.cpp:53-196).  *)
THEOREM FacesStayInside == Spec => []FacesInside
<1>1. SizeInv /\ DetInv => FacesInside
  BY SizeIsInside
<1>2. QED
  BY <1>1, SizeInvariant, DetInvariant, PTL

----------------------------------------------------------------------------
(* The networks' engine inside Vision.                                     *)

EngineInv == IF part = "net" THEN NetInv ELSE feats = << >>

LEMMA EngineInvariant == Spec => []EngineInv
<1>1. Init => EngineInv
  BY NetInvInit DEF Init, EngineInv, NetIdle, NetStart
<1>2. EngineInv /\ [Next]_visionVars => EngineInv'
  <2>1. SUFFICES ASSUME EngineInv, [Next]_visionVars PROVE EngineInv'
    OBVIOUS
  <2>2. CASE NetStep
    BY <2>1, <2>2, NetInvStep DEF NetStep, EngineInv
  <2>3. CASE UNCHANGED <<part, netVars>>
    <3>1. part' = part /\ feats' = feats /\ UNCHANGED netVars
      BY <2>3 DEF netVars
    <3>2. QED
      BY <2>1, <3>1, NetInvRests DEF EngineInv
  <2>4. CASE DetectStep \/ RecognizeStep \/ CallStep
    <3>1. UNCHANGED <<part, netVars>>
      BY <2>4 DEF DetectStep, RecognizeStep, CallStep
    <3>2. QED
      BY <3>1, <2>3
  <2>5. CASE UNCHANGED visionVars
    <3>1. UNCHANGED <<part, netVars>>
      BY <2>5 DEF visionVars
    <3>2. QED
      BY <3>1, <2>3
  <2>6. QED
    BY <2>1, <2>2, <2>4, <2>5 DEF Next
<1>3. QED
  BY <1>1, <1>2, PTL DEF Spec

(* For all files as converters write them, with any number of layers and   *)
(* blobs, in all three forms, whatever is extracted in whatever order, in  *)
(* light mode and without: every Mat the caller holds has, and keeps, the  *)
(* value that the lines of the file give its blob, and when the file is    *)
(* good every extraction yields one; buffers that are shared, overwritten  *)
(* in place or thrown away never show (Extractor::extract and              *)
(* Net::forward_layer, net.cpp:543-758).                                   *)
THEOREM ExtractionAgrees == Spec => []ExtractAgrees
<1>1. EngineInv => ExtractAgrees
  <2>1. SUFFICES ASSUME EngineInv PROVE ExtractAgrees
    OBVIOUS
  <2>2. CASE part = "net"
    BY <2>1, <2>2, NetInvAgrees DEF EngineInv
  <2>3. CASE part # "net"
    <3>1. DOMAIN feats = {}
      BY <2>1, <2>3 DEF EngineInv
    <3>2. QED
      BY <3>1 DEF ExtractAgrees
  <2>4. QED
    BY <2>2, <2>3
<1>2. QED
  BY <1>1, EngineInvariant, PTL

----------------------------------------------------------------------------
(* Recognition: loops over the elements of a sequence.                     *)

LoopOf(f, n, v, G) == f = [i \in 0 .. n |-> IF i = 0 THEN v ELSE G[i][f[i - 1]]]

LEMMA Loop ==
  ASSUME NEW n \in Nat, NEW V, NEW v \in V, NEW G \in [1 .. n -> [V -> V]]
  PROVE  \E f \in [0 .. n -> V] : LoopOf(f, n, v, G)
<1> DEFINE I == 0 .. n
           H(g) == [i \in I |-> IF i = 0 THEN v ELSE G[i][g[i - 1]]]
           F == [g \in [I -> V] |-> H(g)]
           rank == [i \in I |-> i]
<1>1. \A i \in I : i # 0 => i \in 1 .. n /\ i - 1 \in I /\ rank[i - 1] < rank[i]
  OBVIOUS
<1>2. ASSUME NEW g \in [I -> V] PROVE H(g) \in [I -> V]
  <2>1. ASSUME NEW i \in I, i # 0 PROVE G[i][g[i - 1]] \in V
    <3>1. G[i] \in [V -> V] /\ g[i - 1] \in V
      BY <1>1, <2>1
    <3>2. QED
      BY <3>1
  <2>2. QED
    BY <2>1
<1>3. Recursion(I, V, rank, F)
  <2>1. F \in [[I -> V] -> [I -> V]]
    BY <1>2
  <2>2. rank \in [I -> Nat] /\ V # {}
    OBVIOUS
  <2>3. ASSUME NEW g \in [I -> V], NEW h \in [I -> V], NEW i \in I,
               \A j \in I : rank[j] < rank[i] => g[j] = h[j]
        PROVE  F[g][i] = F[h][i]
    <3>1. i # 0 => g[i - 1] = h[i - 1]
      BY <1>1, <2>3
    <3>2. QED
      BY <3>1
  <2>4. QED
    <3> HIDE DEF F, I, rank
    <3> QED
      BY <2>1, <2>2, <2>3 DEF Recursion
<1>4. \E f \in [I -> V] : f = F[f]
  <2> HIDE DEF F, I, rank
  <2> QED
    BY <1>3, FixedPoint
<1>5. QED
  BY <1>4 DEF LoopOf

(* The sum of the squares as its loop computes it.                         *)
Sums(d, n, s) ==
  s \in [0 .. n -> Int] /\ s[0] = 0 /\ \A i \in 1 .. n : s[i] = s[i - 1] + d[i]

AddsUp(d, n, s) == s = [i \in 0 .. n |-> IF i = 0 THEN 0 ELSE s[i - 1] + d[i]]

LEMMA SumExists ==
  ASSUME NEW n \in Nat, NEW d \in [1 .. n -> Int]
  PROVE  \E s : Sums(d, n, s) /\ AddsUp(d, n, s)
<1> DEFINE G == [i \in 1 .. n |-> [x \in Int |-> x + d[i]]]
<1>1. G \in [1 .. n -> [Int -> Int]]
  OBVIOUS
<1>2. PICK f \in [0 .. n -> Int] : f = [i \in 0 .. n |-> IF i = 0 THEN 0 ELSE G[i][f[i - 1]]]
  <2> DEFINE V == Int
             v == 0
  <2>1. v \in V /\ G \in [1 .. n -> [V -> V]]
    BY <1>1
  <2> HIDE DEF G, V, v
  <2>2. \E f \in [0 .. n -> V] : LoopOf(f, n, v, G)
    BY <2>1, Loop
  <2>3. QED
    BY <2>2 DEF LoopOf, V, v
<1>3. ASSUME NEW i \in 0 .. n PROVE f[i] = IF i = 0 THEN 0 ELSE f[i - 1] + d[i]
  <2>1. CASE i = 0
    BY <1>2, <2>1
  <2>2. CASE i # 0
    <3>1. i \in 1 .. n /\ i - 1 \in 0 .. n
      BY <2>2
    <3>2. f[i] = G[i][f[i - 1]] /\ f[i - 1] \in Int
      <4> HIDE DEF G
      <4> QED
        BY <1>2, <2>2, <3>1
    <3>3. QED
      BY <2>2, <3>1, <3>2
  <2>3. QED
    BY <2>1, <2>2
<1>4. f = [i \in 0 .. n |-> IF i = 0 THEN 0 ELSE f[i - 1] + d[i]]
  BY <1>3
<1>5. f[0] = 0 /\ \A i \in 1 .. n : f[i] = f[i - 1] + d[i]
  BY <1>3
<1> HIDE DEF G
<1>6. QED
  BY <1>2, <1>4, <1>5 DEF Sums, AddsUp

LEMMA SumIsOne ==
  ASSUME NEW n \in Nat, NEW d \in [1 .. n -> Int], NEW s, NEW t, Sums(d, n, s), AddsUp(d, n, t)
  PROVE  t[n] = s[n]
<1> DEFINE T == {i \in 0 .. n : t[i] = s[i]}
<1>1. 0 \in T
  BY DEF Sums, AddsUp
<1>2. ASSUME NEW i \in 0 .. n, i < n, i \in T PROVE i + 1 \in T
  <2>1. i + 1 \in 1 .. n /\ (i + 1) - 1 = i /\ i + 1 \in 0 .. n
    BY <1>2
  <2>2. QED
    BY <1>2, <2>1 DEF Sums, AddsUp
<1>3. 0 .. n \subseteq T
  <2> HIDE DEF T
  <2> QED
    BY <1>1, <1>2, StepInduction
<1>4. QED
  BY <1>3

Differ(a, b, n) == [i \in 1 .. n |-> (a[i] - b[i]) * (a[i] - b[i])]

LEMMA SquaredIs ==
  ASSUME NEW a, NEW b, NEW n \in Nat, Len(a) = n,
         a \in [1 .. n -> Int], b \in [1 .. n -> Int]
  PROVE  \E s : Sums(Differ(a, b, n), n, s) /\ Squared(a, b) = s[n]
<1> DEFINE d == Differ(a, b, n)
           H(s) == [i \in 0 .. n |-> IF i = 0 THEN 0 ELSE s[i - 1] + (a[i] - b[i]) * (a[i] - b[i])]
<1>1. d \in [1 .. n -> Int] /\ \A i \in 1 .. n : d[i] = (a[i] - b[i]) * (a[i] - b[i])
  BY DEF Differ
<1> HIDE DEF d
<1>2. PICK s : Sums(d, n, s) /\ AddsUp(d, n, s)
  BY <1>1, SumExists
<1>3. ASSUME NEW f
      PROVE  H(f) = [i \in 0 .. n |-> IF i = 0 THEN 0 ELSE f[i - 1] + d[i]]
  <2>1. \A i \in 0 .. n : i # 0 => i \in 1 .. n
    OBVIOUS
  <2>2. QED
    BY <1>1, <2>1
<1>4. s = H(s)
  <2> HIDE DEF H
  <2> QED
    BY <1>2, <1>3 DEF AddsUp
<1> DEFINE t == CHOOSE f : f = H(f)
<1>5. t = H(t)
  <2> HIDE DEF H
  <2> QED
    BY <1>4
<1>6. Squared(a, b) = t[n]
  BY DEF Squared
<1> HIDE DEF t
<1>7. AddsUp(d, n, t)
  <2> HIDE DEF H
  <2> QED
    BY <1>3, <1>5 DEF AddsUp
<1>8. t[n] = s[n]
  <2> HIDE DEF H
  <2>1. d \in [1 .. n -> Int] /\ Sums(d, n, s)
    BY <1>1, <1>2
  <2>2. QED
    BY <2>1, <1>7, SumIsOne
<1>9. QED
  BY <1>2, <1>6, <1>8 DEF d

----------------------------------------------------------------------------
(* The triangle inequality over whole numbers, from Cauchy and Schwarz'.   *)

LEMMA Monotone ==
  ASSUME NEW x \in Int, NEW y \in Int, NEW z \in Int, x <= y, 0 <= z
  PROVE  x * z <= y * z
<1>1. 0 <= (y - x) * z
  OBVIOUS
<1>2. QED
  BY <1>1

LEMMA SmallerSquare ==
  ASSUME NEW x \in Int, NEW y \in Int, 0 <= y, x * x <= y * y
  PROVE  x <= y
<1>1. SUFFICES ASSUME y < x PROVE FALSE
  OBVIOUS
<1>2. 0 < (x - y) * (x + y)
  <2>1. 0 < x - y /\ 0 < x + y
    BY <1>1
  <2>2. \A u, v \in Int : 0 < u /\ 0 < v => 0 < u * v
    OBVIOUS
  <2>3. QED
    BY <2>1, <2>2
<1>3. QED
  BY <1>2

LEMMA CauchyStep ==
  ASSUME NEW p \in Int, NEW a \in Int, NEW b \in Int, NEW x \in Int, NEW y \in Int,
         0 <= a, 0 <= b, p * p <= a * b
  PROVE  (p + x * y) * (p + x * y) <= (a + x * x) * (b + y * y)
<1> DEFINE u == a * (y * y)
           v == b * (x * x)
           w == p * (x * y)
           q == (x * y) * (x * y)
<1>1. u \in Int /\ v \in Int /\ w \in Int /\ q \in Int
  OBVIOUS
<1>2. 0 <= u /\ 0 <= v /\ 0 <= q
  <2>1. \A s \in Int : 0 <= s * s
    OBVIOUS
  <2>2. 0 <= x * x /\ 0 <= y * y /\ 0 <= q
    BY <2>1
  <2>3. \A s, t \in Int : 0 <= s /\ 0 <= t => 0 <= s * t
    OBVIOUS
  <2>4. QED
    BY <2>2, <2>3
<1>3. w * w <= u * v
  <2>1. (p * p) * q <= (a * b) * q
    <3>1. p * p \in Int /\ a * b \in Int
      OBVIOUS
    <3> HIDE DEF q
    <3>2. QED
      BY <1>1, <1>2, <3>1, Monotone
  <2>2. w * w = (p * p) * q
    OBVIOUS
  <2>3. u * v = (a * b) * q
    OBVIOUS
  <2>4. QED
    BY <2>1, <2>2, <2>3
<1>4. 2 * w <= u + v
  <2> HIDE DEF u, v, w, q
  <2>1. 4 * (u * v) <= (u + v) * (u + v)
    <3>1. 0 <= (u - v) * (u - v)
      BY <1>1
    <3>2. (u + v) * (u + v) = (u - v) * (u - v) + 4 * (u * v)
      BY <1>1
    <3>3. QED
      BY <1>1, <3>1, <3>2
  <2>2. (2 * w) * (2 * w) <= (u + v) * (u + v)
    BY <1>1, <1>3, <2>1
  <2>3. QED
    BY <1>1, <1>2, <2>2, SmallerSquare
<1>5. (p + x * y) * (p + x * y) = p * p + 2 * w + q
  OBVIOUS
<1>6. (a + x * x) * (b + y * y) = a * b + (u + v) + q
  OBVIOUS
<1> HIDE DEF u, v, w, q
<1>7. QED
  BY <1>1, <1>4, <1>5, <1>6

(* a and b are sums of squares, p of products.                             *)
LEMMA Third ==
  ASSUME NEW p \in Int, NEW a \in Int, NEW b \in Int, NEW m \in Int, NEW k \in Int,
         0 <= a, 0 <= b, p * p <= a * b, a < m * m, b <= k * k, 0 <= m, 0 <= k
  PROVE  a + 2 * p + b < (m + k) * (m + k)
<1>1. m * m \in Int /\ k * k \in Int /\ 0 <= m * m /\ 0 <= k * k /\ m * k \in Int /\ 0 <= m * k
  OBVIOUS
<1>2. a * b <= (m * m) * b
  BY <1>1, Monotone
<1>3. b * (m * m) <= (k * k) * (m * m)
  <2> DEFINE s == m * m
             t == k * k
  <2>1. s \in Int /\ t \in Int /\ 0 <= s /\ b <= t
    BY <1>1
  <2> HIDE DEF s, t
  <2>2. b * s <= t * s
    BY <2>1, Monotone
  <2>3. QED
    BY <2>2 DEF s, t
<1>4. (m * m) * b = b * (m * m)
  OBVIOUS
<1>5. (k * k) * (m * m) = (m * k) * (m * k)
  OBVIOUS
<1>6. p * p <= (m * k) * (m * k)
  BY <1>2, <1>3, <1>4, <1>5
<1>7. p <= m * k
  <2> DEFINE s == m * k
  <2>1. s \in Int /\ 0 <= s /\ p * p <= s * s
    BY <1>1, <1>6
  <2> HIDE DEF s
  <2>2. p <= s
    BY <2>1, SmallerSquare
  <2>3. QED
    BY <2>2 DEF s
<1>8. (m + k) * (m + k) = m * m + 2 * (m * k) + k * k
  OBVIOUS
<1>9. QED
  BY <1>1, <1>7, <1>8

Vectors(n) == {v \in Seq(Int) : Len(v) = n}

LEMMA VectorSums ==
  ASSUME NEW n \in Nat, NEW a \in Vectors(n), NEW b \in Vectors(n)
  PROVE  /\ a \in [1 .. n -> Int] /\ b \in [1 .. n -> Int] /\ Len(a) = n
         /\ \E s : Sums(Differ(a, b, n), n, s) /\ Squared(a, b) = s[n]
<1>1. a \in [1 .. n -> Int] /\ b \in [1 .. n -> Int] /\ Len(a) = n
  BY DEF Vectors
<1>2. QED
  BY <1>1, SquaredIs

LEMMA SquaredFacts ==
  ASSUME NEW n \in Nat, NEW a \in Vectors(n), NEW b \in Vectors(n)
  PROVE  Squared(a, b) \in Nat /\ Squared(a, b) = Squared(b, a)
<1>1. a \in [1 .. n -> Int] /\ b \in [1 .. n -> Int]
  BY VectorSums
<1>2. PICK s : Sums(Differ(a, b, n), n, s) /\ Squared(a, b) = s[n]
  BY VectorSums
<1>3. PICK t : Sums(Differ(b, a, n), n, t) /\ Squared(b, a) = t[n]
  BY VectorSums
<1> DEFINE T == {i \in 0 .. n : s[i] = t[i] /\ 0 <= s[i]}
<1>4. 0 \in T
  BY <1>2, <1>3 DEF Sums
<1>5. ASSUME NEW i \in 0 .. n, i < n, i \in T PROVE i + 1 \in T
  <2>1. i + 1 \in 1 .. n /\ (i + 1) - 1 = i /\ i + 1 \in 0 .. n
    BY <1>5
  <2>2. a[i + 1] \in Int /\ b[i + 1] \in Int
    BY <1>1, <2>1
  <2>3. /\ s[i + 1] = s[i] + (a[i + 1] - b[i + 1]) * (a[i + 1] - b[i + 1])
        /\ t[i + 1] = t[i] + (b[i + 1] - a[i + 1]) * (b[i + 1] - a[i + 1])
        /\ s[i] \in Int /\ t[i] \in Int
    BY <1>2, <1>3, <2>1 DEF Sums, Differ
  <2>4. \A u, v \in Int : (u - v) * (u - v) = (v - u) * (v - u) /\ 0 <= (u - v) * (u - v)
    OBVIOUS
  <2>5. QED
    BY <1>5, <2>1, <2>2, <2>3, <2>4
<1>6. 0 .. n \subseteq T
  <2> HIDE DEF T
  <2> QED
    BY <1>4, <1>5, StepInduction
<1>7. s[n] = t[n] /\ 0 <= s[n] /\ s[n] \in Int
  BY <1>2, <1>6 DEF Sums
<1>8. QED
  BY <1>2, <1>3, <1>7

LEMMA Triangle ==
  ASSUME NEW n \in Nat, NEW x \in Vectors(n), NEW y \in Vectors(n), NEW z \in Vectors(n),
         NEW m \in Nat, NEW k \in Nat, Squared(x, z) < m * m, Squared(x, y) <= k * k
  PROVE  Squared(y, z) < (m + k) * (m + k)
<1>1. x \in [1 .. n -> Int] /\ y \in [1 .. n -> Int] /\ z \in [1 .. n -> Int]
  BY VectorSums
<1>2. PICK a : Sums(Differ(x, z, n), n, a) /\ Squared(x, z) = a[n]
  BY VectorSums
<1>3. PICK b : Sums(Differ(x, y, n), n, b) /\ Squared(x, y) = b[n]
  BY VectorSums
<1>4. PICK c : Sums(Differ(y, z, n), n, c) /\ Squared(y, z) = c[n]
  BY VectorSums
<1> DEFINE d == [i \in 1 .. n |-> (x[i] - z[i]) * (y[i] - x[i])]
<1>5. d \in [1 .. n -> Int] /\ \A i \in 1 .. n : d[i] = (x[i] - z[i]) * (y[i] - x[i])
  BY <1>1
<1> HIDE DEF d
<1>6. PICK p : Sums(d, n, p)
  BY <1>5, SumExists
<1> DEFINE T == {i \in 0 .. n : /\ 0 <= a[i] /\ 0 <= b[i] /\ p[i] * p[i] <= a[i] * b[i]
                                /\ c[i] = a[i] + 2 * p[i] + b[i]}
<1>7. 0 \in T
  BY <1>2, <1>3, <1>4, <1>6 DEF Sums
<1>8. ASSUME NEW i \in 0 .. n, i < n, i \in T PROVE i + 1 \in T
  <2>1. i + 1 \in 1 .. n /\ (i + 1) - 1 = i /\ i + 1 \in 0 .. n
    BY <1>8
  <2> DEFINE u == x[i + 1] - z[i + 1]
             v == y[i + 1] - x[i + 1]
  <2>2. x[i + 1] \in Int /\ y[i + 1] \in Int /\ z[i + 1] \in Int /\ u \in Int /\ v \in Int
    BY <1>1, <2>1
  <2>3. /\ a[i] \in Int /\ b[i] \in Int /\ c[i] \in Int /\ p[i] \in Int
        /\ a[i + 1] = a[i] + u * u /\ p[i + 1] = p[i] + u * v
    BY <1>2, <1>3, <1>4, <1>5, <1>6, <2>1 DEF Sums, Differ
  <2>4. /\ b[i + 1] = b[i] + (x[i + 1] - y[i + 1]) * (x[i + 1] - y[i + 1])
        /\ c[i + 1] = c[i] + (y[i + 1] - z[i + 1]) * (y[i + 1] - z[i + 1])
    BY <1>3, <1>4, <2>1 DEF Sums, Differ
  <2>5. /\ (x[i + 1] - y[i + 1]) * (x[i + 1] - y[i + 1]) = v * v
        /\ (y[i + 1] - z[i + 1]) * (y[i + 1] - z[i + 1]) = u * u + 2 * (u * v) + v * v
    BY <2>2
  <2> HIDE DEF u, v
  <2>6. 0 <= u * u /\ 0 <= v * v /\ u * u \in Int /\ v * v \in Int /\ u * v \in Int
    BY <2>2
  <2>7. 0 <= a[i] /\ 0 <= b[i] /\ p[i] * p[i] <= a[i] * b[i] /\ c[i] = a[i] + 2 * p[i] + b[i]
    BY <1>8
  <2>8. p[i + 1] * p[i + 1] <= a[i + 1] * b[i + 1]
    <3>1. (p[i] + u * v) * (p[i] + u * v) <= (a[i] + u * u) * (b[i] + v * v)
      BY <2>2, <2>3, <2>7, CauchyStep
    <3>2. QED
      BY <2>3, <2>4, <2>5, <3>1
  <2>9. c[i + 1] = a[i + 1] + 2 * p[i + 1] + b[i + 1]
    BY <2>3, <2>4, <2>5, <2>6, <2>7
  <2>10. 0 <= a[i + 1] /\ 0 <= b[i + 1]
    BY <2>3, <2>4, <2>5, <2>6, <2>7
  <2>11. QED
    BY <2>1, <2>8, <2>9, <2>10
<1>9. 0 .. n \subseteq T
  <2> HIDE DEF T
  <2> QED
    BY <1>7, <1>8, StepInduction
<1>10. /\ 0 <= a[n] /\ 0 <= b[n] /\ p[n] * p[n] <= a[n] * b[n]
       /\ c[n] = a[n] + 2 * p[n] + b[n]
       /\ a[n] \in Int /\ b[n] \in Int /\ p[n] \in Int
  BY <1>2, <1>3, <1>6, <1>9 DEF Sums
<1>11. a[n] + 2 * p[n] + b[n] < (m + k) * (m + k)
  <2> DEFINE A == a[n]
             B == b[n]
             P == p[n]
  <2>1. /\ A \in Int /\ B \in Int /\ P \in Int /\ m \in Int /\ k \in Int
        /\ 0 <= A /\ 0 <= B /\ P * P <= A * B /\ A < m * m /\ B <= k * k /\ 0 <= m /\ 0 <= k
    BY <1>2, <1>3, <1>10
  <2> HIDE DEF A, B, P
  <2>2. A + 2 * P + B < (m + k) * (m + k)
    BY <2>1, Third
  <2>3. QED
    BY <2>2 DEF A, B, P
<1>12. QED
  BY <1>4, <1>10, <1>11

----------------------------------------------------------------------------
(* What the digits of the text move a number and a vector by.              *)

LEMMA TensAre ==
  /\ Tens \in [Nat -> Nat] /\ Tens[0] = 1
  /\ \A n \in Nat : Tens[n + 1] = 10 * Tens[n] /\ 1 <= Tens[n]
<1>1. Tens = CHOOSE g : g = [n \in Nat |-> IF n = 0 THEN 1 ELSE 10 * g[n - 1]]
  BY DEF Tens
<1>2. IsPower(Tens, 1, 10)
  BY <1>1 DEF IsPower
<1>3. QED
  BY <1>2, Powers

LEMMA TensSmall ==
  Tens[1] = 10 /\ Tens[2] = 100 /\ Tens[3] = 1000
<1>1. Tens[0] = 1 /\ \A n \in Nat : Tens[n + 1] = 10 * Tens[n]
  BY TensAre
<1>2. Tens[0 + 1] = 10 * Tens[0] /\ Tens[1 + 1] = 10 * Tens[1] /\ Tens[2 + 1] = 10 * Tens[2]
  BY <1>1
<1>3. QED
  BY <1>1, <1>2

LEMMA TensProduct ==
  ASSUME NEW m \in Nat, NEW n \in Nat
  PROVE  Tens[m + n] = Tens[m] * Tens[n]
<1> DEFINE T == {i \in Nat : Tens[m + i] = Tens[m] * Tens[i]}
<1>1. 0 \in T
  <2>1. Tens[0] = 1 /\ Tens[m] \in Nat /\ m + 0 = m
    BY TensAre
  <2>2. QED
    BY <2>1
<1>2. ASSUME NEW i \in 0 .. n, i < n, i \in T PROVE i + 1 \in T
  <2>1. /\ Tens[(m + i) + 1] = 10 * Tens[m + i] /\ Tens[i + 1] = 10 * Tens[i]
        /\ Tens[m] \in Nat /\ Tens[i] \in Nat
    BY TensAre
  <2>2. Tens[m + i] = Tens[m] * Tens[i] /\ (m + i) + 1 = m + (i + 1)
    BY <1>2
  <2>3. \A u, v \in Nat : 10 * (u * v) = u * (10 * v)
    OBVIOUS
  <2>4. Tens[m + (i + 1)] = Tens[m] * Tens[i + 1]
    BY <2>1, <2>2, <2>3
  <2>5. QED
    BY <2>4
<1>3. 0 .. n \subseteq T
  <2> HIDE DEF T
  <2> QED
    BY <1>1, <1>2, StepInduction
<1>4. QED
  BY <1>3

LEMMA Rounding ==
  ASSUME NEW a \in Nat, NEW g \in {1, 10, 100, 1000}, NEW r, r = ((a + g \div 2) \div g) * g
  PROVE  r \in Nat /\ (g = 1 => r = a) /\ 2 * (r - a) <= g /\ 2 * (a - r) <= g
<1>1. CASE g = 1
  BY <1>1
<1>2. CASE g = 10
  BY <1>2
<1>3. CASE g = 100
  BY <1>3
<1>4. CASE g = 1000
  BY <1>4
<1>5. QED
  BY <1>1, <1>2, <1>3, <1>4

Grains == 2 * Tens[Digits - 1]

LEMMA DecimalNear ==
  ASSUME NEW v \in Int, -One <= v, v <= One
  PROVE  /\ Decimal(v) \in Int
         /\ (Grains * Grains) * ((v - Decimal(v)) * (v - Decimal(v))) <= v * v
<1> DEFINE a == IF v < 0 THEN -v ELSE v
           fits(n) == a < Tens[Digits + n] /\ (n = 0 \/ a >= Tens[Digits + n - 1])
           spare == CHOOSE n \in 0 .. 3 : fits(n)
           near == ((a + Tens[spare] \div 2) \div Tens[spare]) * Tens[spare]
<1>1. a \in Nat /\ a <= 1000 /\ Digits \in Nat /\ 1 <= Digits
  BY DigitsAssumption DEF One
<1>2. Decimal(v) = IF v < 0 THEN -near ELSE near
  BY DEF Decimal
<1> HIDE DEF a
<1>3. Tens \in [Nat -> Nat] /\ (\A n \in Nat : Tens[n] >= 1 /\ Tens[n + 1] = 10 * Tens[n])
  BY TensAre
<1>4. a < Tens[Digits + 3]
  <2>1. Digits - 1 \in Nat /\ (Digits - 1) + 1 = Digits /\ Digits + 3 = 3 + Digits /\ 3 \in Nat
    BY <1>1
  <2>2. Tens[3 + Digits] = Tens[3] * Tens[Digits]
    BY <1>1, <2>1, TensProduct
  <2>3. Tens[Digits] = 10 * Tens[Digits - 1] /\ Tens[Digits - 1] >= 1 /\ Tens[Digits - 1] \in Nat
    <3>1. Tens[(Digits - 1) + 1] = 10 * Tens[Digits - 1]
      BY <1>3, <2>1
    <3>2. QED
      BY <1>3, <2>1, <3>1
  <2>4. Tens[3 + Digits] >= 10000
    BY <2>2, <2>3, TensSmall
  <2>5. Tens[Digits + 3] = Tens[3 + Digits] /\ Tens[3 + Digits] \in Nat
    BY <1>1, <1>3, <2>1
  <2>6. QED
    BY <1>1, <2>4, <2>5
<1>5. spare \in 0 .. 3 /\ fits(spare)
  <2> DEFINE S == {n \in Nat : a < Tens[Digits + n]}
  <2>1. S \in SUBSET Nat /\ S # {} /\ 3 \in S
    BY <1>4
  <2>2. PICK n \in S : \A m \in S : n <= m
    <3> HIDE DEF S
    <3> QED
      BY <2>1, Least
  <2>3. n \in 0 .. 3
    BY <2>1, <2>2
  <2>4. n = 0 \/ a >= Tens[Digits + n - 1]
    <3>1. SUFFICES ASSUME n # 0 PROVE a >= Tens[Digits + (n - 1)]
      BY <1>1, <2>3
    <3>2. n - 1 \in Nat /\ n - 1 \notin S
      BY <2>2, <3>1
    <3>3. Digits + (n - 1) \in Nat
      BY <1>1, <3>2
    <3>4. Tens[Digits + (n - 1)] \in Nat
      BY <1>3, <3>3
    <3>5. QED
      BY <1>1, <3>2, <3>4
  <2>5. fits(n)
    BY <2>2, <2>4
  <2> HIDE DEF fits
  <2>6. QED
    BY <2>3, <2>5
<1> DEFINE g == Tens[spare]
           c == Tens[Digits - 1]
<1>6. g \in {1, 10, 100, 1000} /\ (spare = 0 <=> g = 1)
  <2> HIDE DEF spare
  <2>1. spare = 0 \/ spare = 1 \/ spare = 2 \/ spare = 3
    BY <1>5
  <2>2. QED
    BY <2>1, TensSmall, TensAre
<1>7. near \in Nat /\ (g = 1 => near = a) /\ 2 * (near - a) <= g /\ 2 * (a - near) <= g
  <2>1. near = ((a + g \div 2) \div g) * g
    OBVIOUS
  <2>2. a \in Nat /\ g \in {1, 10, 100, 1000}
    BY <1>1, <1>6
  <2> HIDE DEF near, g
  <2>3. QED
    BY <2>1, <2>2, Rounding
<1>8. c \in Nat /\ c >= 1
  BY <1>1, <1>3
<1>9. spare # 0 => g * c <= a
  <2>1. SUFFICES ASSUME spare # 0 PROVE g * c <= a
    OBVIOUS
  <2> HIDE DEF spare
  <2>2. spare \in Nat /\ Digits - 1 \in Nat /\ Digits + spare - 1 = spare + (Digits - 1)
    BY <1>1, <1>5
  <2>3. a >= Tens[spare + (Digits - 1)]
    BY <1>5, <2>1, <2>2
  <2>4. Tens[spare + (Digits - 1)] = Tens[spare] * Tens[Digits - 1]
    BY <2>2, TensProduct
  <2>5. QED
    BY <2>3, <2>4
<1> DEFINE e == near - a
<1>10. e \in Int /\ (spare = 0 => e = 0) /\ 2 * e <= g /\ -(2 * e) <= g
  BY <1>1, <1>6, <1>7
<1>11. (v - Decimal(v)) * (v - Decimal(v)) = e * e /\ Decimal(v) \in Int
  <2> HIDE DEF near, spare
  <2>1. CASE v < 0
    <3>1. a = -v /\ Decimal(v) = -near
      BY <1>2, <2>1 DEF a
    <3>2. v - Decimal(v) = e /\ Decimal(v) \in Int
      BY <1>7, <3>1
    <3>3. QED
      BY <1>10, <3>2
  <2>2. CASE ~(v < 0)
    <3>1. a = v /\ Decimal(v) = near
      BY <1>2, <2>2 DEF a
    <3>2. v - Decimal(v) = -e /\ Decimal(v) \in Int
      BY <1>7, <3>1
    <3>3. (-e) * (-e) = e * e
      BY <1>10
    <3>4. QED
      BY <3>2, <3>3
  <2>3. QED
    BY <2>1, <2>2
<1>12. a * a = v * v
  BY DEF a
<1> HIDE DEF near, spare, g, c, e
<1>13. (2 * c) * e <= a /\ -((2 * c) * e) <= a
  <2>1. CASE spare = 0
    BY <1>1, <1>8, <1>10, <2>1
  <2>2. CASE spare # 0
    <3>1. g \in Int /\ g * c <= a
      BY <1>6, <1>9, <2>2
    <3>2. (2 * e) * c <= g * c /\ (-(2 * e)) * c <= g * c
      BY <1>8, <1>10, <3>1, Monotone
    <3>3. (2 * e) * c = (2 * c) * e /\ (-(2 * e)) * c = -((2 * c) * e)
      BY <1>8, <1>10
    <3>4. QED
      BY <1>1, <1>8, <1>10, <3>1, <3>2, <3>3
  <2>3. QED
    BY <2>1, <2>2
<1>14. ((2 * c) * e) * ((2 * c) * e) <= a * a
  <2> DEFINE w == (2 * c) * e
  <2>1. w \in Int /\ w <= a /\ -w <= a
    BY <1>8, <1>10, <1>13
  <2> HIDE DEF w
  <2>2. 0 <= (a - w) * (a + w)
    <3>1. 0 <= a - w /\ 0 <= a + w /\ a - w \in Int /\ a + w \in Int
      BY <1>1, <2>1
    <3>2. \A s, t \in Int : 0 <= s /\ 0 <= t => 0 <= s * t
      OBVIOUS
    <3>3. QED
      BY <3>1, <3>2
  <2>3. (a - w) * (a + w) = a * a - w * w
    BY <1>1, <2>1
  <2>4. w * w <= a * a
    BY <1>1, <2>1, <2>2, <2>3
  <2>5. QED
    BY <2>4 DEF w
<1>15. ((2 * c) * (2 * c)) * (e * e) = ((2 * c) * e) * ((2 * c) * e)
  BY <1>8, <1>10
<1>16. QED
  BY <1>11, <1>12, <1>14, <1>15 DEF Grains, c

(* What comes back when the text of a vector is read.                      *)
Reread(f) == [i \in 1 .. Len(f) |-> Decimal(f[i])]

Bounded(f) == Len(f) # 0 /\ Squared(f, Zero(f)) <= One * One

LEMMA ZeroIs ==
  ASSUME NEW n \in Nat, NEW f \in Vectors(n)
  PROVE  Zero(f) = [i \in 1 .. n |-> 0] /\ Zero(f) \in Vectors(n)
<1>1. DOMAIN f = 1 .. n
  BY DEF Vectors
<1>2. Zero(f) = [i \in 1 .. n |-> 0]
  BY <1>1 DEF Zero
<1>3. [i \in 1 .. n |-> 0] \in Vectors(n)
  BY DEF Vectors
<1>4. QED
  BY <1>2, <1>3

LEMMA BoundedParts ==
  ASSUME NEW n \in Nat, NEW f \in Vectors(n), Bounded(f)
  PROVE  \A i \in 1 .. n : f[i] \in Int /\ -One <= f[i] /\ f[i] <= One
<1>1. f \in [1 .. n -> Int] /\ Zero(f) = [i \in 1 .. n |-> 0] /\ Zero(f) \in Vectors(n)
  BY ZeroIs, VectorSums
<1>2. PICK s : Sums(Differ(f, Zero(f), n), n, s) /\ Squared(f, Zero(f)) = s[n]
  BY <1>1, VectorSums
<1> DEFINE T == {i \in 0 .. n : 0 <= s[i] /\ \A j \in 1 .. i : f[j] * f[j] <= s[i]}
<1>3. 0 \in T
  BY <1>2 DEF Sums
<1>4. ASSUME NEW i \in 0 .. n, i < n, i \in T PROVE i + 1 \in T
  <2>1. i + 1 \in 1 .. n /\ (i + 1) - 1 = i /\ i + 1 \in 0 .. n
    BY <1>4
  <2>2. f[i + 1] \in Int /\ Zero(f)[i + 1] = 0 /\ f[i + 1] - 0 = f[i + 1]
    BY <1>1, <2>1
  <2>3. s[i + 1] = s[i] + f[i + 1] * f[i + 1] /\ s[i] \in Int
    BY <1>2, <2>1, <2>2 DEF Sums, Differ
  <2>4. \A u \in Int : 0 <= u * u /\ u * u \in Int
    OBVIOUS
  <2>5. \A j \in 1 .. i + 1 : f[j] * f[j] <= s[i + 1]
    <3>1. SUFFICES ASSUME NEW j \in 1 .. i + 1 PROVE f[j] * f[j] <= s[i + 1]
      OBVIOUS
    <3>2. CASE j = i + 1
      BY <1>4, <2>2, <2>3, <2>4, <3>2
    <3>3. CASE j # i + 1
      <4>1. j \in 1 .. i /\ f[j] \in Int
        BY <1>1, <1>4, <3>1, <3>3
      <4>2. QED
        BY <1>4, <2>2, <2>3, <2>4, <4>1
    <3>4. QED
      BY <3>2, <3>3
  <2>6. 0 <= s[i + 1]
    BY <1>4, <2>2, <2>3, <2>4
  <2>7. QED
    BY <2>1, <2>5, <2>6
<1>5. 0 .. n \subseteq T
  <2> HIDE DEF T
  <2> QED
    BY <1>3, <1>4, StepInduction
<1>6. s[n] <= One * One /\ s[n] \in Int
  BY <1>2 DEF Sums, Bounded
<1>7. ASSUME NEW i \in 1 .. n PROVE f[i] \in Int /\ -One <= f[i] /\ f[i] <= One
  <2>1. f[i] \in Int /\ f[i] * f[i] <= One * One /\ One \in Int /\ 0 <= One
    BY <1>1, <1>5, <1>6 DEF One
  <2>2. f[i] <= One
    BY <2>1, SmallerSquare
  <2>3. -f[i] \in Int /\ (-f[i]) * (-f[i]) = f[i] * f[i]
    BY <2>1
  <2>4. -f[i] <= One
    BY <2>1, <2>3, SmallerSquare
  <2>5. QED
    BY <2>1, <2>2, <2>4
<1>8. QED
  BY <1>7

LEMMA BlurIs ==
  /\ Blur \in Nat /\ 1 <= Blur /\ Blur <= One
  /\ Grains \in Nat /\ 2 <= Grains /\ One < Blur * Grains
<1>1. Digits - 1 \in Nat
  BY DigitsAssumption
<1>2. Grains \in Nat /\ 2 <= Grains
  BY <1>1, TensAre DEF Grains
<1>3. \A g \in Nat : g >= 2 => 1000 \div g \in 0 .. 500 /\ 1000 < (1000 \div g + 1) * g
  OBVIOUS
<1>4. Blur = 1000 \div Grains + 1
  BY DEF Blur, Grains, One
<1>5. 1000 \div Grains \in 0 .. 500 /\ 1000 < (1000 \div Grains + 1) * Grains
  BY <1>2, <1>3
<1>6. QED
  BY <1>2, <1>4, <1>5 DEF One

LEMMA RereadNear ==
  ASSUME NEW n \in Nat, NEW f \in Vectors(n), Bounded(f)
  PROVE  Reread(f) \in Vectors(n) /\ Squared(f, Reread(f)) <= Blur * Blur
<1> DEFINE v == Reread(f)
           c == Grains
<1>1. f \in [1 .. n -> Int] /\ Zero(f) = [i \in 1 .. n |-> 0] /\ Zero(f) \in Vectors(n) /\ Len(f) = n
  BY ZeroIs, VectorSums
<1>2. \A i \in 1 .. n : /\ Decimal(f[i]) \in Int
                        /\ (c * c) * ((f[i] - Decimal(f[i])) * (f[i] - Decimal(f[i]))) <= f[i] * f[i]
  <2>1. ASSUME NEW i \in 1 .. n
        PROVE  /\ Decimal(f[i]) \in Int
               /\ (c * c) * ((f[i] - Decimal(f[i])) * (f[i] - Decimal(f[i]))) <= f[i] * f[i]
    <3>1. f[i] \in Int /\ -One <= f[i] /\ f[i] <= One
      BY BoundedParts
    <3>2. QED
      BY <3>1, DecimalNear
  <2>2. QED
    BY <2>1
<1>3. v = [i \in 1 .. n |-> Decimal(f[i])] /\ v \in Vectors(n)
  BY <1>1, <1>2 DEF Reread, Vectors
<1>4. \A i \in 1 .. n : v[i] \in Int /\ (c * c) * ((f[i] - v[i]) * (f[i] - v[i])) <= f[i] * f[i]
  BY <1>2, <1>3
<1>5. c \in Nat /\ Blur \in Nat /\ One < Blur * c /\ 2 <= c
  BY BlurIs
<1> HIDE DEF v, c
<1>6. PICK s : Sums(Differ(f, Zero(f), n), n, s) /\ Squared(f, Zero(f)) = s[n]
  BY <1>1, VectorSums
<1>7. PICK b : Sums(Differ(f, v, n), n, b) /\ Squared(f, v) = b[n]
  BY <1>3, VectorSums
<1> DEFINE T == {i \in 0 .. n : (c * c) * b[i] <= s[i]}
<1>8. 0 \in T
  BY <1>5, <1>6, <1>7 DEF Sums
<1>9. ASSUME NEW i \in 0 .. n, i < n, i \in T PROVE i + 1 \in T
  <2>1. i + 1 \in 1 .. n /\ (i + 1) - 1 = i /\ i + 1 \in 0 .. n
    BY <1>9
  <2>2. f[i + 1] \in Int /\ Zero(f)[i + 1] = 0 /\ f[i + 1] - 0 = f[i + 1] /\ v[i + 1] \in Int
    BY <1>1, <1>4, <2>1
  <2>3. s[i + 1] = s[i] + f[i + 1] * f[i + 1] /\ s[i] \in Int
    BY <1>6, <2>1, <2>2 DEF Sums, Differ
  <2> DEFINE e == (f[i + 1] - v[i + 1]) * (f[i + 1] - v[i + 1])
             d == c * c
  <2>4. b[i + 1] = b[i] + e /\ b[i] \in Int /\ e \in Int
    BY <1>7, <2>1, <2>2 DEF Sums, Differ
  <2>5. d * e <= f[i + 1] * f[i + 1] /\ d \in Int
    BY <1>4, <1>5, <2>1
  <2>6. d * b[i] <= s[i]
    BY <1>9
  <2>7. f[i + 1] * f[i + 1] \in Int
    BY <2>2
  <2> HIDE DEF e, d
  <2>8. d * (b[i] + e) = d * b[i] + d * e /\ d * b[i] \in Int /\ d * e \in Int
    BY <2>4, <2>5
  <2>9. d * b[i + 1] <= s[i + 1]
    BY <2>3, <2>4, <2>5, <2>6, <2>7, <2>8
  <2>10. QED
    BY <2>1, <2>9 DEF d
<1>10. 0 .. n \subseteq T
  <2> HIDE DEF T
  <2> QED
    BY <1>8, <1>9, StepInduction
<1>11. (c * c) * b[n] <= One * One /\ b[n] \in Int
  <2>1. (c * c) * b[n] <= s[n]
    BY <1>10
  <2>2. s[n] <= One * One /\ s[n] \in Int /\ b[n] \in Int
    BY <1>6, <1>7 DEF Sums, Bounded
  <2>3. (c * c) * b[n] \in Int /\ One * One \in Int
    BY <1>5, <2>2 DEF One
  <2> HIDE DEF T
  <2>4. QED
    BY <2>1, <2>2, <2>3
<1>12. b[n] <= Blur * Blur
  <2> DEFINE x == b[n]
             y == Blur * Blur
             d == c * c
  <2>1. SUFFICES ASSUME y < x PROVE FALSE
    BY <1>5, <1>11
  <2>2. y * d <= x * d
    <3>1. x \in Int /\ y \in Int /\ d \in Int /\ 0 <= d
      BY <1>5, <1>11
    <3> HIDE DEF x, y, d
    <3>2. QED
      BY <2>1, <3>1, Monotone
  <2>3. y * d = (Blur * c) * (Blur * c)
    BY <1>5
  <2>4. One * One < (Blur * c) * (Blur * c)
    <3> DEFINE w == Blur * c
    <3>1. w \in Int /\ 1000 < w
      BY <1>5 DEF One
    <3> HIDE DEF w
    <3>2. ~(w * w <= 1000 * 1000)
      BY <3>1, SmallerSquare
    <3>3. QED
      BY <3>1, <3>2 DEF w, One
  <2>5. d * x <= One * One /\ x * d = d * x /\ x \in Int /\ d \in Int
    BY <1>5, <1>11
  <2> HIDE DEF x, d
  <2>6. One * One \in Int /\ (Blur * c) * (Blur * c) \in Int /\ x * d \in Int
    BY <1>5, <2>5 DEF One
  <2>7. QED
    BY <2>2, <2>3, <2>4, <2>5, <2>6
<1>13. QED
  BY <1>3, <1>7, <1>12 DEF v

LEMMA OneMore ==
  ASSUME NEW n \in Nat, NEW v \in [1 .. n -> Int], NEW j \in Nat, j < n
  PROVE  Append([i \in 1 .. j |-> v[i]], v[j + 1]) = [i \in 1 .. j + 1 |-> v[i]]
<1> DEFINE s == [i \in 1 .. j |-> v[i]]
           e == v[j + 1]
           t == [i \in 1 .. j + 1 |-> v[i]]
<1>1. s \in Seq(Int) /\ Len(s) = j /\ e \in Int /\ \A i \in 1 .. j : s[i] = v[i]
  OBVIOUS
<1>2. t \in Seq(Int) /\ Len(t) = j + 1 /\ \A i \in 1 .. j + 1 : t[i] = v[i]
  OBVIOUS
<1> HIDE DEF s, e, t
<1>3. /\ Append(s, e) \in Seq(Int) /\ Len(Append(s, e)) = Len(s) + 1
      /\ \A i \in 1 .. Len(s) : Append(s, e)[i] = s[i]
      /\ Append(s, e)[Len(s) + 1] = e
  BY <1>1, AppendProperties
<1>4. ASSUME NEW i \in 1 .. j + 1 PROVE Append(s, e)[i] = t[i]
  <2>1. CASE i = j + 1
    BY <1>1, <1>2, <1>3, <2>1 DEF e
  <2>2. CASE i # j + 1
    <3>1. i \in 1 .. j
      BY <2>2
    <3>2. QED
      BY <1>1, <1>2, <1>3, <3>1
  <2>3. QED
    BY <2>1, <2>2
<1>5. Append(s, e) = t
  <2> DEFINE u == Append(s, e)
  <2>1. u \in Seq(Int) /\ Len(u) = j + 1 /\ \A i \in 1 .. j + 1 : u[i] = t[i]
    BY <1>1, <1>3, <1>4
  <2> HIDE DEF u
  <2>2. u = t
    BY <1>2, <2>1, SeqEqual
  <2>3. QED
    BY <2>2 DEF u
<1>6. QED
  BY <1>5 DEF s, e, t

LEMMA BackAndForth ==
  ASSUME NEW n \in Nat, NEW f \in Vectors(n), Bounded(f)
  PROVE  str_to_feat_vec(feat_vec_to_str(f)) = Reread(f)
<1> DEFINE m == 2 * n - 1
           v == Reread(f)
           text == feat_vec_to_str(f)
<1>1. f \in [1 .. n -> Int] /\ Len(f) = n /\ n # 0 /\ 1 <= n
  BY VectorSums DEF Bounded
<1>2. v \in [1 .. n -> Int] /\ \A i \in 1 .. n : v[i] = Decimal(f[i])
  <2>1. v \in Vectors(n)
    BY RereadNear
  <2>2. v = [i \in 1 .. n |-> Decimal(f[i])]
    BY <1>1 DEF Reread
  <2> HIDE DEF v
  <2>3. QED
    BY <2>1, <2>2, VectorSums
<1> HIDE DEF v
<1>3. text = [k \in 1 .. m |-> IF k % 2 = 1 THEN <<Decimal(f[(k + 1) \div 2])>> ELSE Comma]
  BY <1>1 DEF feat_vec_to_str
<1>4. m \in Nat /\ m % 2 = 1 /\ Len(text) = m /\ (m + 1) \div 2 = n
  <2>1. m \in Nat /\ m % 2 = 1 /\ (m + 1) \div 2 = n
    BY <1>1
  <2> HIDE DEF m
  <2>2. QED
    BY <1>3, <2>1
<1> HIDE DEF m, text
<1>5. \A x : <<x>> # Comma
  BY DEF Comma
<1>6. ASSUME NEW k \in 1 .. m
      PROVE  IF k % 2 = 1
             THEN /\ (k + 1) \div 2 \in 1 .. n /\ text[k] # Comma
                  /\ text[k][1] = v[(k + 1) \div 2] /\ (k = m \/ text[k + 1] = Comma)
             ELSE text[k] = Comma
  <2>1. CASE k % 2 = 1
    <3>1. (k + 1) \div 2 \in 1 .. n
      BY <1>1, <1>4, <2>1 DEF m
    <3>2. text[k] = <<v[(k + 1) \div 2]>>
      BY <1>2, <1>3, <2>1, <3>1
    <3>3. k # m => k + 1 \in 1 .. m /\ (k + 1) % 2 # 1
      BY <1>4, <2>1
    <3>4. k # m => text[k + 1] = Comma
      BY <1>3, <3>3
    <3>5. QED
      BY <1>5, <2>1, <3>1, <3>2, <3>4
  <2>2. CASE k % 2 # 1
    BY <1>3, <2>2
  <2>3. QED
    BY <2>1, <2>2
<1> DEFINE O(r) == [k \in 0 .. m |->
             IF k = 0 THEN <<>>
             ELSE IF text[k] # Comma /\ (k = m \/ text[k + 1] = Comma)
                  THEN Append(r[k - 1], text[k][1]) ELSE r[k - 1]]
           H(r) == [k \in 0 .. m |->
             IF k = 0 THEN <<>>
             ELSE IF k % 2 = 1 THEN Append(r[k - 1], v[(k + 1) \div 2]) ELSE r[k - 1]]
<1>7. ASSUME NEW r PROVE O(r) = H(r)
  <2>1. ASSUME NEW k \in 0 .. m, k # 0
        PROVE  (IF text[k] # Comma /\ (k = m \/ text[k + 1] = Comma)
                THEN Append(r[k - 1], text[k][1]) ELSE r[k - 1])
               = IF k % 2 = 1 THEN Append(r[k - 1], v[(k + 1) \div 2]) ELSE r[k - 1]
    <3>1. k \in 1 .. m
      BY <2>1
    <3>2. QED
      BY <1>6, <3>1
  <2>2. QED
    BY <2>1
<1> DEFINE read == CHOOSE r : r = O(r)
<1>8. str_to_feat_vec(text) = read[m]
  BY <1>4 DEF str_to_feat_vec
<1>9. \E r : r = H(r)
  <2> DEFINE V == Seq(Int)
             z == <<>>
             G == [k \in 1 .. m |-> [x \in V |-> IF k % 2 = 1 THEN Append(x, v[(k + 1) \div 2]) ELSE x]]
  <2>1. z \in V
    OBVIOUS
  <2>2. G \in [1 .. m -> [V -> V]]
    <3>1. ASSUME NEW k \in 1 .. m, NEW x \in V, k % 2 = 1
          PROVE  Append(x, v[(k + 1) \div 2]) \in V
      <4>1. v[(k + 1) \div 2] \in Int
        BY <1>2, <1>6, <3>1
      <4>2. QED
        BY <4>1, AppendProperties
    <3>2. QED
      BY <3>1
  <2>3. PICK r \in [0 .. m -> V] : LoopOf(r, m, z, G)
    <3> HIDE DEF V, z, G
    <3> QED
      BY <1>4, <2>1, <2>2, Loop
  <2>4. ASSUME NEW k \in 0 .. m
        PROVE  r[k] = IF k = 0 THEN <<>>
                      ELSE IF k % 2 = 1 THEN Append(r[k - 1], v[(k + 1) \div 2]) ELSE r[k - 1]
    <3>1. r[k] = IF k = 0 THEN z ELSE G[k][r[k - 1]]
      <4> HIDE DEF G, z
      <4> QED
        BY <2>3 DEF LoopOf
    <3>2. k # 0 => k \in 1 .. m /\ r[k - 1] \in V
      <4> HIDE DEF V
      <4> QED
        BY <1>4
    <3>3. k # 0 => G[k][r[k - 1]] = IF k % 2 = 1 THEN Append(r[k - 1], v[(k + 1) \div 2]) ELSE r[k - 1]
      <4> HIDE DEF V
      <4> QED
        BY <3>2
    <3> HIDE DEF G
    <3>4. QED
      BY <3>1, <3>3
  <2> HIDE DEF G, V
  <2>5. r = H(r)
    BY <2>3, <2>4
  <2>6. QED
    BY <2>5
<1>10. read = H(read)
  <2> HIDE DEF O, H
  <2>1. \E r : r = O(r)
    BY <1>7, <1>9
  <2>2. read = O(read)
    BY <2>1
  <2> HIDE DEF read
  <2>3. QED
    BY <1>7, <2>2
<1> HIDE DEF read, O
<1> DEFINE first(j) == [i \in 1 .. j |-> v[i]]
           T == {k \in 0 .. m : read[k] = first((k + 1) \div 2)}
<1>11. 0 \in T
  <2>1. read[0] = <<>> /\ (0 + 1) \div 2 = 0 /\ 0 \in 0 .. m
    BY <1>4, <1>10
  <2>2. first(0) = <<>>
    OBVIOUS
  <2> HIDE DEF first
  <2>3. QED
    BY <2>1, <2>2
<1>12. ASSUME NEW k \in 0 .. m, k < m, k \in T PROVE k + 1 \in T
  <2>1. k + 1 \in 1 .. m /\ k + 1 # 0 /\ (k + 1) - 1 = k /\ k + 1 \in 0 .. m
    BY <1>4, <1>12
  <2>2. read[k + 1] = IF (k + 1) % 2 = 1 THEN Append(read[k], v[((k + 1) + 1) \div 2]) ELSE read[k]
    BY <1>10, <2>1
  <2> DEFINE j == (k + 1) \div 2
  <2>3. read[k] = first(j)
    BY <1>12
  <2>4. CASE (k + 1) % 2 = 1
    <3>1. j \in Nat /\ ((k + 1) + 1) \div 2 = j + 1
      BY <1>12, <2>4
    <3>2. ((k + 1) + 1) \div 2 \in 1 .. n
      BY <1>6, <2>1, <2>4
    <3> HIDE DEF j
    <3>3. j < n
      BY <1>1, <3>1, <3>2
    <3>4. Append(first(j), v[j + 1]) = first(j + 1)
      BY <1>2, <3>1, <3>3, OneMore
    <3> HIDE DEF first
    <3>5. QED
      BY <2>1, <2>2, <2>3, <2>4, <3>1, <3>4
  <2>5. CASE (k + 1) % 2 # 1
    <3>1. ((k + 1) + 1) \div 2 = j
      BY <1>12, <2>5
    <3> HIDE DEF first, j
    <3>2. QED
      BY <2>1, <2>2, <2>3, <2>5, <3>1
  <2>6. QED
    BY <2>4, <2>5
<1>13. 0 .. m \subseteq T
  <2> HIDE DEF T
  <2> QED
    BY <1>4, <1>11, <1>12, StepInduction
<1>14. read[m] = first(n)
  <2> HIDE DEF first
  <2> QED
    BY <1>4, <1>13
<1>15. first(n) = v
  BY <1>2
<1>16. QED
  BY <1>8, <1>14, <1>15 DEF text, v

----------------------------------------------------------------------------
(* The nearest user.                                                       *)

Nearer(d, n, t, k) ==
  /\ k \in 0 .. n
  /\ k = 0 => \A j \in 1 .. n : ~(0 < t /\ d[j] < t * t /\ d[j] < 100 * One * One)
  /\ k # 0 => 0 < t /\ d[k] < t * t /\ \A j \in 1 .. n : d[k] <= d[j]

Search(d, n, t, b) ==
  b = [i \in 0 .. n |->
         IF i = 0 THEN [min_diff |-> 100 * One * One, idx |-> 0]
         ELSE IF 0 < t /\ d[i] < t * t /\ d[i] < b[i - 1].min_diff
              THEN [min_diff |-> d[i], idx |-> i] ELSE b[i - 1]]

LEMMA SearchExists ==
  ASSUME NEW n \in Nat, NEW d \in [1 .. n -> Int], NEW t \in Int
  PROVE  \E b : Search(d, n, t, b)
<1> DEFINE V == [min_diff : Int, idx : Int]
           z == [min_diff |-> 100 * One * One, idx |-> 0]
           G == [i \in 1 .. n |-> [x \in V |-> IF 0 < t /\ d[i] < t * t /\ d[i] < x.min_diff
                                               THEN [min_diff |-> d[i], idx |-> i] ELSE x]]
<1>1. z \in V
  BY DEF One
<1>2. G \in [1 .. n -> [V -> V]]
  <2>1. ASSUME NEW i \in 1 .. n PROVE [min_diff |-> d[i], idx |-> i] \in V
    OBVIOUS
  <2> DEFINE e(i) == [min_diff |-> d[i], idx |-> i]
  <2> HIDE DEF V, e
  <2>2. \A i \in 1 .. n : e(i) \in V
    BY <2>1 DEF e
  <2>3. QED
    BY <2>2 DEF e
<1>3. PICK b \in [0 .. n -> V] : LoopOf(b, n, z, G)
  <2> HIDE DEF V, z, G
  <2> QED
    BY <1>1, <1>2, Loop
<1>4. ASSUME NEW i \in 0 .. n
      PROVE  b[i] = IF i = 0 THEN [min_diff |-> 100 * One * One, idx |-> 0]
                    ELSE IF 0 < t /\ d[i] < t * t /\ d[i] < b[i - 1].min_diff
                         THEN [min_diff |-> d[i], idx |-> i] ELSE b[i - 1]
  <2>1. b[i] = IF i = 0 THEN z ELSE G[i][b[i - 1]]
    <3> HIDE DEF G, z
    <3> QED
      BY <1>3 DEF LoopOf
  <2>2. i # 0 => i \in 1 .. n /\ b[i - 1] \in V
    <3> HIDE DEF V
    <3> QED
      OBVIOUS
  <2>3. i # 0 => G[i][b[i - 1]] = IF 0 < t /\ d[i] < t * t /\ d[i] < b[i - 1].min_diff
                                  THEN [min_diff |-> d[i], idx |-> i] ELSE b[i - 1]
    <3> HIDE DEF V
    <3> QED
      BY <2>2
  <2> HIDE DEF G
  <2>4. QED
    BY <2>1, <2>3
<1> HIDE DEF G, V
<1>5. Search(d, n, t, b)
  BY <1>3, <1>4 DEF Search
<1>6. QED
  BY <1>5

LEMMA SearchFinds ==
  ASSUME NEW n \in Nat, NEW d \in [1 .. n -> Int], NEW t \in Int, NEW b, Search(d, n, t, b)
  PROVE  Nearer(d, n, t, b[n].idx)
<1> DEFINE far == 100 * One * One
           good(i) == /\ Nearer(d, i, t, b[i].idx)
                      /\ b[i].min_diff = IF b[i].idx = 0 THEN far ELSE d[b[i].idx]
           T == {i \in 0 .. n : good(i)}
<1>1. far \in Int
  BY DEF One
<1>2. \A i \in 0 .. n :
        b[i] = IF i = 0 THEN [min_diff |-> far, idx |-> 0]
               ELSE IF 0 < t /\ d[i] < t * t /\ d[i] < b[i - 1].min_diff
                    THEN [min_diff |-> d[i], idx |-> i] ELSE b[i - 1]
  BY DEF Search
<1>3. 0 \in T
  <2>1. b[0] = [min_diff |-> far, idx |-> 0]
    <3>1. 0 \in 0 .. n
      OBVIOUS
    <3> HIDE DEF far
    <3>2. QED
      BY <1>2, <3>1
  <2>2. b[0].min_diff = far /\ b[0].idx = 0
    <3> HIDE DEF far
    <3> QED
      BY <2>1
  <2>3. QED
    BY <2>2 DEF Nearer
<1>4. ASSUME NEW i \in 0 .. n, i < n, i \in T PROVE i + 1 \in T
  <2> DEFINE k == b[i].idx
             u == i + 1
             m == b[i].min_diff
  <2>1. u \in 1 .. n /\ u # 0 /\ u - 1 = i /\ u \in 0 .. n /\ i \in Nat
    BY <1>4
  <2>2. b[u] = IF 0 < t /\ d[u] < t * t /\ d[u] < m THEN [min_diff |-> d[u], idx |-> u] ELSE b[i]
    BY <1>2, <2>1
  <2>3. Nearer(d, i, t, k) /\ m = IF k = 0 THEN far ELSE d[k]
    BY <1>4
  <2>4. \A j \in 1 .. u : d[j] \in Int /\ (j \in 1 .. i \/ j = u)
    BY <1>4
  <2>5. d[u] \in Int /\ m \in Int /\ t * t \in Int
    BY <1>1, <2>1, <2>3, <2>4 DEF Nearer
  <2>6. CASE 0 < t /\ d[u] < t * t /\ d[u] < m
    <3>1. b[u].idx = u /\ b[u].min_diff = d[u]
      BY <2>2, <2>6
    <3>2. ASSUME NEW j \in 1 .. i PROVE d[u] <= d[j]
      <4>1. d[j] \in Int
        BY <1>4
      <4>2. CASE k = 0
        <5>1. ~(d[j] < t * t /\ d[j] < far)
          BY <2>3, <2>6, <4>2 DEF Nearer
        <5> HIDE DEF far, u, k, m
        <5>2. QED
          BY <1>1, <2>3, <2>5, <2>6, <4>1, <4>2, <5>1
      <4>3. CASE k # 0
        <5>1. d[k] <= d[j] /\ m = d[k]
          BY <2>3, <4>3 DEF Nearer
        <5> HIDE DEF far, u, k, m
        <5>2. QED
          BY <2>5, <2>6, <4>1, <5>1
      <4>4. QED
        BY <4>2, <4>3
    <3>3. \A j \in 1 .. u : d[u] <= d[j]
      BY <2>4, <2>5, <3>2
    <3> HIDE DEF far, u, k, m
    <3>4. Nearer(d, u, t, u)
      BY <2>1, <2>6, <3>3 DEF Nearer
    <3>5. u \in T
      BY <2>1, <3>1, <3>4
    <3>6. QED
      BY <3>5 DEF u
  <2>7. CASE ~(0 < t /\ d[u] < t * t /\ d[u] < m)
    <3>1. b[u] = b[i]
      BY <2>2, <2>7
    <3> HIDE DEF far, u, m
    <3>2. Nearer(d, u, t, k)
      <4>1. CASE k = 0
        <5>1. ~(0 < t /\ d[u] < t * t /\ d[u] < far)
          BY <2>3, <2>7, <4>1
        <5> HIDE DEF k
        <5>2. QED
          BY <2>1, <2>3, <2>4, <4>1, <5>1 DEF Nearer, far
      <4>2. CASE k # 0
        <5> HIDE DEF k
        <5>1. 0 < t /\ d[k] < t * t /\ (\A j \in 1 .. i : d[k] <= d[j]) /\ k \in 1 .. i /\ m = d[k]
          BY <2>1, <2>3, <4>2 DEF Nearer
        <5>2. d[k] <= d[u]
          BY <2>5, <2>7, <5>1
        <5>3. \A j \in 1 .. u : d[k] <= d[j]
          BY <2>4, <5>1, <5>2
        <5>4. k \in 0 .. u
          BY <2>1, <5>1 DEF u
        <5>5. QED
          BY <4>2, <5>1, <5>3, <5>4 DEF Nearer
      <4>3. QED
        BY <4>1, <4>2
    <3>3. u \in T
      BY <2>1, <2>3, <3>1, <3>2 DEF m
    <3>4. QED
      BY <3>3 DEF u
  <2>8. QED
    BY <2>6, <2>7
<1>5. 0 .. n \subseteq T
  <2> HIDE DEF T
  <2> QED
    BY <1>3, <1>4, StepInduction
<1>6. QED
  BY <1>5

Distances(users, feat) == [i \in 1 .. Len(users) |-> Squared(users[i].feat_vec, feat)]

LEMMA NearestIs ==
  ASSUME NEW users, NEW feat, NEW t \in Int, Len(users) \in Nat,
         Distances(users, feat) \in [1 .. Len(users) -> Int]
  PROVE  Nearer(Distances(users, feat), Len(users), t, Nearest(users, feat, t))
<1> DEFINE n == Len(users)
           d == Distances(users, feat)
           O(b) == [i \in 0 .. n |->
             IF i = 0 THEN [min_diff |-> 100 * One * One, idx |-> 0]
             ELSE IF /\ t > 0 /\ Squared(users[i].feat_vec, feat) < t * t
                     /\ Squared(users[i].feat_vec, feat) < b[i - 1].min_diff
                  THEN [min_diff |-> Squared(users[i].feat_vec, feat), idx |-> i] ELSE b[i - 1]]
           H(b) == [i \in 0 .. n |->
             IF i = 0 THEN [min_diff |-> 100 * One * One, idx |-> 0]
             ELSE IF 0 < t /\ d[i] < t * t /\ d[i] < b[i - 1].min_diff
                  THEN [min_diff |-> d[i], idx |-> i] ELSE b[i - 1]]
<1>1. \A i \in 1 .. n : d[i] = Squared(users[i].feat_vec, feat)
  BY DEF Distances
<1>2. d \in [1 .. n -> Int] /\ n \in Nat
  OBVIOUS
<1>3. Nearest(users, feat, t) = (CHOOSE b : b = O(b))[n].idx
  BY DEF Nearest
<1> HIDE DEF d, n
<1>4. ASSUME NEW b PROVE O(b) = H(b)
  <2>1. ASSUME NEW i \in 0 .. n, i # 0
        PROVE  (IF /\ t > 0 /\ Squared(users[i].feat_vec, feat) < t * t
                   /\ Squared(users[i].feat_vec, feat) < b[i - 1].min_diff
                THEN [min_diff |-> Squared(users[i].feat_vec, feat), idx |-> i] ELSE b[i - 1])
               = IF 0 < t /\ d[i] < t * t /\ d[i] < b[i - 1].min_diff
                 THEN [min_diff |-> d[i], idx |-> i] ELSE b[i - 1]
    <3>1. i \in 1 .. n /\ d[i] = Squared(users[i].feat_vec, feat) /\ (t > 0 <=> 0 < t)
      BY <1>1, <1>2, <2>1
    <3>2. QED
      BY <3>1
  <2>2. QED
    BY <2>1
<1> DEFINE b == CHOOSE x : x = O(x)
<1>5. Search(d, n, t, b)
  <2>1. \E x : x = H(x)
    BY <1>2, SearchExists DEF Search
  <2>2. \E x : x = O(x)
    <3> HIDE DEF O, H
    <3> QED
      BY <1>4, <2>1
  <2>3. b = O(b)
    <3> HIDE DEF O
    <3> QED
      BY <2>2
  <2>4. b = H(b)
    <3> HIDE DEF O, H, b
    <3> QED
      BY <1>4, <2>3
  <2> HIDE DEF b
  <2>5. QED
    BY <2>4 DEF Search
<1> HIDE DEF b
<1>6. Nearer(d, n, t, b[n].idx)
  BY <1>2, <1>5, SearchFinds
<1>7. QED
  BY <1>3, <1>6 DEF b, d, n

----------------------------------------------------------------------------
(* What a request is answered.                                             *)

LEMMA RootIs ==
  ASSUME NEW N \in Nat, N < (2 * One + 1) * (2 * One + 1)
  PROVE  /\ Root(N) \in Nat /\ Root(N) * Root(N) <= N
         /\ N < (Root(N) + 1) * (Root(N) + 1)
<1> DEFINE T == {r \in Nat : N < (r + 1) * (r + 1)}
<1>1. 2 * One \in T
  BY DEF One
<1>2. PICK r \in T : \A y \in T : r <= y
  <2>1. T \in SUBSET Nat /\ T # {}
    BY <1>1
  <2> HIDE DEF T
  <2>2. QED
    BY <2>1, Least
<1>3. r * r <= N
  <2>1. CASE r = 0
    BY <2>1
  <2>2. CASE r # 0
    <3>1. r - 1 \in Nat /\ (r - 1) + 1 = r /\ ~(r <= r - 1)
      BY <2>2
    <3>2. r - 1 \notin T
      <4> HIDE DEF T
      <4> QED
        BY <1>2, <3>1
    <3>3. ~(N < r * r)
      BY <3>1, <3>2
    <3>4. r * r \in Int
      OBVIOUS
    <3>5. QED
      BY <3>3, <3>4
  <2>3. QED
    BY <2>1, <2>2
<1>4. r \in 0 .. 2 * One
  BY <1>1, <1>2 DEF One
<1> DEFINE P(x) == x * x <= N /\ N < (x + 1) * (x + 1)
<1>5. P(r)
  BY <1>2, <1>3
<1>6. Root(N) = CHOOSE x \in 0 .. 2 * One : P(x)
  BY DEF Root
<1>7. Root(N) \in 0 .. 2 * One /\ P(Root(N))
  <2> HIDE DEF P
  <2> QED
    BY <1>4, <1>5, <1>6
<1>8. QED
  BY <1>7 DEF One

LEMMA SelfZero ==
  ASSUME NEW n \in Nat, NEW f \in Vectors(n)
  PROVE  Squared(f, f) = 0
<1>1. f \in [1 .. n -> Int]
  BY VectorSums
<1>2. PICK s : Sums(Differ(f, f, n), n, s) /\ Squared(f, f) = s[n]
  BY VectorSums
<1> DEFINE T == {i \in 0 .. n : s[i] = 0}
<1>3. 0 \in T
  BY <1>2 DEF Sums
<1>4. ASSUME NEW i \in 0 .. n, i < n, i \in T PROVE i + 1 \in T
  <2>1. i + 1 \in 1 .. n /\ (i + 1) - 1 = i /\ i + 1 \in 0 .. n
    BY <1>4
  <2>2. f[i + 1] \in Int /\ (f[i + 1] - f[i + 1]) * (f[i + 1] - f[i + 1]) = 0
    BY <1>1, <2>1
  <2>3. s[i + 1] = s[i] + (f[i + 1] - f[i + 1]) * (f[i + 1] - f[i + 1])
    BY <1>2, <2>1 DEF Sums, Differ
  <2>4. QED
    BY <1>4, <2>1, <2>2, <2>3
<1>5. 0 .. n \subseteq T
  <2> HIDE DEF T
  <2> QED
    BY <1>3, <1>4, StepInduction
<1>6. QED
  BY <1>2, <1>5

(* All the faces are vectors of one length.                                *)
Alike(n) == n \in Nat /\ \A f \in Faces : f \in Vectors(n) /\ Bounded(f)

LEMMA Dimension == \E n : Alike(n)
<1>1. CASE Faces = {}
  <2>1. Alike(0)
    BY <1>1 DEF Alike
  <2>2. QED
    BY <2>1
<1>2. CASE Faces # {}
  <2>1. PICK g \in Faces : TRUE
    BY <1>2
  <2>2. g \in Seq(Int) /\ Len(g) \in Nat
    BY <2>1, FacesAssumption, LenProperties
  <2>3. ASSUME NEW f \in Faces PROVE f \in Vectors(Len(g)) /\ Bounded(f)
    <3>1. f \in Seq(Int) /\ f # <<>> /\ Len(f) = Len(g) /\ Squared(f, Zero(f)) <= One * One
      BY <2>1, FacesAssumption
    <3>2. Len(f) # 0
      BY <3>1, EmptySeq
    <3>3. QED
      BY <3>1, <3>2 DEF Vectors, Bounded
  <2>4. Alike(Len(g))
    BY <2>2, <2>3 DEF Alike
  <2>5. QED
    BY <2>4
<1>3. QED
  BY <1>1, <1>2

LEMMA FarBound ==
  ASSUME NEW n, Alike(n), NEW f \in Faces, NEW z \in Faces
  PROVE  Squared(f, z) \in Nat /\ Squared(f, z) < (2 * One + 1) * (2 * One + 1)
<1>1. n \in Nat /\ f \in Vectors(n) /\ z \in Vectors(n) /\ Bounded(f) /\ Bounded(z)
  BY DEF Alike
<1>2. Zero(f) \in Vectors(n) /\ Zero(f) = Zero(z)
  BY <1>1, ZeroIs
<1> DEFINE o == Zero(f)
           m == One + 1
           k == One
<1>3. Squared(o, f) \in Nat /\ Squared(o, z) \in Nat
  BY <1>1, <1>2, SquaredFacts
<1>4. Squared(o, f) = Squared(f, Zero(f)) /\ Squared(o, z) = Squared(z, Zero(z))
  BY <1>1, <1>2, SquaredFacts
<1>5. Squared(o, f) <= k * k /\ Squared(o, z) <= k * k
  BY <1>1, <1>4 DEF Bounded
<1>6. m \in Nat /\ k \in Nat /\ k * k < m * m /\ k * k \in Int /\ m * m \in Int
  BY DEF One
<1>7. Squared(o, z) < m * m
  <2> HIDE DEF m, k
  <2> QED
    BY <1>3, <1>5, <1>6
<1>8. Squared(f, z) < (m + k) * (m + k)
  <2> HIDE DEF m, k, o
  <2> QED
    BY <1>1, <1>2, <1>5, <1>6, <1>7, Triangle DEF o
<1>9. m + k = 2 * One + 1
  BY DEF One
<1>10. Squared(f, z) \in Nat
  BY <1>1, SquaredFacts
<1>11. QED
  BY <1>8, <1>9, <1>10

(* A feature, and what is kept of it in memory.                            *)
KeptOf(f, v) == v = f \/ v = Reread(f)

LEMMA KeptIs ==
  ASSUME NEW n, Alike(n), NEW f \in Faces, NEW v, KeptOf(f, v)
  PROVE  v \in Vectors(n) /\ Squared(f, v) \in Nat /\ Squared(f, v) <= Blur * Blur
<1>1. n \in Nat /\ f \in Vectors(n) /\ Bounded(f)
  BY DEF Alike
<1>2. Blur \in Nat /\ Blur * Blur \in Nat
  BY BlurIs
<1>3. CASE v = f
  BY <1>1, <1>2, <1>3, SelfZero
<1>4. CASE v = Reread(f)
  <2>1. v \in Vectors(n) /\ Squared(f, v) <= Blur * Blur
    BY <1>1, <1>4, RereadNear
  <2>2. QED
    BY <1>1, <2>1, SquaredFacts
<1>5. QED
  BY <1>3, <1>4 DEF KeptOf

Close(D, S, B) ==
  \A m \in Nat : /\ D < m * m => S < (m + B) * (m + B)
                 /\ S < m * m => D < (m + B) * (m + B)

LEMMA KeptClose ==
  ASSUME NEW n, Alike(n), NEW f \in Faces, NEW v, KeptOf(f, v), NEW z \in Faces
  PROVE  Squared(v, z) \in Nat /\ Close(Squared(f, z), Squared(v, z), Blur)
<1>1. n \in Nat /\ f \in Vectors(n) /\ z \in Vectors(n) /\ v \in Vectors(n) /\ Blur \in Nat
  BY KeptIs, BlurIs DEF Alike
<1>2. Squared(f, v) <= Blur * Blur /\ Squared(v, f) <= Blur * Blur
  BY <1>1, KeptIs, SquaredFacts
<1>3. ASSUME NEW m \in Nat
      PROVE  /\ Squared(f, z) < m * m => Squared(v, z) < (m + Blur) * (m + Blur)
             /\ Squared(v, z) < m * m => Squared(f, z) < (m + Blur) * (m + Blur)
  <2>1. ASSUME Squared(f, z) < m * m PROVE Squared(v, z) < (m + Blur) * (m + Blur)
    BY <1>1, <1>2, <2>1, Triangle
  <2>2. ASSUME Squared(v, z) < m * m PROVE Squared(f, z) < (m + Blur) * (m + Blur)
    BY <1>1, <1>2, <2>2, Triangle
  <2>3. QED
    BY <2>1, <2>2
<1>4. QED
  BY <1>1, <1>3, SquaredFacts DEF Close

(* The root of D is r.                                                     *)
RootOf(D, r) == D \in Nat /\ r \in Nat /\ r * r <= D /\ D < (r + 1) * (r + 1)

LEMMA Under ==
  ASSUME NEW D, NEW r, RootOf(D, r), NEW x \in Int, 0 < x, D < x * x
  PROVE  r < x
<1>1. SUFFICES ASSUME x <= r PROVE FALSE
  BY DEF RootOf
<1>2. r \in Int /\ 0 <= x /\ D \in Int /\ r * r <= D /\ r * r \in Int /\ x * x \in Int
  BY DEF RootOf
<1>3. x * x <= r * r
  BY <1>1, <1>2, Monotone
<1>4. QED
  BY <1>2, <1>3

LEMMA NoneNearer ==
  ASSUME NEW D, NEW r, RootOf(D, r), NEW S \in Nat, NEW B \in Nat, NEW t \in Int,
         B <= One, r <= 2 * One, Close(D, S, B),
         ~(0 < t /\ S < t * t /\ S < 100 * One * One)
  PROVE  r >= t - B
<1>1. SUFFICES ASSUME r + 1 + B <= t PROVE FALSE
  BY DEF RootOf
<1> DEFINE m == r + 1
           x == m + B
<1>2. m \in Nat /\ x \in Int /\ 0 < x /\ x <= t /\ x <= 4 * One
  BY <1>1 DEF RootOf, One
<1>3. S < x * x
  <2>1. D < m * m
    BY DEF RootOf
  <2> HIDE DEF m
  <2>2. QED
    BY <1>2, <2>1 DEF Close
<1> HIDE DEF m, x
<1>4. x * x <= t * t
  BY <1>2, Monotone
<1>5. x * x <= (4 * One) * (4 * One)
  <2>1. 4 * One \in Int
    BY DEF One
  <2>2. QED
    BY <1>2, <2>1, Monotone
<1>6. (4 * One) * (4 * One) < 100 * One * One
  BY DEF One
<1>7. x * x \in Int /\ t * t \in Int /\ (4 * One) * (4 * One) \in Int /\ 100 * One * One \in Int
  BY <1>2 DEF One
<1>8. S < t * t /\ S < 100 * One * One
  <2> DEFINE p == x * x
             q == t * t
             a == (4 * One) * (4 * One)
             b == 100 * One * One
  <2>1. p \in Int /\ q \in Int /\ a \in Int /\ b \in Int /\ S < p /\ p <= q /\ p <= a /\ a < b
    BY <1>3, <1>4, <1>5, <1>6, <1>7
  <2> HIDE DEF p, q, a, b
  <2>2. S < q /\ S < b
    BY <2>1
  <2>3. QED
    BY <2>2 DEF q, b
<1>9. 0 < t
  BY <1>2
<1>10. QED
  BY <1>8, <1>9

LEMMA NearEnough ==
  ASSUME NEW D, NEW r, RootOf(D, r), NEW S \in Nat, NEW B \in Nat, NEW t \in Int,
         Close(D, S, B), 0 < t, S < t * t
  PROVE  r <= t + B
<1>1. t \in Nat /\ t + B \in Int /\ 0 < t + B
  OBVIOUS
<1>2. D < (t + B) * (t + B)
  BY <1>1 DEF Close
<1>3. r < t + B
  BY <1>1, <1>2, Under
<1>4. QED
  BY <1>1, <1>3 DEF RootOf

LEMMA NoFarther ==
  ASSUME NEW D, NEW r, RootOf(D, r), NEW S \in Nat, NEW B \in Nat, Close(D, S, B),
         NEW E, NEW q, RootOf(E, q), NEW R \in Nat, Close(E, R, B), S <= R
  PROVE  r <= q + 2 * B
<1> DEFINE m == q + 1
           x == m + B
           y == x + B
<1>1. m \in Nat /\ x \in Nat /\ y \in Int /\ 0 < y /\ y = q + 1 + 2 * B /\ x * x \in Int
  BY DEF RootOf
<1>2. E < m * m
  BY DEF RootOf
<1>3. R < x * x
  <2> HIDE DEF m
  <2> QED
    BY <1>1, <1>2 DEF Close
<1> HIDE DEF m
<1>4. S < x * x
  <2> DEFINE p == x * x
  <2>1. p \in Int /\ R < p
    BY <1>1, <1>3
  <2> HIDE DEF p
  <2>2. S < p
    BY <2>1
  <2>3. QED
    BY <2>2 DEF p
<1> HIDE DEF x
<1>5. D < y * y
  BY <1>1, <1>4 DEF Close
<1> HIDE DEF y
<1>6. r < y
  BY <1>1, <1>5, Under
<1>7. QED
  BY <1>1, <1>6 DEF RootOf

Entry == [id : UserId, feat_vec : Seq(Int)]

KnownOk(kn) ==
  DOMAIN kn \subseteq UserId /\ IsFiniteSet(DOMAIN kn) /\ kn \in [DOMAIN kn -> Faces]

(* The users in memory are those registered, each once.                    *)
MemoryOf(list, kn) ==
  /\ list \in Seq(Entry)
  /\ \A i \in 1 .. Len(list) :
       list[i].id \in DOMAIN kn /\ KeptOf(kn[list[i].id], list[i].feat_vec)
  /\ \A u \in DOMAIN kn : \E i \in 1 .. Len(list) : list[i].id = u
  /\ \A i, j \in 1 .. Len(list) : list[i].id = list[j].id => i = j

RightAnswer(kn, z, t, a) ==
  IF a = "unknown"
  THEN \A u \in DOMAIN kn : Root(Squared(kn[u], z)) >= t - Blur
  ELSE /\ a \in DOMAIN kn
       /\ Root(Squared(kn[a], z)) <= t + Blur
       /\ \A u \in DOMAIN kn : Root(Squared(kn[a], z)) <= Root(Squared(kn[u], z)) + 2 * Blur

LEMMA FaceDistance ==
  ASSUME NEW n, Alike(n), NEW f \in Faces, NEW z \in Faces
  PROVE  RootOf(Squared(f, z), Root(Squared(f, z))) /\ Root(Squared(f, z)) <= 2 * One
<1> DEFINE D == Squared(f, z)
           r == Root(D)
<1>1. D \in Nat /\ D < (2 * One + 1) * (2 * One + 1)
  BY FarBound
<1> HIDE DEF D
<1>2. r \in Nat /\ r * r <= D /\ D < (r + 1) * (r + 1)
  BY <1>1, RootIs
<1> HIDE DEF r
<1>3. RootOf(D, r)
  BY <1>1, <1>2 DEF RootOf
<1>4. r < 2 * One + 1
  <2>1. 2 * One + 1 \in Int /\ 0 < 2 * One + 1
    BY DEF One
  <2>2. QED
    BY <1>1, <1>3, <2>1, Under
<1>5. r <= 2 * One
  BY <1>2, <1>4 DEF One
<1>6. QED
  BY <1>3, <1>5 DEF r, D

LEMMA Recognized ==
  ASSUME NEW n, Alike(n), NEW kn, KnownOk(kn), NEW list, MemoryOf(list, kn),
         NEW z \in Faces, NEW t \in Int
  PROVE  RightAnswer(kn, z, t, Recognize(list, z, t))
<1> DEFINE N == Len(list)
           d == Distances(list, z)
           k == Nearest(list, z, t)
           r(u) == Root(Squared(kn[u], z))
<1>1. N \in Nat /\ DOMAIN list = 1 .. N /\ \A i \in 1 .. N : list[i] \in Entry
  BY LenProperties, ElementOfSeq DEF MemoryOf
<1>2. ASSUME NEW i \in 1 .. N
      PROVE  /\ list[i].id \in DOMAIN kn /\ list[i].id \in UserId
             /\ kn[list[i].id] \in Faces /\ KeptOf(kn[list[i].id], list[i].feat_vec)
  BY DEF MemoryOf, KnownOk
<1>3. ASSUME NEW i \in 1 .. N
      PROVE  /\ Len(list[i].feat_vec) = n /\ d[i] \in Nat
             /\ Close(Squared(kn[list[i].id], z), d[i], Blur)
  <2> DEFINE f == kn[list[i].id]
             v == list[i].feat_vec
  <2>1. f \in Faces /\ KeptOf(f, v) /\ d[i] = Squared(v, z)
    BY <1>2 DEF Distances
  <2> HIDE DEF f, v, d
  <2>2. v \in Vectors(n)
    BY <2>1, KeptIs
  <2>3. Squared(v, z) \in Nat /\ Close(Squared(f, z), Squared(v, z), Blur)
    BY <2>1, KeptClose
  <2>4. QED
    BY <2>1, <2>2, <2>3 DEF f, v, Vectors
<1>4. Len(z) = n
  BY DEF Alike, Vectors
<1>5. d \in [1 .. N -> Int]
  <2>1. d = [i \in 1 .. N |-> d[i]]
    BY DEF Distances
  <2> HIDE DEF d
  <2>2. \A i \in 1 .. N : d[i] \in Int
    BY <1>3
  <2>3. QED
    BY <2>1, <2>2
<1>6. Nearer(d, N, t, k)
  BY <1>1, <1>5, NearestIs
<1>7. Recognize(list, z, t) = IF k = 0 THEN "unknown" ELSE list[k].id
  <2>1. \A i \in DOMAIN list : Comparable(list[i].feat_vec, z)
    BY <1>1, <1>3, <1>4 DEF Comparable
  <2> HIDE DEF k
  <2>2. QED
    BY <2>1 DEF Recognize, k
<1> HIDE DEF N, d, k
<1>8. Blur \in Nat /\ Blur <= One
  BY BlurIs
<1>9. ASSUME NEW u \in DOMAIN kn
      PROVE  /\ RootOf(Squared(kn[u], z), r(u)) /\ r(u) <= 2 * One
             /\ \E i \in 1 .. N : list[i].id = u
  BY FaceDistance DEF KnownOk, MemoryOf, N
<1> HIDE DEF r
<1>10. CASE k = 0
  <2>1. ASSUME NEW u \in DOMAIN kn PROVE r(u) >= t - Blur
    <3>1. PICK i \in 1 .. N : list[i].id = u
      BY <1>9
    <3>2. ~(0 < t /\ d[i] < t * t /\ d[i] < 100 * One * One)
      BY <1>6, <1>10 DEF Nearer
    <3>3. d[i] \in Nat /\ Close(Squared(kn[u], z), d[i], Blur)
      BY <1>3, <3>1
    <3> DEFINE S == d[i]
               D == Squared(kn[u], z)
               q == r(u)
    <3>4. RootOf(D, q) /\ q <= 2 * One /\ S \in Nat /\ Close(D, S, Blur)
      BY <1>9, <3>3
    <3>5. ~(0 < t /\ S < t * t /\ S < 100 * One * One)
      BY <3>2
    <3> HIDE DEF S, D, q
    <3>6. q >= t - Blur
      BY <1>8, <3>4, <3>5, NoneNearer
    <3>7. QED
      BY <3>6 DEF q
  <2>2. Recognize(list, z, t) = "unknown"
    BY <1>7, <1>10
  <2>3. QED
    BY <2>1, <2>2 DEF RightAnswer, r
<1>11. CASE k # 0
  <2> DEFINE a == list[k].id
  <2>1. k \in 1 .. N /\ 0 < t /\ d[k] < t * t /\ \A j \in 1 .. N : d[k] <= d[j]
    BY <1>1, <1>6, <1>11 DEF Nearer
  <2>2. a \in DOMAIN kn /\ a \in UserId /\ d[k] \in Nat /\ Close(Squared(kn[a], z), d[k], Blur)
    BY <1>2, <1>3, <2>1
  <2>3. a # "unknown" /\ Recognize(list, z, t) = a
    BY <1>7, <1>11, <2>2, UserIdAssumption
  <2> HIDE DEF a
  <2> DEFINE S == d[k]
             D == Squared(kn[a], z)
             p == r(a)
  <2>4. RootOf(D, p) /\ S \in Nat /\ Close(D, S, Blur) /\ S < t * t
    BY <1>9, <2>1, <2>2
  <2>5. p <= t + Blur
    <3> HIDE DEF S, D, p
    <3> QED
      BY <1>8, <2>1, <2>4, NearEnough
  <2>6. ASSUME NEW u \in DOMAIN kn PROVE p <= r(u) + 2 * Blur
    <3>1. PICK i \in 1 .. N : list[i].id = u
      BY <1>9
    <3> DEFINE R == d[i]
               E == Squared(kn[u], z)
               q == r(u)
    <3>2. RootOf(E, q) /\ R \in Nat /\ Close(E, R, Blur) /\ S <= R
      BY <1>3, <1>9, <2>1, <3>1
    <3> HIDE DEF S, D, p, R, E, q
    <3>3. p <= q + 2 * Blur
      BY <1>8, <2>4, <3>2, NoFarther
    <3>4. QED
      BY <3>3 DEF q
  <2>7. QED
    BY <2>2, <2>3, <2>5, <2>6 DEF RightAnswer, r
<1>12. QED
  BY <1>10, <1>11

(* When the session of the network failed.                                 *)
LEMMA NothingRecognized ==
  ASSUME NEW n, Alike(n), NEW kn, KnownOk(kn), NEW list, MemoryOf(list, kn),
         NEW z \in Faces, NEW t \in Int, Recognize(list, <<>>, t) # "dead"
  PROVE  RightAnswer(kn, z, t, Recognize(list, <<>>, t))
<1>1. Len(list) \in Nat /\ DOMAIN list = 1 .. Len(list)
  BY LenProperties DEF MemoryOf
<1>2. ASSUME NEW i \in 1 .. Len(list) PROVE ~Comparable(list[i].feat_vec, <<>>)
  <2> DEFINE f == kn[list[i].id]
             v == list[i].feat_vec
  <2>1. f \in Faces /\ KeptOf(f, v)
    BY DEF MemoryOf, KnownOk
  <2> HIDE DEF f, v
  <2>2. v \in Vectors(n) /\ f \in Vectors(n) /\ Bounded(f)
    BY <2>1, KeptIs DEF Alike
  <2>3. Len(v) # 0
    BY <2>2 DEF Vectors, Bounded
  <2>4. Len(<<>>) = 0
    OBVIOUS
  <2>5. QED
    BY <2>3, <2>4 DEF Comparable, v
<1>3. Len(list) = 0
  <2>1. ~\E i \in DOMAIN list : ~Comparable(list[i].feat_vec, <<>>)
    BY DEF Recognize
  <2>2. QED
    BY <1>1, <1>2, <2>1
<1>4. DOMAIN kn = {}
  BY <1>3 DEF MemoryOf
<1>5. Nearest(list, <<>>, t) = 0
  <2> DEFINE d == Distances(list, <<>>)
             k == Nearest(list, <<>>, t)
  <2>1. d \in [1 .. Len(list) -> Int]
    BY <1>3 DEF Distances
  <2>2. Nearer(d, Len(list), t, k)
    BY <1>1, <2>1, NearestIs
  <2> HIDE DEF d, k
  <2>3. k = 0
    BY <1>3, <2>2 DEF Nearer
  <2>4. QED
    BY <2>3 DEF k
<1>6. Recognize(list, <<>>, t) = "unknown"
  BY <1>5 DEF Recognize
<1>7. QED
  BY <1>4, <1>6 DEF RightAnswer

----------------------------------------------------------------------------
(* Registration, withdrawal and restart.                                   *)

LEMMA ErasedAt ==
  ASSUME NEW S, NEW s \in Seq(S), NEW k \in 1..Len(s)
  PROVE  /\ RemoveAt(s, k) \in Seq(S)
         /\ Len(RemoveAt(s, k)) = Len(s) - 1
         /\ \A i \in 1..(Len(s) - 1) : RemoveAt(s, k)[i] = IF i < k THEN s[i] ELSE s[i + 1]
<1>1. Len(s) \in Nat /\ \A i \in 1..Len(s) : s[i] \in S
  BY LenProperties, ElementOfSeq
<1> DEFINE a == SubSeq(s, 1, k - 1)
           b == SubSeq(s, k + 1, Len(s))
<1>2. /\ a \in Seq(S)
      /\ Len(a) = k - 1
      /\ \A i \in 1..(k - 1) : a[i] = s[i]
  <2>1. 1 \in Int /\ k - 1 \in Int /\ \A i \in 1..(k - 1) : s[i] \in S
    BY <1>1
  <2>2. /\ a \in Seq(S)
        /\ Len(a) = IF 1 <= k - 1 THEN (k - 1) - 1 + 1 ELSE 0
        /\ \A i \in 1 .. (k - 1) - 1 + 1 : a[i] = s[1 + i - 1]
    BY <2>1, SubSeqProperties
  <2> HIDE DEF a
  <2>3. QED
    BY <2>2, <1>1
<1>3. /\ b \in Seq(S)
      /\ Len(b) = Len(s) - k
      /\ \A i \in 1..(Len(s) - k) : b[i] = s[k + i]
  <2>1. k + 1 \in Int /\ Len(s) \in Int /\ \A i \in (k + 1)..Len(s) : s[i] \in S
    BY <1>1
  <2>2. /\ b \in Seq(S)
        /\ Len(b) = IF k + 1 <= Len(s) THEN Len(s) - (k + 1) + 1 ELSE 0
        /\ \A i \in 1 .. Len(s) - (k + 1) + 1 : b[i] = s[(k + 1) + i - 1]
    BY <2>1, SubSeqProperties
  <2> HIDE DEF b
  <2>3. QED
    BY <2>2, <1>1
<1> HIDE DEF a, b
<1>4. /\ a \o b \in Seq(S)
      /\ Len(a \o b) = Len(a) + Len(b)
      /\ \A i \in 1..(Len(a) + Len(b)) :
           (a \o b)[i] = IF i <= Len(a) THEN a[i] ELSE b[i - Len(a)]
  BY <1>2, <1>3, ConcatProperties
<1>5. RemoveAt(s, k) = a \o b
  BY DEF RemoveAt, a, b
<1>6. ASSUME NEW i \in 1..(Len(s) - 1)
      PROVE  (a \o b)[i] = IF i < k THEN s[i] ELSE s[i + 1]
  <2>1. CASE i < k
    BY <2>1, <1>1, <1>2, <1>3, <1>4
  <2>2. CASE ~(i < k)
    <3>1. i - Len(a) \in 1..(Len(s) - k) /\ k + (i - Len(a)) = i + 1
      BY <2>2, <1>1, <1>2
    <3>2. b[i - Len(a)] = s[i + 1]
      BY <3>1, <1>3
    <3>3. i \in 1..(Len(a) + Len(b)) /\ ~(i <= Len(a))
      BY <2>2, <1>1, <1>2, <1>3
    <3>4. (a \o b)[i] = b[i - Len(a)]
      BY <3>3, <1>4
    <3>5. QED
      BY <2>2, <3>2, <3>4
  <2>3. QED
    BY <2>1, <2>2
<1>7. Len(a \o b) = Len(s) - 1
  BY <1>1, <1>2, <1>3, <1>4
<1>8. QED
  BY <1>4, <1>5, <1>6, <1>7

RowOf(kn, u) == [id |-> u, feat_vec |-> feat_vec_to_str(kn[u])]

RowsOf(kn) == {RowOf(kn, u) : u \in DOMAIN kn}

Added(kn, list, id, face, kn2, list2) ==
  /\ face \in Seq(Int) /\ \A i \in 1 .. Len(list) : list[i].id # id
  /\ kn2 = [u \in DOMAIN kn \cup {id} |-> IF u = id THEN face ELSE kn[u]]
  /\ list2 = Append(list, [id |-> id, feat_vec |-> face])

LEMMA RegistKeeps ==
  ASSUME NEW kn, KnownOk(kn), NEW list, MemoryOf(list, kn),
         NEW id \in UserId, NEW face \in Faces, NEW kn2, NEW list2,
         Added(kn, list, id, face, kn2, list2)
  PROVE  /\ KnownOk(kn2) /\ MemoryOf(list2, kn2)
         /\ RowsOf(kn2) = RowsOf(kn) \cup {RowOf(kn2, id)}
<1> DEFINE e == [id |-> id, feat_vec |-> face]
           n == Len(list)
<1>0. /\ face \in Seq(Int) /\ \A i \in 1 .. n : list[i].id # id
      /\ kn2 = [u \in DOMAIN kn \cup {id} |-> IF u = id THEN face ELSE kn[u]]
      /\ list2 = Append(list, e)
  BY DEF Added
<1>1. id \notin DOMAIN kn
  BY <1>0 DEF MemoryOf
<1>2. /\ DOMAIN kn2 = DOMAIN kn \cup {id} /\ kn2[id] = face
      /\ \A u \in DOMAIN kn : kn2[u] = kn[u] /\ u # id
  BY <1>0, <1>1
<1>3. KnownOk(kn2)
  <2>1. IsFiniteSet(DOMAIN kn \cup {id})
    BY FS_AddElement DEF KnownOk
  <2>2. kn2 \in [DOMAIN kn2 -> Faces]
    BY <1>0 DEF KnownOk
  <2>3. QED
    BY <1>2, <2>1, <2>2 DEF KnownOk
<1>4. e \in Entry /\ e.id = id /\ e.feat_vec = face
  BY <1>0 DEF Entry
<1> HIDE DEF e
<1>5. list \in Seq(Entry) /\ n \in Nat
  BY LenProperties DEF MemoryOf
<1>6. /\ list2 \in Seq(Entry) /\ Len(list2) = n + 1
      /\ \A i \in 1 .. n : list2[i] = list[i]
      /\ list2[n + 1] = e
  BY <1>0, <1>4, <1>5, AppendProperties
<1>7. \A i \in 1 .. n + 1 : i \in 1 .. n \/ i = n + 1
  BY <1>5
<1>8. ASSUME NEW i \in 1 .. n
      PROVE  /\ list[i].id \in DOMAIN kn /\ list[i].id # id
             /\ KeptOf(kn[list[i].id], list[i].feat_vec)
             /\ i \in 1 .. n + 1
  BY <1>0, <1>5 DEF MemoryOf
<1>9. ASSUME NEW i \in 1 .. n + 1
      PROVE  list2[i].id \in DOMAIN kn2 /\ KeptOf(kn2[list2[i].id], list2[i].feat_vec)
  <2>1. CASE i \in 1 .. n
    BY <1>2, <1>6, <1>8, <2>1
  <2>2. CASE i = n + 1
    BY <1>2, <1>4, <1>6, <2>2 DEF KeptOf
  <2>3. QED
    BY <1>7, <2>1, <2>2
<1>10. ASSUME NEW u \in DOMAIN kn2 PROVE \E i \in 1 .. n + 1 : list2[i].id = u
  <2>1. CASE u = id
    BY <1>4, <1>5, <1>6, <2>1
  <2>2. CASE u # id
    <3>1. PICK i \in 1 .. n : list[i].id = u
      BY <1>2, <2>2 DEF MemoryOf
    <3>2. QED
      BY <1>6, <1>8, <3>1
  <2>3. QED
    BY <2>1, <2>2
<1>11. ASSUME NEW i \in 1 .. n + 1, NEW j \in 1 .. n + 1, list2[i].id = list2[j].id
       PROVE  i = j
  <2>1. CASE i \in 1 .. n /\ j \in 1 .. n
    BY <1>6, <1>11, <2>1 DEF MemoryOf
  <2>2. CASE i \in 1 .. n /\ j = n + 1
    BY <1>4, <1>6, <1>8, <1>11, <2>2
  <2>3. CASE i = n + 1 /\ j \in 1 .. n
    BY <1>4, <1>6, <1>8, <1>11, <2>3
  <2>4. QED
    BY <1>7, <2>1, <2>2, <2>3
<1>12. MemoryOf(list2, kn2)
  <2> HIDE DEF n
  <2> QED
    BY <1>6, <1>9, <1>10, <1>11 DEF MemoryOf
<1>13. RowsOf(kn2) = RowsOf(kn) \cup {RowOf(kn2, id)}
  <2>1. \A u \in DOMAIN kn : RowOf(kn2, u) = RowOf(kn, u)
    BY <1>2 DEF RowOf
  <2>2. RowsOf(kn2) = {RowOf(kn2, u) : u \in DOMAIN kn \cup {id}}
    BY <1>2 DEF RowsOf
  <2>3. ASSUME NEW row
        PROVE  row \in RowsOf(kn2) <=> row \in RowsOf(kn) \/ row = RowOf(kn2, id)
    <3>1. row \in RowsOf(kn2) <=> \E u \in DOMAIN kn \cup {id} : row = RowOf(kn2, u)
      BY <2>2
    <3>2. row \in RowsOf(kn) <=> \E u \in DOMAIN kn : row = RowOf(kn, u)
      BY DEF RowsOf
    <3>3. QED
      BY <2>1, <3>1, <3>2
  <2>4. QED
    BY <2>3
<1>14. QED
  BY <1>3, <1>12, <1>13

LEMMA WithdrawKeeps ==
  ASSUME NEW kn, KnownOk(kn), NEW list, MemoryOf(list, kn), NEW id \in DOMAIN kn,
         NEW kn2, kn2 = [u \in DOMAIN kn \ {id} |-> kn[u]],
         NEW list2, list2 = RemoveAt(list, Min({i \in DOMAIN list : list[i].id = id}))
  PROVE  /\ KnownOk(kn2) /\ MemoryOf(list2, kn2)
         /\ RowsOf(kn2) = {row \in RowsOf(kn) : row.id # id}
<1> DEFINE n == Len(list)
<1>1. list \in Seq(Entry) /\ n \in Nat /\ DOMAIN list = 1 .. n
  BY LenProperties DEF MemoryOf
<1>2. PICK k \in 1 .. n : list[k].id = id
  BY DEF MemoryOf
<1>3. \A i \in 1 .. n : list[i].id = id => i = k
  BY <1>2 DEF MemoryOf
<1>4. list2 = RemoveAt(list, k)
  <2>1. {i \in DOMAIN list : list[i].id = id} = {k}
    BY <1>1, <1>2, <1>3
  <2>2. Min({k}) = k
    <3>1. k <= k
      BY <1>1
    <3>2. QED
      BY <3>1 DEF Min
  <2>3. QED
    BY <2>1, <2>2
<1>5. /\ list2 \in Seq(Entry) /\ Len(list2) = n - 1
      /\ \A i \in 1 .. n - 1 : list2[i] = IF i < k THEN list[i] ELSE list[i + 1]
  BY <1>1, <1>2, <1>4, ErasedAt
<1> DEFINE at(i) == IF i < k THEN i ELSE i + 1
<1>6. ASSUME NEW i \in 1 .. n - 1
      PROVE  at(i) \in 1 .. n /\ at(i) # k /\ list2[i] = list[at(i)]
  BY <1>1, <1>2, <1>5
<1>7. \A i, j \in 1 .. n - 1 : at(i) = at(j) => i = j
  BY <1>1, <1>2
<1>8. \A j \in 1 .. n : j # k => \E i \in 1 .. n - 1 : at(i) = j
  <2>1. ASSUME NEW j \in 1 .. n, j # k PROVE \E i \in 1 .. n - 1 : at(i) = j
    <3>1. CASE j < k
      <4>1. j \in 1 .. n - 1 /\ at(j) = j
        BY <1>1, <1>2, <3>1
      <4> HIDE DEF at
      <4>2. QED
        BY <4>1
    <3>2. CASE ~(j < k)
      <4>1. j - 1 \in 1 .. n - 1 /\ at(j - 1) = j
        BY <1>1, <1>2, <2>1, <3>2
      <4> HIDE DEF at
      <4>2. QED
        BY <4>1
    <3>3. QED
      BY <3>1, <3>2
  <2>2. QED
    BY <2>1
<1> HIDE DEF at
<1>9. DOMAIN kn2 = DOMAIN kn \ {id} /\ \A u \in DOMAIN kn2 : kn2[u] = kn[u]
  OBVIOUS
<1>10. KnownOk(kn2)
  <2>1. IsFiniteSet(DOMAIN kn \ {id})
    BY FS_RemoveElement DEF KnownOk
  <2>2. kn2 \in [DOMAIN kn2 -> Faces]
    BY DEF KnownOk
  <2>3. QED
    BY <1>9, <2>1, <2>2 DEF KnownOk
<1>11. ASSUME NEW i \in 1 .. n - 1
       PROVE  list2[i].id \in DOMAIN kn2 /\ KeptOf(kn2[list2[i].id], list2[i].feat_vec)
  <2>1. /\ list[at(i)].id \in DOMAIN kn /\ list[at(i)].id # id
        /\ KeptOf(kn[list[at(i)].id], list[at(i)].feat_vec)
    BY <1>3, <1>6 DEF MemoryOf
  <2>2. QED
    BY <1>6, <1>9, <2>1
<1>12. ASSUME NEW u \in DOMAIN kn2 PROVE \E i \in 1 .. n - 1 : list2[i].id = u
  <2>1. PICK j \in 1 .. n : list[j].id = u
    BY <1>9 DEF MemoryOf
  <2>2. j # k
    BY <1>2, <1>9, <2>1
  <2>3. PICK i \in 1 .. n - 1 : at(i) = j
    BY <1>8, <2>2
  <2>4. QED
    BY <1>6, <2>1, <2>3
<1>13. ASSUME NEW i \in 1 .. n - 1, NEW j \in 1 .. n - 1, list2[i].id = list2[j].id
       PROVE  i = j
  <2>1. at(i) \in 1 .. n /\ at(j) \in 1 .. n /\ list[at(i)].id = list[at(j)].id
    BY <1>6, <1>13
  <2>2. at(i) = at(j)
    BY <2>1 DEF MemoryOf
  <2>3. QED
    BY <1>7, <2>2
<1>14. MemoryOf(list2, kn2)
  <2> HIDE DEF n
  <2> QED
    BY <1>5, <1>11, <1>12, <1>13 DEF MemoryOf
<1>15. RowsOf(kn2) = {row \in RowsOf(kn) : row.id # id}
  <2>1. \A u \in DOMAIN kn2 : RowOf(kn2, u) = RowOf(kn, u)
    BY <1>9 DEF RowOf
  <2>2. \A u : RowOf(kn, u).id = u
    BY DEF RowOf
  <2>3. ASSUME NEW row
        PROVE  row \in RowsOf(kn2) <=> row \in RowsOf(kn) /\ row.id # id
    <3>1. row \in RowsOf(kn2) <=> \E u \in DOMAIN kn2 : row = RowOf(kn2, u)
      BY DEF RowsOf
    <3>2. row \in RowsOf(kn) <=> \E u \in DOMAIN kn : row = RowOf(kn, u)
      BY DEF RowsOf
    <3>3. QED
      BY <1>9, <2>1, <2>2, <3>1, <3>2
  <2>4. QED
    BY <2>3
<1>16. QED
  BY <1>10, <1>14, <1>15

LEMMA ReloadKeeps ==
  ASSUME NEW n, Alike(n), NEW kn, KnownOk(kn), NEW rows \in SetToSeqs(RowsOf(kn)),
         NEW list,
         list = [i \in DOMAIN rows |->
                   [id |-> rows[i].id, feat_vec |-> str_to_feat_vec(rows[i].feat_vec)]]
  PROVE  MemoryOf(list, kn)
<1> DEFINE S == RowsOf(kn)
           c == Cardinality(S)
           D == 1 .. c
<1>1. IsFiniteSet(S) /\ c \in Nat
  <2> DEFINE g == [u \in DOMAIN kn |-> RowOf(kn, u)]
             U == DOMAIN kn
  <2>1. DOMAIN g = U /\ IsFiniteSet(U)
    BY DEF KnownOk
  <2>2. S = {g[u] : u \in U}
    BY DEF RowsOf
  <2> HIDE DEF g, U, S
  <2>3. IsFiniteSet(S)
    BY <2>1, <2>2, ImageBound
  <2>4. QED
    BY <2>3, FS_CardinalityType
<1>2. rows \in [D -> S] /\ \A i, j \in D : i # j => rows[i] # rows[j]
  BY DEF SetToSeqs
<1> HIDE DEF S, c
<1>3. \A s \in S : \E i \in D : rows[i] = s
  <2>1. rows \in Injection(D, S)
    BY <1>2 DEF Injection, IsInjective
  <2>2. IsFiniteSet(D) /\ Cardinality(D) = c
    BY <1>1, FS_Interval
  <2>3. rows \in Surjection(D, S)
    BY <1>1, <2>1, <2>2, FS_Injection DEF c
  <2>4. QED
    BY <2>3 DEF Surjection
<1>4. ASSUME NEW i \in D
      PROVE  /\ rows[i].id \in DOMAIN kn /\ rows[i] = RowOf(kn, rows[i].id)
             /\ str_to_feat_vec(rows[i].feat_vec) = Reread(kn[rows[i].id])
             /\ Reread(kn[rows[i].id]) \in Seq(Int)
  <2>1. PICK u \in DOMAIN kn : rows[i] = RowOf(kn, u)
    BY <1>2 DEF S, RowsOf
  <2>2. rows[i].id = u /\ rows[i].feat_vec = feat_vec_to_str(kn[u])
    BY <2>1 DEF RowOf
  <2>3. n \in Nat /\ kn[u] \in Vectors(n) /\ Bounded(kn[u])
    BY DEF KnownOk, Alike
  <2>4. str_to_feat_vec(feat_vec_to_str(kn[u])) = Reread(kn[u]) /\ Reread(kn[u]) \in Vectors(n)
    BY <2>3, BackAndForth, RereadNear
  <2>5. QED
    BY <2>1, <2>2, <2>4 DEF Vectors
<1>5. DOMAIN list = D
      /\ \A i \in D : list[i].id = rows[i].id /\ list[i].feat_vec = Reread(kn[rows[i].id])
  BY <1>2, <1>4
<1>6. list \in Seq(Entry) /\ Len(list) = c
  <2>1. ASSUME NEW i \in D PROVE list[i] \in Entry
    <3>1. list[i] = [id |-> rows[i].id, feat_vec |-> Reread(kn[rows[i].id])]
      BY <1>2, <1>4
    <3>2. rows[i].id \in UserId /\ Reread(kn[rows[i].id]) \in Seq(Int)
      BY <1>4 DEF KnownOk
    <3>3. QED
      BY <3>1, <3>2 DEF Entry
  <2> DEFINE e(i) == [id |-> rows[i].id, feat_vec |-> str_to_feat_vec(rows[i].feat_vec)]
  <2>2. list = [i \in D |-> e(i)]
    BY <1>2
  <2> HIDE DEF e
  <2>3. list \in [1 .. c -> Entry]
    BY <2>1, <2>2
  <2>4. QED
    BY <1>1, <2>3
<1>7. \A i \in D : list[i].id \in DOMAIN kn /\ KeptOf(kn[list[i].id], list[i].feat_vec)
  BY <1>4, <1>5 DEF KeptOf
<1>8. ASSUME NEW u \in DOMAIN kn PROVE \E i \in D : list[i].id = u
  <2>1. RowOf(kn, u) \in S /\ RowOf(kn, u).id = u
    BY DEF S, RowsOf, RowOf
  <2>2. PICK i \in D : rows[i] = RowOf(kn, u)
    BY <1>3, <2>1
  <2>3. QED
    BY <1>5, <2>1, <2>2
<1>9. ASSUME NEW i \in D, NEW j \in D, list[i].id = list[j].id PROVE i = j
  <2>1. rows[i] = rows[j]
    BY <1>4, <1>5, <1>9
  <2>2. QED
    BY <1>2, <2>1
<1>10. QED
  BY <1>6, <1>7, <1>8, <1>9 DEF MemoryOf

(* The users in memory and the rows of the database are those registered,  *)
(* and the last answer was right for them.                                 *)
Stored == KnownOk(known) /\ MemoryOf(recUsers, known) /\ tbl_user = RowsOf(known)

RecInv == Stored /\ RegisteredIsRecognised

LEMMA RecInvInit == RecInit => RecInv
<1>1. SUFFICES ASSUME RecInit PROVE RecInv
  OBVIOUS
<1>2. DOMAIN known = {} /\ Len(recUsers) = 0 /\ recUsers \in Seq(Entry)
  BY <1>1 DEF RecInit
<1>3. KnownOk(known)
  <2>1. known \in [DOMAIN known -> Faces]
    BY <1>1 DEF RecInit
  <2>2. QED
    BY <1>2, <2>1, FS_EmptySet DEF KnownOk
<1>4. MemoryOf(recUsers, known)
  BY <1>2 DEF MemoryOf
<1>5. tbl_user = RowsOf(known)
  BY <1>1, <1>2 DEF RecInit, RowsOf
<1>6. RegisteredIsRecognised
  BY <1>1 DEF RecInit, RegisteredIsRecognised
<1>7. QED
  BY <1>3, <1>4, <1>5, <1>6 DEF RecInv, Stored

LEMMA RecInvStep ==
  ASSUME RecInv, RecNext
  PROVE  RecInv'
<1>1. PICK n : Alike(n)
  BY Dimension
<1>2. KnownOk(known) /\ MemoryOf(recUsers, known) /\ tbl_user = RowsOf(known)
  BY DEF RecInv, Stored
<1>3. DOMAIN recUsers = 1 .. Len(recUsers)
  BY <1>2, LenProperties DEF MemoryOf
<1>4. ASSUME UNCHANGED <<recUsers, tbl_user, known>> PROVE Stored'
  BY <1>2, <1>4 DEF Stored
<1>5. ASSUME Quiet PROVE RegisteredIsRecognised'
  BY <1>5 DEF Quiet, RegisteredIsRecognised
<1>6. ASSUME NEW id \in UserId, NEW face \in Faces, NEW ok \in BOOLEAN, Regist(id, face, ok)
      PROVE  RecInv'
  <2>1. Quiet
    BY <1>6 DEF Regist
  <2>2. CASE UNCHANGED <<recUsers, tbl_user, known>>
    BY <1>4, <1>5, <2>1, <2>2 DEF RecInv
  <2>3. CASE ~UNCHANGED <<recUsers, tbl_user, known>>
    <3>1. /\ \A i \in 1 .. Len(recUsers) : recUsers[i].id # id
          /\ recUsers' = Append(recUsers, [id |-> id, feat_vec |-> face])
          /\ tbl_user' = tbl_user \cup {[id |-> id, feat_vec |-> feat_vec_to_str(face)]}
          /\ known' = [u \in DOMAIN known \cup {id} |-> IF u = id THEN face ELSE known[u]]
      BY <1>3, <1>6, <2>3 DEF Regist, extract_feat_vec
    <3>2. face \in Seq(Int)
      BY <1>1 DEF Alike, Vectors
    <3>3. /\ KnownOk(known') /\ MemoryOf(recUsers', known')
          /\ RowsOf(known') = RowsOf(known) \cup {RowOf(known', id)}
      <4>1. PICK kn2, list2 : kn2 = known' /\ list2 = recUsers'
        OBVIOUS
      <4>2. /\ kn2 = [u \in DOMAIN known \cup {id} |-> IF u = id THEN face ELSE known[u]]
            /\ list2 = Append(recUsers, [id |-> id, feat_vec |-> face])
        BY <3>1, <4>1
      <4>3. /\ KnownOk(kn2) /\ MemoryOf(list2, kn2)
            /\ RowsOf(kn2) = RowsOf(known) \cup {RowOf(kn2, id)}
        <5>1. Added(known, recUsers, id, face, kn2, list2)
          BY <3>1, <3>2, <4>2 DEF Added
        <5>2. QED
          BY <1>2, <5>1, RegistKeeps
      <4>4. QED
        BY <4>1, <4>3
    <3>4. RowOf(known', id) = [id |-> id, feat_vec |-> feat_vec_to_str(face)]
      <4>1. known'[id] = face
        BY <3>1
      <4>2. QED
        BY <4>1 DEF RowOf
    <3>5. Stored'
      BY <1>2, <3>1, <3>3, <3>4 DEF Stored
    <3>6. QED
      BY <1>5, <2>1, <3>5 DEF RecInv
  <2>4. QED
    BY <2>2, <2>3
<1>7. ASSUME NEW id \in UserId, Withdraw(id) PROVE RecInv'
  <2>1. /\ id \in DOMAIN known
        /\ recUsers' = RemoveAt(recUsers, Min({i \in DOMAIN recUsers : recUsers[i].id = id}))
        /\ tbl_user' = {row \in tbl_user : row.id # id}
        /\ known' = [u \in DOMAIN known \ {id} |-> known[u]]
        /\ Quiet
    BY <1>7 DEF Withdraw
  <2>2. /\ KnownOk(known') /\ MemoryOf(recUsers', known')
        /\ RowsOf(known') = {row \in RowsOf(known) : row.id # id}
    BY <1>2, <2>1, WithdrawKeeps
  <2>3. Stored'
    BY <1>2, <2>1, <2>2 DEF Stored
  <2>4. QED
    BY <1>5, <2>1, <2>3 DEF RecInv
<1>8. ASSUME Reload PROVE RecInv'
  <2>1. UNCHANGED <<tbl_user, known>> /\ Quiet
    BY <1>8 DEF Reload
  <2>2. PICK rows \in SetToSeqs(RowsOf(known)) :
          recUsers' = [i \in DOMAIN rows |->
                         [id |-> rows[i].id, feat_vec |-> str_to_feat_vec(rows[i].feat_vec)]]
    BY <1>2, <1>8 DEF Reload
  <2>3. MemoryOf(recUsers', known)
    BY <1>1, <1>2, <2>2, ReloadKeeps
  <2>4. Stored'
    BY <1>2, <2>1, <2>3 DEF Stored
  <2>5. QED
    BY <1>5, <2>1, <2>4 DEF RecInv
<1>9. ASSUME NEW face \in Faces, NEW threshold \in Thresholds, NEW ok \in BOOLEAN,
             Ask(face, threshold, ok)
      PROVE  RecInv'
  <2>1. /\ asked' = [face |-> face, threshold |-> threshold]
        /\ answer' = Recognize(recUsers, extract_feat_vec(face, ok), threshold)
        /\ UNCHANGED <<recUsers, tbl_user, known>>
    BY <1>9 DEF Ask
  <2>2. threshold \in Int
    BY ThresholdAssumption
  <2>3. answer' # "dead" => RightAnswer(known, face, threshold, answer')
    <3>1. CASE ok
      BY <1>1, <1>2, <2>1, <2>2, <3>1, Recognized DEF extract_feat_vec
    <3>2. CASE ~ok
      BY <1>1, <1>2, <2>1, <2>2, <3>2, NothingRecognized DEF extract_feat_vec
    <3>3. QED
      BY <3>1, <3>2
  <2>4. asked'.face = face /\ asked'.threshold = threshold /\ known' = known
    BY <2>1
  <2>5. RegisteredIsRecognised'
    BY <2>3, <2>4 DEF RegisteredIsRecognised, RightAnswer, Distance
  <2>6. QED
    BY <1>4, <2>1, <2>5 DEF RecInv
<1>10. QED
  BY <1>6, <1>7, <1>8, <1>9 DEF RecNext

LEMMA RecInvRests ==
  ASSUME RecInv, UNCHANGED recVars
  PROVE  RecInv'
<1>1. UNCHANGED <<recUsers, tbl_user, known, asked, answer>>
  BY DEF recVars
<1>2. Stored'
  BY <1>1 DEF RecInv, Stored
<1>3. RegisteredIsRecognised'
  BY <1>1 DEF RecInv, RegisteredIsRecognised, Distance
<1>4. QED
  BY <1>2, <1>3 DEF RecInv

(* For any number of users, any unit vectors and any thresholds: whatever  *)
(* was registered, withdrawn and reloaded from the text of the database    *)
(* before, the user a face is recognized as is registered, as near as any  *)
(* other and nearer than the threshold, and a face is unknown only when no *)
(* registered user is nearer, up to the digits the text leaves out         *)
(* (user_mgt.cpp:67-147, insightface_recognizer.cpp:318-364).              *)
THEOREM RecognitionIsRight == Spec => []RegisteredIsRecognised
<1>1. Init => RecInv
  BY RecInvInit DEF Init
<1>2. RecInv /\ [Next]_visionVars => RecInv'
  <2>1. SUFFICES ASSUME RecInv, [Next]_visionVars PROVE RecInv'
    OBVIOUS
  <2>2. CASE RecognizeStep
    BY <2>1, <2>2, RecInvStep DEF RecognizeStep
  <2>3. CASE NetStep \/ DetectStep \/ CallStep
    <3>1. UNCHANGED recVars
      BY <2>3 DEF NetStep, DetectStep, CallStep
    <3>2. QED
      BY <2>1, <3>1, RecInvRests
  <2>4. CASE UNCHANGED visionVars
    <3>1. UNCHANGED recVars
      BY <2>4 DEF visionVars
    <3>2. QED
      BY <2>1, <3>1, RecInvRests
  <2>5. QED
    BY <2>1, <2>2, <2>3, <2>4 DEF Next
<1>3. RecInv => RegisteredIsRecognised
  BY DEF RecInv
<1>4. QED
  BY <1>1, <1>2, <1>3, PTL DEF Spec
----------------------------------------------------------------------------
(* The pure functions of Kernels, for all sizes: the convolutions.          *)

(* Quotients and remainders.                                                *)
LEMMA Remainder ==
  ASSUME NEW a \in Int, NEW d \in Nat \ {0}
  PROVE  /\ a \div d \in Int /\ a % d \in 0 .. d - 1
         /\ a = d * (a \div d) + (a % d)
         /\ a \in Nat => a \div d \in Nat
<1>1. PICK q, r : q = a \div d /\ r = a % d
  OBVIOUS
<1>2. q \in Int /\ r \in 0 .. d - 1
  BY <1>1
<1>3. a = d * q + r
  BY <1>1, <1>2
<1>4. QED
  BY <1>1, <1>2, <1>3

(* What has that form has that quotient and that remainder.                 *)
LEMMA Divides ==
  ASSUME NEW q \in Int, NEW d \in Nat \ {0}, NEW r \in 0 .. d - 1
  PROVE  (d * q + r) \div d = q /\ (d * q + r) % d = r
OBVIOUS

(* The row pointers of the unrolled kernels are at the beginnings of rows.  *)
LEMMA RowsInPairs ==
  ASSUME NEW k \in {3, 5}, NEW w \in Nat, NEW h \in Nat, k <= w, k <= h,
         NEW i \in 0 .. h - k
  PROVE  K!RowStart(i, k, w, w - k + 1, h - k + 1) = w * i
<1>1. PICK a, b, q, r : /\ a = i \div 2 /\ b = i % 2
                        /\ q = (h - k + 1) \div 2 /\ r = (h - k + 1) % 2
  OBVIOUS
<1>2. /\ a \in Nat /\ b \in 0 .. 1 /\ i = 2 * a + b
      /\ q \in Nat /\ r \in 0 .. 1 /\ h - k + 1 = 2 * q + r
  <2>1. i \in Nat /\ h - k + 1 \in Nat
    OBVIOUS
  <2>2. QED
    BY <1>1, <2>1, Remainder
<1>3. (w - k + 1) + (k - 1) + w = 2 * w
  OBVIOUS
<1>4. CASE i < 2 * q
  <2>1. K!RowStart(i, k, w, w - k + 1, h - k + 1) = a * (2 * w) + b * w
    BY <1>1, <1>3, <1>4 DEF K!RowStart
  <2>2. a * (2 * w) = w * (2 * a) /\ w * (2 * a + b) = w * (2 * a) + w * b
    BY <1>2
  <2>3. QED
    BY <1>2, <2>1, <2>2
<1>5. CASE ~(i < 2 * q)
  <2>1. K!RowStart(i, k, w, w - k + 1, h - k + 1) = q * (2 * w)
    BY <1>1, <1>3, <1>5 DEF K!RowStart
  <2>2. i = 2 * q
    BY <1>2, <1>5
  <2>3. QED
    BY <1>2, <2>1, <2>2
<1>6. QED
  BY <1>4, <1>5

(* Element t of the kernels of the channels, in rows and in one sequence.   *)
LEMMA KernelPlace ==
  ASSUME NEW k \in {3, 5}, NEW w \in Nat, NEW t \in Nat
  PROVE  /\ t % (k * k) \in 0 .. k * k - 1
         /\ ((t % (k * k)) \div k) * w + (t % k)
              = (t % (k * k)) * 1 + ((t % (k * k)) \div k) * (w * 1 - k * 1)
<1>1. PICK n, u, a, b, q : n = k * k /\ u = t % n /\ a = u \div k /\ b = u % k /\ q = t \div n
  OBVIOUS
<1>2. /\ n \in Nat \ {0} /\ q \in Nat /\ u \in 0 .. n - 1 /\ t = n * q + u
      /\ k \in Nat \ {0} /\ a \in Nat /\ b \in 0 .. k - 1 /\ u = k * a + b
  <2>1. n \in Nat \ {0} /\ k \in Nat \ {0}
    BY <1>1
  <2>2. q \in Nat /\ u \in 0 .. n - 1 /\ t = n * q + u
    <3>1. t \in Int
      OBVIOUS
    <3>2. /\ t \div n \in Int /\ t % n \in 0 .. n - 1
          /\ t = n * (t \div n) + (t % n)
          /\ t \in Nat => t \div n \in Nat
      BY <2>1, <3>1, Remainder, Zenon
    <3>3. QED
      BY <1>1, <3>2, Zenon
  <2>3. u \in Nat
    BY <2>1, <2>2
  <2>4. a \in Nat /\ b \in 0 .. k - 1 /\ u = k * a + b
    <3>1. u \in Int
      BY <2>3
    <3>2. /\ u \div k \in Int /\ u % k \in 0 .. k - 1
          /\ u = k * (u \div k) + (u % k)
          /\ u \in Nat => u \div k \in Nat
      BY <2>1, <3>1, Remainder, Zenon
    <3>3. QED
      BY <1>1, <2>3, <3>2, Zenon
  <2>5. QED
    BY <2>1, <2>2, <2>4
<1>3. t % k = b
  <2>1. k * q + a \in Int /\ t = k * (k * q + a) + b
    BY <1>1, <1>2
  <2>2. QED
    BY <1>2, <2>1, Divides
<1>4. a * (w * 1 - k * 1) = a * w - k * a
  BY <1>2
<1>5. a * w \in Int /\ k * a \in Int
  BY <1>2
<1>6. a * w + b = u * 1 + a * (w * 1 - k * 1)
  BY <1>2, <1>4, <1>5
<1>7. QED
  BY <1>1, <1>2, <1>3, <1>6

(* Row and column of an element of an image.                                *)
LEMMA Inside2 ==
  ASSUME NEW w \in Nat \ {0}, NEW h \in Nat, NEW v \in Nat, v < w * h
  PROVE  v \div w \in 0 .. h - 1 /\ v % w \in 0 .. w - 1
<1>1. PICK q, r : q = v \div w /\ r = v % w
  OBVIOUS
<1>2. v \in Int
  OBVIOUS
<1>3. /\ v \div w \in Int /\ v % w \in 0 .. w - 1
      /\ v = w * (v \div w) + (v % w)
      /\ v \in Nat => v \div w \in Nat
  BY <1>2, Remainder, Zenon
<1>4. q \in Nat /\ r \in 0 .. w - 1 /\ v = w * q + r
  BY <1>1, <1>3, Zenon
<1>5. q < h
  <2>1. SUFFICES ASSUME h <= q PROVE FALSE
    BY <1>4
  <2>2. PICK d \in Nat : q = h + d
    <3>1. q - h \in Nat /\ q = h + (q - h)
      BY <1>4, <2>1
    <3>2. QED
      BY <3>1
  <2>3. w * (h + d) = w * h + w * d /\ w * d \in Nat
    BY <2>2
  <2>4. w * q \in Nat /\ w * h \in Nat
    BY <1>4
  <2>5. QED
    BY <1>4, <2>2, <2>3, <2>4
<1>6. QED
  BY <1>1, <1>4, <1>5

(* Channels do not overlap.                                                 *)
LEMMA Channels ==
  ASSUME NEW w \in Nat, NEW h \in Nat
  PROVE  K!CStep(3, w, h) \in Nat /\ w * h <= K!CStep(3, w, h)
<1>1. PICK s : s = w * h
  OBVIOUS
<1>2. s \in Nat
  BY <1>1
<1>3. PICK q : q = (s * 4 + 16 - 1) \div 16
  OBVIOUS
<1>4. q \in Nat /\ s * 4 <= 16 * q
  <2>1. s * 4 + 16 - 1 \in Nat
    BY <1>2
  <2>2. QED
    BY <1>2, <1>3, <2>1
<1>5. K!CStep(3, w, h) = (q * 16) \div 4
  BY <1>1, <1>3 DEF K!CStep, K!AlignSize, K!Bytes
<1>6. (q * 16) \div 4 = 4 * q
  BY <1>4
<1>7. QED
  BY <1>1, <1>2, <1>4, <1>5, <1>6

(* The image a convolution looks at, with its border.                       *)
BorderedFor(p, bottom) ==
  LET extent == p.dilation * (p.kernel_size - 1) + 1
  IN  K!Bordered(bottom, p.pad, extent, extent, p.stride, p.stride, 0)

LEMMA Unrolled ==
  ASSUME NEW p, NEW bottom, NEW weights, NEW bias, NEW m, m = BorderedFor(p, bottom),
         p.kernel_size \in {3, 5}, p.stride = 1, p.dilation = 1, p.num_output \in Nat,
         m.w \in Nat, m.h \in Nat, m.c \in Nat, m.cstep \in Nat,
         p.kernel_size <= m.w, p.kernel_size <= m.h
  PROVE  K!ConvUnrolled(p.kernel_size, m,
           K!Create(3, m.w - p.kernel_size + 1, m.h - p.kernel_size + 1, p.num_output),
           weights, bias)
         = K!ConvolutionForward(p, bottom, weights, bias)
<1> DEFINE k == p.kernel_size
           n == p.num_output
           extent == p.dilation * (k - 1) + 1
           b == BorderedFor(p, bottom)
           top == K!Create(3, b.w - k + 1, b.h - k + 1, n)
           maxk == k * k
           ofs == K!SpaceOfs(b.w, k, k, p.dilation)
           fast(o, i, j, t) ==
             b.data[(b.cstep * (t \div (k * k)) + K!RowStart(i, k, b.w, top.w, top.h) + j)
                    + ((t % (k * k)) \div k) * b.w + (t % k)] * weights[o * b.c * k * k + t]
           slow(o, i, j, t) ==
             b.data[(b.cstep * (t \div maxk) + b.w * i * p.stride + j * p.stride)
                    + ofs[t % maxk]] * weights[maxk * b.c * o + t]
           Fast(o, i, j) == K!BiasOf(bias, o) + K!SumOver(b.c * k * k, LAMBDA t : fast(o, i, j, t))
           Slow(o, i, j) == K!BiasOf(bias, o) + K!SumOver(maxk * b.c, LAMBDA t : slow(o, i, j, t))
<1>1. top.w = b.w - k + 1 /\ top.h = b.h - k + 1 /\ top.c = n
  BY DEF K!Create, K!Filled
<1>2. K!ConvUnrolled(k, b, top, weights, bias) = K!Image(3, top.w, top.h, top.c, Fast)
  BY DEF K!ConvUnrolled
<1>3. K!ConvolutionForward(p, bottom, weights, bias)
        = K!Image(3, (b.w - extent) \div p.stride + 1, (b.h - extent) \div p.stride + 1, n, Slow)
  BY DEF K!ConvolutionForward, BorderedFor
<1>4. /\ b.w \in Nat /\ b.h \in Nat /\ b.c \in Nat /\ b.cstep \in Nat /\ k <= b.w /\ k <= b.h
      /\ k \in {3, 5} /\ n \in Nat
  OBVIOUS
<1> HIDE DEF b
<1>5. /\ (b.w - extent) \div p.stride + 1 = b.w - k + 1
      /\ (b.h - extent) \div p.stride + 1 = b.h - k + 1
  <2>1. extent = k
    BY <1>4
  <2>2. \A v \in Int : v \div 1 = v
    OBVIOUS
  <2>3. QED
    BY <1>4, <2>1, <2>2
<1>6. ASSUME NEW o \in Nat, NEW i \in 0 .. b.h - k, NEW j \in 0 .. b.w - k
      PROVE  Fast(o, i, j) = Slow(o, i, j)
  <2> DEFINE T == 0 .. maxk * b.c - 1
  <2>1. b.c * k * k = maxk * b.c
    BY <1>4
  <2>2. ASSUME NEW t \in T PROVE fast(o, i, j, t) = slow(o, i, j, t)
    <3>1. t \in Nat
      BY <1>4
    <3>2. /\ t % (k * k) \in 0 .. k * k - 1
          /\ ((t % (k * k)) \div k) * b.w + (t % k)
               = (t % (k * k)) * 1 + ((t % (k * k)) \div k) * (b.w * 1 - k * 1)
      BY <1>4, <3>1, KernelPlace, Zenon
    <3>3. ofs[t % maxk] = ((t % (k * k)) \div k) * b.w + (t % k)
      <4>1. ofs[t % maxk] = (t % maxk) * 1 + ((t % maxk) \div k) * (b.w * 1 - k * 1)
        BY <3>2 DEF K!SpaceOfs
      <4>2. QED
        BY <3>2, <4>1
    <3>4. K!RowStart(i, k, b.w, top.w, top.h) = b.w * i
      BY <1>1, <1>4, RowsInPairs
    <3>5. o * b.c * k * k = maxk * b.c * o
      BY <1>4
    <3>6. b.w * i * p.stride = b.w * i /\ j * p.stride = j
      BY <1>4
    <3>7. QED
      <4> HIDE DEF ofs, top
      <4>1. PICK q, r, a, x, y : /\ q = b.cstep * (t \div (k * k)) /\ r = b.w * i
                                 /\ a = ((t % (k * k)) \div k) * b.w /\ x = t % k
        OBVIOUS
      <4>2. q \in Int /\ r \in Int /\ a \in Int /\ x \in Int
        BY <1>4, <3>1, <4>1
      <4>3. (q + r + j) + a + x = (q + r + j) + (a + x)
        BY <4>2
      <4>4. QED
        BY <3>3, <3>4, <3>5, <3>6, <4>1, <4>3
  <2> DEFINE S == 0 .. b.c * k * k - 1
             pick(s) == CHOOSE x \in s : TRUE
             A(g) == [s \in SUBSET S |-> IF s = {} THEN 0
                                         ELSE fast(o, i, j, pick(s)) + g[s \ {pick(s)}]]
             B(g) == [s \in SUBSET T |-> IF s = {} THEN 0
                                         ELSE slow(o, i, j, pick(s)) + g[s \ {pick(s)}]]
  <2>3. ASSUME NEW g PROVE A(g) = B(g)
    <3>1. S = T
      BY <2>1
    <3>2. \A s \in SUBSET T : s # {} => pick(s) \in T
      OBVIOUS
    <3>3. \A s \in SUBSET T : s # {} => fast(o, i, j, pick(s)) = slow(o, i, j, pick(s))
      <4> HIDE DEF pick, fast, slow, T
      <4> QED
        BY <2>2, <3>2
    <3>4. QED
      <4> HIDE DEF pick, fast, slow, S, T
      <4> QED
        BY <3>1, <3>3
  <2>4. (CHOOSE g : g = A(g)) = (CHOOSE g : g = B(g))
    <3> HIDE DEF A, B
    <3> QED
      BY <2>3
  <2>5. K!SumOver(b.c * k * k, LAMBDA t : fast(o, i, j, t)) = (CHOOSE g : g = A(g))[S]
    BY DEF K!SumOver, K!MapThenSumSet, K!MapThenFoldSet
  <2>6. K!SumOver(maxk * b.c, LAMBDA t : slow(o, i, j, t)) = (CHOOSE g : g = B(g))[T]
    BY DEF K!SumOver, K!MapThenSumSet, K!MapThenFoldSet
  <2>7. QED
    <3> HIDE DEF A, B, fast, slow
    <3> QED
      BY <2>1, <2>4, <2>5, <2>6
<1>7. K!Image(3, b.w - k + 1, b.h - k + 1, n, Fast) = K!Image(3, b.w - k + 1, b.h - k + 1, n, Slow)
  <2> DEFINE w == b.w - k + 1
             h == b.h - k + 1
             step == K!CStep(3, w, h)
  <2>1. w \in Nat \ {0} /\ h \in Nat \ {0}
    BY <1>4
  <2>2. step \in Nat \ {0}
    <3>1. w * h \in Nat \ {0}
      BY <2>1
    <3>2. step \in Nat /\ w * h <= step
      <4> HIDE DEF w, h
      <4> QED
        BY <2>1, Channels
    <3>3. QED
      <4> HIDE DEF w, h, step
      <4> QED
        BY <3>1, <3>2
  <2>3. ASSUME NEW v \in 0 .. step * n - 1, ~(v % step >= w * h)
        PROVE  Fast(v \div step, (v % step) \div w, (v % step) % w)
               = Slow(v \div step, (v % step) \div w, (v % step) % w)
    <3> HIDE DEF step, w, h, Fast, Slow
    <3>1. v \in Int /\ v \in Nat
      OBVIOUS
    <3>2. v \div step \in Nat /\ v % step \in 0 .. step - 1
      BY <2>2, <3>1, Remainder, Zenon
    <3>3. v % step \in Nat /\ v % step < w * h
      <4>1. w * h \in Nat
        BY <2>1
      <4>2. QED
        BY <2>2, <2>3, <3>2, <4>1
    <3>4. (v % step) \div w \in 0 .. h - 1 /\ (v % step) % w \in 0 .. w - 1
      BY <2>1, <3>3, Inside2
    <3>5. h - 1 = b.h - k /\ w - 1 = b.w - k
      BY <1>4 DEF w, h
    <3>6. QED
      BY <1>6, <3>2, <3>4, <3>5
  <2>4. QED
    <3> HIDE DEF Fast, Slow
    <3> QED
      BY <2>3 DEF K!Image, K!Filled
<1>8. QED
  BY <1>1, <1>2, <1>3, <1>5, <1>7 DEF b

(* An image or a stack of images that has pixels.                           *)
IsImage(m) ==
  /\ m.dims \in {2, 3}
  /\ m.dims = 2 => m.c = 1
  /\ m.w \in Nat \ {0} /\ m.h \in Nat \ {0} /\ m.c \in Nat /\ m.cstep \in Nat

(* What a border of so many pixels on the four sides makes it.              *)
LEMMA BorderSize ==
  ASSUME NEW m, IsImage(m), NEW t \in Nat, NEW d \in Nat, NEW l \in Nat, NEW r \in Nat,
         NEW type, NEW v
  PROVE  LET b == K!MakeBorder(m, t, d, l, r, type, v)
         IN  /\ IsImage(b) /\ b.w = m.w + l + r /\ b.h = m.h + t + d
             /\ b.dims = m.dims /\ b.c = m.c
<1> DEFINE w == m.w + l + r
           h == m.h + t + d
           images == [q \in 0 .. m.c - 1 |->
                        K!MakeBorderImage(K!Channel(m, q), w, h, t, l, type, v)]
           b == K!MakeBorder(m, t, d, l, r, type, v)
<1>1. /\ w \in Nat \ {0} /\ h \in Nat \ {0} /\ m.c \in Nat
      /\ m.dims \in {2, 3} /\ (m.dims = 2 => m.c = 1)
  BY DEF IsImage
<1>2. CASE w = m.w /\ h = m.h
  <2>1. b = m
    BY <1>2 DEF K!MakeBorder
  <2>2. QED
    BY <1>2, <2>1
<1>3. CASE ~(w = m.w /\ h = m.h)
  <2>1. b = K!PerChannel(m, w, h, images)
    BY <1>3 DEF K!MakeBorder
  <2>2. ~(w <= 0 \/ h <= 0)
    <3> HIDE DEF w, h
    <3> QED
      BY <1>1
  <2>3. w * h \in Nat
    <3> HIDE DEF w, h
    <3> QED
      BY <1>1
  <2>4. CASE m.dims = 2
    <3>1. b = images[0]
      <4> HIDE DEF w, h, images, b
      <4> QED
        BY <2>1, <2>2, <2>4 DEF K!PerChannel
    <3>2. images[0] = K!MakeBorderImage(K!Channel(m, 0), w, h, t, l, type, v)
      BY <1>1, <2>4
    <3>3. b.dims = 2 /\ b.w = w /\ b.h = h /\ b.c = 1 /\ b.cstep = w * h
      <4> HIDE DEF w, h, images, b
      <4> QED
        BY <3>1, <3>2 DEF K!MakeBorderImage, K!Filled, K!CStep
    <3>4. QED
      BY <1>1, <2>3, <2>4, <3>3 DEF IsImage
  <2>5. CASE m.dims = 3
    <3>1. b.dims = 3 /\ b.w = w /\ b.h = h /\ b.c = m.c /\ b.cstep = K!CStep(3, w, h)
      <4> HIDE DEF w, h, images, b
      <4> QED
        BY <2>1, <2>2, <2>5 DEF K!PerChannel, K!Image, K!Filled
    <3>2. K!CStep(3, w, h) \in Nat
      <4> HIDE DEF w, h
      <4> QED
        BY <1>1, Channels
    <3>3. QED
      BY <1>1, <2>5, <3>1, <3>2 DEF IsImage
  <2>6. m.dims = 2 \/ m.dims = 3
    BY DEF IsImage
  <2>7. QED
    BY <2>4, <2>5, <2>6, Zenon
<1>4. QED
  BY <1>2, <1>3

(* For every image, border, weights and number of outputs: the kernels that *)
(* are unrolled for 3x3 and 5x5 elements, which make two rows of output in  *)
(* one turn and run through the image with four or six row pointers,       *)
(* compute what the general convolution computes, so that it makes no       *)
(* difference which of the two the registry's layer takes                   *)
(* (Convolution_x86::forward, convolution_x86.cpp; conv3x3s1_sse,           *)
(* conv5x5s1_sse; Convolution::forward, convolution.cpp).                   *)
THEOREM UnrolledConvolution ==
  ASSUME NEW p, NEW m, NEW weights, NEW bias, IsImage(m), p.num_output \in Nat,
         p.pad \in Nat \cup {-233},
         p.kernel_size \in {3, 5} /\ p.stride = 1 /\ p.dilation = 1 /\ p.pad # -233 =>
           p.kernel_size <= m.w + 2 * p.pad /\ p.kernel_size <= m.h + 2 * p.pad
  PROVE  K!ConvolutionX86Forward(p, m, weights, bias) = K!ConvolutionForward(p, m, weights, bias)
<1>1. CASE ~(p.kernel_size \in {3, 5} /\ p.stride = 1 /\ p.dilation = 1)
  BY <1>1 DEF K!ConvolutionX86Forward
<1>2. CASE p.kernel_size \in {3, 5} /\ p.stride = 1 /\ p.dilation = 1
  <2> DEFINE k == p.kernel_size
             b == K!Bordered(m, p.pad, k, k, 1, 1, 0)
             top == K!Create(3, b.w - k + 1, b.h - k + 1, p.num_output)
  <2>1. /\ m.w \in Nat \ {0} /\ m.h \in Nat \ {0} /\ k \in {3, 5}
    BY <1>2 DEF IsImage
  <2>2. IsImage(b) /\ k <= b.w /\ k <= b.h
    <3>1. CASE p.pad = 0
      <4>1. b = m
        BY <3>1 DEF K!Bordered
      <4>2. QED
        BY <1>2, <2>1, <3>1, <4>1
    <3>2. CASE p.pad \in Nat \ {0}
      <4>1. b = K!MakeBorder(m, p.pad, p.pad, p.pad, p.pad, "constant", 0)
        BY <3>2 DEF K!Bordered
      <4>2. IsImage(b) /\ b.w = m.w + p.pad + p.pad /\ b.h = m.h + p.pad + p.pad
        BY <3>2, <4>1, BorderSize
      <4>3. QED
        BY <1>2, <2>1, <3>2, <4>2
    <3>3. CASE p.pad = -233
      <4>1. /\ k + ((m.w - 1) \div 1) * 1 - m.w = k - 1
            /\ k + ((m.h - 1) \div 1) * 1 - m.h = k - 1
        <5>1. \A v \in Int : v \div 1 = v
          OBVIOUS
        <5>2. QED
          BY <2>1, <5>1
      <4>2. PICK half \in Nat : half = K!Truncate(k - 1, 2) /\ half <= k - 1
        BY <2>1 DEF K!Truncate
      <4>3. b = K!MakeBorder(m, half, k - 1 - half, half, k - 1 - half, "constant", 0)
        BY <2>1, <3>3, <4>1, <4>2 DEF K!Bordered
      <4>4. k - 1 - half \in Nat
        BY <2>1, <4>2
      <4>5. /\ IsImage(b) /\ b.w = m.w + half + (k - 1 - half)
            /\ b.h = m.h + half + (k - 1 - half)
        BY <4>3, <4>4, BorderSize
      <4>6. QED
        BY <2>1, <4>2, <4>5
    <3>4. QED
      BY <3>1, <3>2, <3>3
  <2>3. b = BorderedFor(p, m)
    <3>1. p.dilation * (p.kernel_size - 1) + 1 = k
      BY <1>2
    <3>2. QED
      BY <1>2, <3>1 DEF BorderedFor
  <2>4. K!ConvolutionX86Forward(p, m, weights, bias) = K!ConvUnrolled(k, b, top, weights, bias)
    <3>1. CASE k = 3
      BY <1>2, <3>1 DEF K!ConvolutionX86Forward, K!Conv3x3s1
    <3>2. CASE k = 5
      BY <1>2, <3>2 DEF K!ConvolutionX86Forward, K!Conv5x5s1
    <3>3. QED
      BY <2>1, <3>1, <3>2
  <2>5. b.w \in Nat /\ b.h \in Nat /\ b.c \in Nat /\ b.cstep \in Nat
    BY <2>2 DEF IsImage
  <2>6. K!ConvUnrolled(k, b, top, weights, bias) = K!ConvolutionForward(p, m, weights, bias)
    <3> HIDE DEF b
    <3> QED
      BY <1>2, <2>2, <2>3, <2>5, Unrolled
  <2>7. QED
    BY <2>4, <2>6
<1>3. QED
  BY <1>1, <1>2

(* Where the elements of a stack lie.                                       *)
Placed(step, c, w, h, q, y, x) ==
  LET i == step * q + w * y + x
  IN  /\ i \in 0 .. step * c - 1
      /\ i \div step = q /\ i % step = w * y + x
      /\ ~(w * y + x >= w * h)
      /\ (w * y + x) \div w = y /\ (w * y + x) % w = x

LEMMA Offset ==
  ASSUME NEW step \in Nat, NEW c \in Nat, NEW w \in Nat \ {0}, NEW h \in Nat, w * h <= step,
         NEW q \in 0 .. c - 1, NEW y \in 0 .. h - 1, NEW x \in 0 .. w - 1
  PROVE  Placed(step, c, w, h, q, y, x)
<1> DEFINE r == w * y + x
<1>1. r \in Nat /\ r < w * h /\ w * h \in Nat
  <2>1. PICK e \in Nat : h = y + 1 + e
    <3>1. h - 1 - y \in Nat /\ h = y + 1 + (h - 1 - y)
      OBVIOUS
    <3>2. QED
      BY <3>1
  <2>2. w * (y + 1 + e) = w * y + w + w * e /\ w * e \in Nat /\ w * y \in Nat
    BY <2>1
  <2>3. QED
    BY <2>1, <2>2
<1>2. step \in Nat \ {0} /\ r \in 0 .. step - 1
  <2> HIDE DEF r
  <2>1. step > 0
    BY <1>1
  <2>2. QED
    BY <1>1, <2>1
<1>3. (step * q + r) \div step = q /\ (step * q + r) % step = r
  <2> HIDE DEF r
  <2> QED
    BY <1>2, Divides
<1>4. step * q + r \in 0 .. step * c - 1
  <2> HIDE DEF r
  <2>1. PICK e \in Nat : c = q + 1 + e
    <3>1. c - 1 - q \in Nat /\ c = q + 1 + (c - 1 - q)
      OBVIOUS
    <3>2. QED
      BY <3>1
  <2>2. step * (q + 1 + e) = step * q + step + step * e /\ step * e \in Nat /\ step * q \in Nat
    BY <1>2, <2>1
  <2>3. QED
    BY <1>2, <2>1, <2>2
<1>5. r \div w = y /\ r % w = x
  BY Divides
<1>6. step * q + w * y + x = step * q + r
  <2>1. step * q \in Int /\ w * y \in Int
    OBVIOUS
  <2>2. QED
    BY <2>1
<1>7. QED
  <2> HIDE DEF r
  <2>1. w * y + x = r
    BY DEF r
  <2>2. ~(r >= w * h)
    BY <1>1
  <2>3. QED
    BY <1>3, <1>4, <1>5, <1>6, <2>1, <2>2, Zenon DEF Placed
(* What is made channel by channel has the elements of its channels.        *)
LEMMA ChannelByChannel ==
  ASSUME NEW src, IsImage(src), NEW w \in Nat \ {0}, NEW h \in Nat \ {0}, NEW images,
         images[0].w = w, images[0].cstep \in Nat,
         NEW q \in 0 .. src.c - 1, NEW y \in 0 .. h - 1, NEW x \in 0 .. w - 1
  PROVE  K!At(K!PerChannel(src, w, h, images), q, y, x) = images[q].data[w * y + x]
<1> DEFINE r == K!PerChannel(src, w, h, images)
<1>1. ~(w <= 0 \/ h <= 0)
  OBVIOUS
<1>2. w * y \in Int /\ w * y + x \in Int
  OBVIOUS
<1>3. CASE src.dims = 2
  <2>1. r = images[0]
    BY <1>1, <1>3 DEF K!PerChannel
  <2>2. q = 0
    BY <1>3 DEF IsImage
  <2>3. images[0].cstep * 0 + w * y + x = w * y + x
    BY <1>2
  <2>4. QED
    <3> HIDE DEF r
    <3> QED
      BY <2>1, <2>2, <2>3 DEF K!At, r
<1>4. CASE src.dims = 3
  <2> DEFINE step == K!CStep(3, w, h)
             i == step * q + w * y + x
  <2>1. step \in Nat /\ w * h <= step
    BY Channels
  <2>2. /\ i \in 0 .. step * src.c - 1
        /\ i \div step = q /\ i % step = w * y + x
        /\ ~(w * y + x >= w * h)
        /\ (w * y + x) \div w = y /\ (w * y + x) % w = x
    <3> HIDE DEF step
    <3>1. src.c \in Nat /\ h \in Nat
      BY DEF IsImage
    <3>2. Placed(step, src.c, w, h, q, y, x)
      BY <2>1, <3>1, Offset
    <3>3. QED
      BY <3>2 DEF Placed
  <2>3. /\ r.cstep = step /\ r.w = w
        /\ r.data = [k \in 0 .. step * src.c - 1 |->
                       IF k % step >= w * h THEN K!Junk
                       ELSE images[k \div step].data[w * ((k % step) \div w) + ((k % step) % w)]]
    BY <1>1, <1>4 DEF K!PerChannel, K!Image, K!Filled
  <2>4. K!At(r, q, y, x) = r.data[i]
    BY <2>3 DEF K!At
  <2>5. r.data[i] = images[q].data[w * y + x]
    <3> HIDE DEF r, i, step
    <3>1. /\ i \in 0 .. step * src.c - 1 /\ i \div step = q
          /\ i % step = w * y + x /\ ~(i % step >= w * h)
      BY <2>2
    <3>2. r.data[i] = images[i \div step].data[w * ((i % step) \div w) + ((i % step) % w)]
      BY <2>3, <3>1
    <3>3. (i % step) \div w = y /\ (i % step) % w = x
      BY <2>2
    <3>4. QED
      BY <3>1, <3>2, <3>3
  <2>6. QED
    BY <2>4, <2>5
<1>5. src.dims = 2 \/ src.dims = 3
  BY DEF IsImage
<1>6. QED
  BY <1>3, <1>4, <1>5, Zenon

(* A channel of an image or a stack.                                        *)
LEMMA OfChannel ==
  ASSUME NEW m, IsImage(m), NEW q \in 0 .. m.c - 1,
         NEW y \in 0 .. m.h - 1, NEW x \in 0 .. m.w - 1
  PROVE  /\ K!Channel(m, q).w = m.w /\ K!Channel(m, q).h = m.h
         /\ K!Channel(m, q).data[m.w * y + x] = K!At(m, q, y, x)
<1> DEFINE s == m.w * m.h
           i == m.w * y + x
<1>1. m.w \in Nat \ {0} /\ m.h \in Nat /\ s \in Nat /\ 1 \in Nat /\ 0 \in 0 .. 1 - 1
  BY DEF IsImage
<1>2. i \in 0 .. s - 1
  <2>1. s * 0 + m.w * y + x \in 0 .. s * 1 - 1
    <3> HIDE DEF i
    <3>1. m.w * m.h <= s
      BY <1>1
    <3> HIDE DEF s
    <3>2. Placed(s, 1, m.w, m.h, 0, y, x)
      BY <1>1, <3>1, Offset
    <3>3. QED
      BY <3>2 DEF Placed
  <2>2. m.w * y \in Int
    BY <1>1
  <2>3. QED
    <3> HIDE DEF s
    <3> QED
      BY <1>1, <2>1, <2>2
<1>3. K!Channel(m, q).data[i] = m.data[m.cstep * q + i]
  <2> HIDE DEF i
  <2> QED
    BY <1>2 DEF K!Channel
<1>4. m.cstep * q + i = m.cstep * q + m.w * y + x
  <2>1. m.cstep * q \in Int /\ m.w * y \in Int
    BY <1>1 DEF IsImage
  <2>2. QED
    BY <2>1
<1>5. QED
  BY <1>3, <1>4 DEF K!Channel, K!At

----------------------------------------------------------------------------
(* Scaling.                                                                 *)

(* The two rows an output row is mixed from are in the buffers, whether     *)
(* they were computed for it or for the row before.                         *)
LEMMA RowsInBuffers ==
  ASSUME NEW src, NEW w, NEW h \in Nat \ {0}, NEW y \in 0 .. h - 1
  PROVE  LET sy == K!Coefficient(src.h, h, y).ofs
         IN  K!Buffers(src, w, h)[y] = <<K!HResize(src, w, sy), K!HResize(src, w, sy + 1)>>
<1> DEFINE I == 0 .. h - 1
           sy(d) == K!Coefficient(src.h, h, d).ofs
           row(s) == K!HResize(src, w, s)
           next(d) == d > 0 /\ sy(d) = sy(d - 1) + 1
           G(g) == [d \in I |-> IF next(d) THEN <<g[d - 1][2], row(sy(d) + 1)>>
                                ELSE <<row(sy(d)), row(sy(d) + 1)>>]
           rows == [d \in I |-> <<row(sy(d)), row(sy(d) + 1)>>]
           buf == CHOOSE g : g = G(g)
<1>1. K!Buffers(src, w, h) = buf
  BY DEF K!Buffers
<1>2. rows = G(rows)
  <2> HIDE DEF sy, row
  <2>1. ASSUME NEW d \in I, next(d) PROVE rows[d - 1][2] = row(sy(d))
    <3>1. d - 1 \in I
      BY <2>1
    <3>2. rows[d - 1][2] = row(sy(d - 1) + 1)
      BY <3>1
    <3>3. QED
      BY <2>1, <3>2
  <2> HIDE DEF next
  <2>2. QED
    BY <2>1
<1>3. buf = G(buf)
  <2> HIDE DEF G, rows
  <2> QED
    BY <1>2
<1> HIDE DEF buf
<1>4. ASSUME NEW d \in I PROVE buf[d] = IF next(d) THEN <<buf[d - 1][2], row(sy(d) + 1)>>
                                        ELSE <<row(sy(d)), row(sy(d) + 1)>>
  <2> HIDE DEF next, sy, row
  <2> QED
    BY <1>3
<1> DEFINE T == {d \in I : buf[d] = rows[d]}
<1>5. 0 \in T
  <2> HIDE DEF sy, row
  <2>1. 0 \in I /\ ~next(0)
    OBVIOUS
  <2> HIDE DEF next
  <2>2. QED
    BY <1>4, <2>1
<1>6. ASSUME NEW d \in 0 .. h - 1, d < h - 1, d \in T PROVE d + 1 \in T
  <2> HIDE DEF sy, row
  <2>1. d + 1 \in I /\ (d + 1) - 1 = d
    BY <1>6
  <2>2. buf[d][2] = row(sy(d) + 1)
    BY <1>6
  <2>3. next(d + 1) => sy(d + 1) = sy(d) + 1
    BY <2>1
  <2> HIDE DEF next
  <2>4. buf[d + 1] = rows[d + 1]
    BY <1>4, <2>1, <2>2, <2>3
  <2>5. QED
    BY <2>1, <2>4
<1>7. y \in T
  <2> HIDE DEF T
  <2>1. h - 1 \in Nat
    OBVIOUS
  <2>2. 0 .. h - 1 \subseteq T
    BY <1>5, <1>6, <2>1, StepInduction
  <2>3. QED
    BY <2>2
<1>8. QED
  BY <1>1, <1>7

(* The neighbours of a pixel and their weights.                             *)
LEMMA Neighbours ==
  ASSUME NEW n \in Nat, 2 <= n, NEW w \in Nat \ {0}, NEW d \in Nat, K!Inside(n, w, d)
  PROVE  /\ K!Coefficient(n, w, d) = [ofs |-> K!Centre(n, w, d)[1], frac |-> K!Centre(n, w, d)[2]]
         /\ K!Centre(n, w, d)[1] \in 0 .. n - 2
<1>1. PICK f : f = (2 * d + 1) * n - w
  OBVIOUS
<1>2. f \in Nat
  BY <1>1 DEF K!Inside
<1>3. 2 * w \in Nat \ {0} /\ f \in Int
  BY <1>2
<1>4. PICK u : u = 2 * w
  OBVIOUS
<1>5. PICK s, r : s = f \div u /\ r = f % u
  OBVIOUS
<1>6. s \in Nat /\ r \in 0 .. u - 1 /\ f = u * s + r
  <2>1. /\ f \div u \in Int /\ f % u \in 0 .. u - 1
        /\ f = u * (f \div u) + (f % u)
        /\ f \in Nat => f \div u \in Nat
    BY <1>3, <1>4, Remainder, Zenon
  <2>2. QED
    BY <1>2, <1>5, <2>1, Zenon
<1>7. f >= u * (n - 1) <=> s >= n - 1
  <2>1. u \in Nat \ {0}
    BY <1>3, <1>4
  <2>2. CASE s >= n - 1
    <3>1. PICK e \in Nat : s = (n - 1) + e
      <4>1. s - (n - 1) \in Nat /\ s = (n - 1) + (s - (n - 1))
        BY <1>6, <2>2
      <4>2. QED
        BY <4>1
    <3>2. u * ((n - 1) + e) = u * (n - 1) + u * e /\ u * e \in Nat /\ u * (n - 1) \in Nat
      BY <2>1
    <3>3. QED
      BY <1>6, <2>1, <2>2, <3>1, <3>2
  <2>3. CASE ~(s >= n - 1)
    <3>1. PICK e \in Nat : n - 1 = s + 1 + e
      <4>1. (n - 1) - s - 1 \in Nat /\ n - 1 = s + 1 + ((n - 1) - s - 1)
        BY <1>6, <2>3
      <4>2. QED
        BY <4>1
    <3>2. u * (s + 1 + e) = u * s + u + u * e /\ u * e \in Nat /\ u * s \in Nat
      BY <1>6, <2>1
    <3>3. QED
      BY <1>6, <2>1, <2>3, <3>1, <3>2
  <2>4. QED
    BY <2>2, <2>3
<1>8. K!Truncate(f, u) = s
  BY <1>2, <1>5 DEF K!Truncate
<1>9. f - s * 2 * w = r
  <2>1. s * 2 * w = u * s
    BY <1>4, <1>6
  <2>2. u * s \in Int
    BY <1>3, <1>4, <1>6
  <2>3. QED
    BY <1>6, <2>1, <2>2
<1>10. K!Centre(n, w, d) = IF s >= n - 1 THEN <<n - 2, u>> ELSE <<s, r>>
  <2>1. f >= 2 * w * (n - 1) <=> f >= u * (n - 1)
    BY <1>4
  <2>2. QED
    BY <1>1, <1>4, <1>5, <1>7, <2>1 DEF K!Centre
<1>11. K!Coefficient(n, w, d) = IF s >= n - 1 THEN [ofs |-> n - 2, frac |-> u] ELSE [ofs |-> s, frac |-> r]
  BY <1>1, <1>4, <1>8, <1>9 DEF K!Coefficient
<1>12. QED
  <2>1. CASE s >= n - 1
    BY <1>10, <1>11, <2>1
  <2>2. CASE ~(s >= n - 1)
    BY <1>6, <1>10, <1>11, <2>2
  <2>3. QED
    BY <2>1, <2>2

(* The bilinear mean at pixel x of row y, of the source scaled to w by h.   *)
MeanAt(src, w, h, q, y, x) ==
  LET value(sy, sx) == K!At(src, q, sy, sx)
  IN  K!Bilinear(value, <<src.w, src.h>>, <<w, h>>, y, x)

(* For every picture and every size, enlarged or reduced: a pixel of the    *)
(* scaled picture is the bilinear mean of the four pixels around its        *)
(* centre's place, weighted by the distances.  That the coefficients are    *)
(* computed beforehand, rows are kept in two buffers that change places,    *)
(* and channels are apart in memory makes no difference (resize_bilinear,   *)
(* mat.cpp).                                                                *)
THEOREM ScalingIsBilinear ==
  ASSUME NEW src, IsImage(src), 2 <= src.w, 2 <= src.h,
         NEW w \in Nat \ {0}, NEW h \in Nat \ {0}, w # src.w \/ h # src.h,
         NEW q \in 0 .. src.c - 1, NEW y \in 0 .. h - 1, NEW x \in 0 .. w - 1,
         K!Inside(src.w, w, x), K!Inside(src.h, h, y)
  PROVE  K!At(K!Resize(src, w, h), q, y, x) = MeanAt(src, w, h, q, y, x)
<1> DEFINE images == [c \in 0 .. src.c - 1 |-> K!ResizeImage(K!Channel(src, c), w, h)]
           ch == K!Channel(src, q)
           a == K!Centre(src.w, w, x)
           b == K!Centre(src.h, h, y)
           Row(s) == K!At(src, q, s, a[1]) * (2 * w - a[2]) + K!At(src, q, s, a[1] + 1) * a[2]
<1>1. src.w \in Nat /\ src.h \in Nat /\ src.c \in Nat /\ 0 \in 0 .. src.c - 1
  BY DEF IsImage
<1>2. K!Resize(src, w, h) = K!PerChannel(src, w, h, images)
  BY DEF K!Resize
<1>3. images[0].w = w /\ images[0].cstep \in Nat
  <2>1. images[0] = K!ResizeImage(K!Channel(src, 0), w, h)
    BY <1>1
  <2>2. w * h \in Nat
    OBVIOUS
  <2>3. QED
    BY <2>1, <2>2 DEF K!ResizeImage, K!Filled, K!CStep
<1>4. K!At(K!Resize(src, w, h), q, y, x) = K!ResizeImage(ch, w, h).data[w * y + x]
  <2>1. K!At(K!PerChannel(src, w, h, images), q, y, x) = images[q].data[w * y + x]
    <3> HIDE DEF images
    <3> QED
      BY <1>3, ChannelByChannel
  <2>2. QED
    BY <1>2, <2>1
<1>5. ch.w = src.w /\ ch.h = src.h
  BY DEF K!Channel
<1>6. /\ K!Coefficient(src.w, w, x) = [ofs |-> a[1], frac |-> a[2]] /\ a[1] \in 0 .. src.w - 2
      /\ K!Coefficient(src.h, h, y) = [ofs |-> b[1], frac |-> b[2]] /\ b[1] \in 0 .. src.h - 2
  <2>1. x \in Nat /\ y \in Nat
    OBVIOUS
  <2>2. QED
    BY <1>1, <2>1, Neighbours
<1> HIDE DEF a, b
<1>7. ASSUME NEW s \in 0 .. src.h - 1 PROVE K!HResize(ch, w, s)[x] = Row(s)
  <2>1. /\ ch.data[src.w * s + a[1]] = K!At(src, q, s, a[1])
        /\ ch.data[src.w * s + (a[1] + 1)] = K!At(src, q, s, a[1] + 1)
    <3>1. a[1] \in 0 .. src.w - 1 /\ a[1] + 1 \in 0 .. src.w - 1
      BY <1>1, <1>6
    <3>2. QED
      <4> HIDE DEF ch
      <4> QED
        BY <3>1, OfChannel DEF ch
  <2>2. src.w * s + (a[1] + 1) = src.w * s + a[1] + 1
    <3>1. src.w * s \in Int /\ a[1] \in Int
      BY <1>1, <1>6
    <3>2. QED
      BY <3>1
  <2>3. K!HResize(ch, w, s)[x]
          = ch.data[src.w * s + a[1]] * (2 * w - a[2]) + ch.data[src.w * s + a[1] + 1] * a[2]
    <3> HIDE DEF ch
    <3> QED
      BY <1>5, <1>6 DEF K!HResize
  <2>4. QED
    BY <2>1, <2>2, <2>3
<1>8. K!Buffers(ch, w, h)[y] = <<K!HResize(ch, w, b[1]), K!HResize(ch, w, b[1] + 1)>>
  <2> HIDE DEF ch
  <2> QED
    BY <1>5, <1>6, RowsInBuffers
<1>9. K!ResizeImage(ch, w, h).data[w * y + x]
        = K!Buffers(ch, w, h)[y][1][x] * (2 * h - b[2]) + K!Buffers(ch, w, h)[y][2][x] * b[2]
  <2> DEFINE i == w * y + x
  <2>1. i \in 0 .. (w * h) * 1 - 1 /\ i \div w = y /\ i % w = x
    <3>1. PICK s \in Nat : s = w * h
      OBVIOUS
    <3>2. Placed(s, 1, w, h, 0, y, x)
      <4>1. 0 \in 0 .. 1 - 1 /\ h \in Nat /\ 1 \in Nat /\ w * h <= s
        BY <3>1
      <4>2. QED
        BY <4>1, Offset
    <3>3. s * 0 + w * y + x = w * y + x
      <4>1. w * y \in Int
        OBVIOUS
      <4>2. QED
        BY <3>1, <4>1
    <3>4. QED
      BY <3>1, <3>2, <3>3 DEF Placed
  <2> HIDE DEF i, ch
  <2>2. K!ResizeImage(ch, w, h).data[i]
          = K!Buffers(ch, w, h)[i \div w][1][i % w] * (2 * h - K!Coefficient(ch.h, h, i \div w).frac)
            + K!Buffers(ch, w, h)[i \div w][2][i % w] * K!Coefficient(ch.h, h, i \div w).frac
    BY <2>1 DEF K!ResizeImage, K!Filled, K!CStep
  <2>3. QED
    BY <1>5, <1>6, <2>1, <2>2 DEF i
<1>10. K!ResizeImage(ch, w, h).data[w * y + x] = Row(b[1]) * (2 * h - b[2]) + Row(b[1] + 1) * b[2]
  <2>1. b[1] \in 0 .. src.h - 1 /\ b[1] + 1 \in 0 .. src.h - 1
    BY <1>1, <1>6
  <2>2. K!HResize(ch, w, b[1])[x] = Row(b[1]) /\ K!HResize(ch, w, b[1] + 1)[x] = Row(b[1] + 1)
    <3> HIDE DEF Row, ch
    <3> QED
      BY <1>7, <2>1
  <2> HIDE DEF Row, ch
  <2>3. QED
    BY <1>8, <1>9, <2>2
<1>11. MeanAt(src, w, h, q, y, x) = Row(b[1]) * (2 * h - b[2]) + Row(b[1] + 1) * b[2]
  BY DEF MeanAt, K!Bilinear, a, b
<1>12. QED
  BY <1>4, <1>10, <1>11

----------------------------------------------------------------------------
(* Borders.                                                                 *)

(* Element w * y + x of an image without channels.                          *)
LEMMA InImage ==
  ASSUME NEW w \in Nat \ {0}, NEW h \in Nat, NEW y \in 0 .. h - 1, NEW x \in 0 .. w - 1
  PROVE  /\ w * y + x \in 0 .. (w * h) * 1 - 1
         /\ (w * y + x) \div w = y /\ (w * y + x) % w = x
<1>1. PICK s \in Nat : s = w * h
  OBVIOUS
<1>2. Placed(s, 1, w, h, 0, y, x)
  <2>1. 0 \in 0 .. 1 - 1 /\ 1 \in Nat /\ w * h <= s
    BY <1>1
  <2>2. QED
    BY <2>1, Offset
<1>3. s * 0 + w * y + x = w * y + x
  <2>1. w * y \in Int
    OBVIOUS
  <2>2. QED
    BY <1>1, <2>1
<1>4. QED
  BY <1>1, <1>2, <1>3 DEF Placed

(* What lies at row y and column x around an image.                         *)
AroundAt(m, t, l, type, v, q, y, x) ==
  IF type = "constant" /\ (y - t \notin 0 .. m.h - 1 \/ x - l \notin 0 .. m.w - 1)
  THEN v ELSE K!At(m, q, K!Clamped(y - t, m.h), K!Clamped(x - l, m.w))

LEMMA BorderAt ==
  ASSUME NEW m, IsImage(m), NEW t \in Nat, NEW d \in Nat, NEW l \in Nat, NEW r \in Nat,
         NEW type, NEW v, NEW q \in 0 .. m.c - 1,
         NEW y \in 0 .. m.h + t + d - 1, NEW x \in 0 .. m.w + l + r - 1
  PROVE  K!At(K!MakeBorder(m, t, d, l, r, type, v), q, y, x)
         = AroundAt(m, t, l, type, v, q, y, x)
<1> DEFINE w == m.w + l + r
           h == m.h + t + d
           images == [c \in 0 .. m.c - 1 |->
                        K!MakeBorderImage(K!Channel(m, c), w, h, t, l, type, v)]
           b == K!MakeBorder(m, t, d, l, r, type, v)
           ch == K!Channel(m, q)
           sy == K!Clamped(y - t, m.h)
           sx == K!Clamped(x - l, m.w)
<1>1. /\ m.w \in Nat \ {0} /\ m.h \in Nat \ {0} /\ m.c \in Nat
      /\ w \in Nat \ {0} /\ h \in Nat \ {0} /\ y \in 0 .. h - 1 /\ x \in 0 .. w - 1
      /\ 0 \in 0 .. m.c - 1
  BY DEF IsImage
<1>2. sy \in 0 .. m.h - 1 /\ sx \in 0 .. m.w - 1
  BY <1>1 DEF K!Clamped
<1>3. CASE w = m.w /\ h = m.h
  <2>1. b = m
    BY <1>3 DEF K!MakeBorder
  <2>2. t = 0 /\ l = 0 /\ y \in 0 .. m.h - 1 /\ x \in 0 .. m.w - 1
    BY <1>1, <1>3
  <2>3. sy = y /\ sx = x
    BY <1>1, <2>2 DEF K!Clamped
  <2>4. QED
    <3> HIDE DEF b
    <3> QED
      BY <2>1, <2>2, <2>3 DEF AroundAt, b
<1>4. CASE ~(w = m.w /\ h = m.h)
  <2>1. b = K!PerChannel(m, w, h, images)
    BY <1>4 DEF K!MakeBorder
  <2>2. images[0].w = w /\ images[0].cstep \in Nat
    <3>1. images[0] = K!MakeBorderImage(K!Channel(m, 0), w, h, t, l, type, v)
      BY <1>1
    <3> HIDE DEF w, h, images
    <3>2. w * h \in Nat
      BY <1>1
    <3>3. QED
      BY <3>1, <3>2 DEF K!MakeBorderImage, K!Filled, K!CStep
  <2>3. K!At(b, q, y, x) = K!MakeBorderImage(ch, w, h, t, l, type, v).data[w * y + x]
    <3>1. K!At(K!PerChannel(m, w, h, images), q, y, x) = images[q].data[w * y + x]
      <4> HIDE DEF w, h, images
      <4>1. w \in Nat \ {0} /\ h \in Nat \ {0} /\ y \in 0 .. h - 1 /\ x \in 0 .. w - 1
        BY <1>1
      <4>2. QED
        BY <2>2, <4>1, ChannelByChannel, SMTT(30)
    <3> HIDE DEF w, h, b
    <3>2. QED
      BY <2>1, <3>1
  <2>4. /\ w * y + x \in 0 .. (w * h) * 1 - 1
        /\ (w * y + x) \div w = y /\ (w * y + x) % w = x
    <3> HIDE DEF w, h
    <3> QED
      BY <1>1, InImage
  <2>5. ch.w = m.w /\ ch.h = m.h /\ ch.data[m.w * sy + sx] = K!At(m, q, sy, sx)
    <3> HIDE DEF sy, sx
    <3> QED
      BY <1>2, OfChannel
  <2>6. K!SourceRow(ch, t, y) = sy
    <3> HIDE DEF ch
    <3> QED
      BY <1>1, <2>5 DEF K!SourceRow, K!Clamped
  <2>7. (IF x < l THEN 0 ELSE IF x < l + ch.w THEN x - l ELSE ch.w - 1) = sx
    <3> HIDE DEF ch
    <3> QED
      BY <1>1, <2>5 DEF K!Clamped
  <2>8. (y \in t .. t + ch.h - 1 /\ x \in l .. l + ch.w - 1)
          <=> ~(y - t \notin 0 .. m.h - 1 \/ x - l \notin 0 .. m.w - 1)
    <3> HIDE DEF ch
    <3> QED
      BY <1>1, <2>5
  <2> DEFINE i == w * y + x
             inside(yy, xx) == yy \in t .. t + ch.h - 1 /\ xx \in l .. l + ch.w - 1
             column(xx) == IF xx < l THEN 0 ELSE IF xx < l + ch.w THEN xx - l ELSE ch.w - 1
  <2>9. K!MakeBorderImage(ch, w, h, t, l, type, v).data[i]
          = IF type = "constant" /\ ~inside(i \div w, i % w) THEN v
            ELSE ch.data[K!SourceRow(ch, t, i \div w) * ch.w + column(i % w)]
    <3>1. i \in 0 .. (w * h) * 1 - 1
      BY <2>4
    <3> HIDE DEF i, ch, w, h
    <3>2. QED
      BY <3>1 DEF K!MakeBorderImage, K!Filled, K!CStep
  <2>10. K!MakeBorderImage(ch, w, h, t, l, type, v).data[i]
           = IF type = "constant" /\ (y - t \notin 0 .. m.h - 1 \/ x - l \notin 0 .. m.w - 1) THEN v
             ELSE ch.data[sy * ch.w + sx]
    <3>1. i \div w = y /\ i % w = x
      BY <2>4
    <3>2. column(x) = sx
      BY <2>7
    <3>3. inside(y, x) <=> ~(y - t \notin 0 .. m.h - 1 \/ x - l \notin 0 .. m.w - 1)
      BY <2>8
    <3> HIDE DEF i, ch, w, h, sy, sx, inside, column
    <3>4. QED
      BY <2>6, <2>9, <3>1, <3>2, <3>3
  <2>11. sy * ch.w = m.w * sy
    <3> HIDE DEF sy, sx, ch
    <3> QED
      BY <1>1, <1>2, <2>5
  <2>12. QED
    <3> HIDE DEF w, h, b, ch, sy, sx
    <3>1. K!At(b, q, y, x)
            = IF type = "constant" /\ (y - t \notin 0 .. m.h - 1 \/ x - l \notin 0 .. m.w - 1) THEN v
              ELSE K!At(m, q, sy, sx)
      BY <2>3, <2>5, <2>10, <2>11
    <3>2. QED
      BY <3>1 DEF AroundAt, b, sy, sx
<1>5. QED
  BY <1>3, <1>4

(* For every image and stack, and borders of every size: around the image   *)
(* lies the constant, or its nearest pixel, and what copy_cut_border takes  *)
(* off copy_make_border had put on (copy_make_border_image,                 *)
(* copy_cut_border_image, mat.cpp).                                         *)
THEOREM BorderComesOff ==
  ASSUME NEW m, IsImage(m), NEW t \in Nat, NEW d \in Nat, NEW l \in Nat, NEW r \in Nat,
         NEW type, NEW v
  PROVE  LET b == K!MakeBorder(m, t, d, l, r, type, v)
             back == K!CutBorder(b, t, d, l, r)
         IN  /\ b.dims = m.dims /\ b.c = m.c /\ b.w = m.w + l + r /\ b.h = m.h + t + d
             /\ \A q \in 0 .. m.c - 1, y \in 0 .. b.h - 1, x \in 0 .. b.w - 1 :
                  K!At(b, q, y, x) = AroundAt(m, t, l, type, v, q, y, x)
             /\ back.dims = m.dims /\ back.c = m.c /\ back.w = m.w /\ back.h = m.h
             /\ \A q \in 0 .. m.c - 1, y \in 0 .. m.h - 1, x \in 0 .. m.w - 1 :
                  K!At(back, q, y, x) = K!At(m, q, y, x)
<1> DEFINE b == K!MakeBorder(m, t, d, l, r, type, v)
           w == b.w - l - r
           h == b.h - t - d
           images == [q \in 0 .. b.c - 1 |-> K!CutBorderImage(K!Channel(b, q), w, h, t, l)]
           back == K!CutBorder(b, t, d, l, r)
<1>1. m.w \in Nat \ {0} /\ m.h \in Nat \ {0} /\ m.c \in Nat /\ m.dims \in {2, 3}
  BY DEF IsImage
<1>2. /\ IsImage(b) /\ b.w = m.w + l + r /\ b.h = m.h + t + d
      /\ b.dims = m.dims /\ b.c = m.c
  BY BorderSize
<1>3. \A q \in 0 .. m.c - 1, y \in 0 .. b.h - 1, x \in 0 .. b.w - 1 :
        K!At(b, q, y, x) = AroundAt(m, t, l, type, v, q, y, x)
  <2>1. \A q \in 0 .. m.c - 1, y \in 0 .. m.h + t + d - 1, x \in 0 .. m.w + l + r - 1 :
          K!At(b, q, y, x) = AroundAt(m, t, l, type, v, q, y, x)
    BY BorderAt
  <2> HIDE DEF b
  <2>2. ASSUME NEW q \in 0 .. m.c - 1, NEW y \in 0 .. b.h - 1, NEW x \in 0 .. b.w - 1
        PROVE  K!At(b, q, y, x) = AroundAt(m, t, l, type, v, q, y, x)
    <3>1. y \in 0 .. m.h + t + d - 1 /\ x \in 0 .. m.w + l + r - 1
      BY <1>1, <1>2
    <3>2. QED
      BY <2>1, <3>1
  <2>3. QED
    BY <2>2
<1> HIDE DEF b
<1>4. w = m.w /\ h = m.h
  BY <1>1, <1>2
<1>5. CASE w = b.w /\ h = b.h
  <2>1. back = b
    BY <1>5 DEF K!CutBorder
  <2>2. t = 0 /\ l = 0 /\ b.w = m.w /\ b.h = m.h
    BY <1>1, <1>2, <1>5
  <2>3. ASSUME NEW q \in 0 .. m.c - 1, NEW y \in 0 .. m.h - 1, NEW x \in 0 .. m.w - 1
        PROVE  K!At(b, q, y, x) = K!At(m, q, y, x)
    <3>1. K!Clamped(y - 0, m.h) = y /\ K!Clamped(x - 0, m.w) = x
      BY <1>1 DEF K!Clamped
    <3>2. y - 0 \in 0 .. m.h - 1 /\ x - 0 \in 0 .. m.w - 1
      BY <1>1
    <3>3. K!At(b, q, y, x) = AroundAt(m, 0, 0, type, v, q, y, x)
      BY <1>3, <2>2
    <3>4. QED
      BY <3>1, <3>2, <3>3 DEF AroundAt
  <2> HIDE DEF back
  <2>4. /\ back.dims = m.dims /\ back.c = m.c /\ back.w = m.w /\ back.h = m.h
        /\ \A q \in 0 .. m.c - 1, y \in 0 .. m.h - 1, x \in 0 .. m.w - 1 :
             K!At(back, q, y, x) = K!At(m, q, y, x)
    BY <1>2, <2>1, <2>2, <2>3
  <2>5. QED
    BY <1>2, <1>3, <2>4 DEF b, back
<1>6. CASE ~(w = b.w /\ h = b.h)
  <2>1. back = K!PerChannel(b, w, h, images)
    BY <1>6 DEF K!CutBorder
  <2>2. ~(w <= 0 \/ h <= 0)
    BY <1>1, <1>4
  <2>3. back.dims = m.dims /\ back.c = m.c /\ back.w = m.w /\ back.h = m.h
    <3>1. CASE m.dims = 2
      <4>1. m.c = 1
        BY <3>1 DEF IsImage
      <4>2. images[0] = K!CutBorderImage(K!Channel(b, 0), w, h, t, l)
        BY <1>2, <4>1
      <4> HIDE DEF w, h, images, back
      <4>3. back = images[0]
        BY <1>2, <2>1, <2>2, <3>1 DEF K!PerChannel
      <4>4. images[0].dims = 2 /\ images[0].w = w /\ images[0].h = h /\ images[0].c = 1
        BY <4>2 DEF K!CutBorderImage, K!Filled
      <4>5. QED
        BY <1>4, <3>1, <4>1, <4>3, <4>4
    <3>2. CASE m.dims = 3
      <4> HIDE DEF w, h, images, back
      <4>1. back.dims = 3 /\ back.w = w /\ back.h = h /\ back.c = b.c
        BY <1>2, <2>1, <2>2, <3>2 DEF K!PerChannel, K!Image, K!Filled
      <4>2. QED
        BY <1>2, <1>4, <3>2, <4>1
    <3>3. QED
      BY <1>1, <3>1, <3>2
  <2>4. ASSUME NEW q \in 0 .. m.c - 1, NEW y \in 0 .. m.h - 1, NEW x \in 0 .. m.w - 1
        PROVE  K!At(back, q, y, x) = K!At(m, q, y, x)
    <3> DEFINE ch == K!Channel(b, q)
               i == w * y + x
    <3>1. w \in Nat \ {0} /\ h \in Nat \ {0} /\ y \in 0 .. h - 1 /\ x \in 0 .. w - 1
      BY <1>1, <1>4
    <3>2. q \in 0 .. b.c - 1 /\ 0 \in 0 .. b.c - 1
      BY <1>1, <1>2
    <3>3. images[0].w = w /\ images[0].cstep \in Nat
      <4>1. images[0] = K!CutBorderImage(K!Channel(b, 0), w, h, t, l)
        BY <3>2
      <4> HIDE DEF w, h, images
      <4>2. w * h \in Nat
        BY <3>1
      <4>3. QED
        BY <4>1, <4>2 DEF K!CutBorderImage, K!Filled, K!CStep
    <3>4. K!At(back, q, y, x) = K!CutBorderImage(ch, w, h, t, l).data[i]
      <4>1. images[q] = K!CutBorderImage(ch, w, h, t, l)
        BY <3>2
      <4>2. K!At(K!PerChannel(b, w, h, images), q, y, x) = images[q].data[w * y + x]
        <5> HIDE DEF w, h, images
        <5> QED
          BY <1>2, <3>1, <3>2, <3>3, ChannelByChannel, SMTT(30)
      <4> HIDE DEF w, h, images, back, ch
      <4>3. QED
        BY <2>1, <4>1, <4>2
    <3>5. /\ i \in 0 .. (w * h) * 1 - 1 /\ i \div w = y /\ i % w = x
      <4> HIDE DEF w, h
      <4> QED
        BY <3>1, InImage
    <3>6. K!CutBorderImage(ch, w, h, t, l).data[i]
            = ch.data[ch.w * t + l + ch.w * (i \div w) + (i % w)]
      <4> HIDE DEF w, h, i, ch
      <4> QED
        BY <3>5 DEF K!CutBorderImage, K!Filled, K!CStep
    <3>7. ch.w = b.w /\ ch.data[b.w * (t + y) + (l + x)] = K!At(b, q, t + y, l + x)
      <4>1. t + y \in 0 .. b.h - 1 /\ l + x \in 0 .. b.w - 1
        BY <1>1, <1>2
      <4>2. QED
        <5> HIDE DEF ch
        <5> QED
          BY <1>2, <3>2, <4>1, OfChannel DEF ch
    <3>8. b.w * t + l + b.w * y + x = b.w * (t + y) + (l + x)
      <4>1. b.w \in Nat
        BY <1>1, <1>2
      <4>2. b.w * (t + y) = b.w * t + b.w * y /\ b.w * t \in Int /\ b.w * y \in Int
        BY <4>1
      <4>3. QED
        BY <4>2
    <3>9. K!At(back, q, y, x) = K!At(b, q, t + y, l + x)
      <4> HIDE DEF ch, i, back, w, h
      <4> QED
        BY <3>4, <3>5, <3>6, <3>7, <3>8
    <3>10. K!At(b, q, t + y, l + x) = K!At(m, q, y, x)
      <4>1. t + y \in 0 .. b.h - 1 /\ l + x \in 0 .. b.w - 1
        BY <1>1, <1>2
      <4>2. (t + y) - t = y /\ (l + x) - l = x
        OBVIOUS
      <4>3. K!Clamped(y, m.h) = y /\ K!Clamped(x, m.w) = x
        BY <1>1 DEF K!Clamped
      <4>4. K!At(b, q, t + y, l + x) = AroundAt(m, t, l, type, v, q, t + y, l + x)
        BY <1>3, <4>1
      <4>5. QED
        BY <4>2, <4>3, <4>4 DEF AroundAt
    <3>11. QED
      BY <3>9, <3>10
  <2>5. QED
    BY <1>2, <1>3, <2>3, <2>4 DEF b
<1>7. QED
  BY <1>5, <1>6

=============================================================================
