---------------------------- MODULE NcnnNet_proofs ----------------------------
(***************************************************************************)
(* Proofs about NcnnNet, and before them what they and the proofs about    *)
(* detection need of induction: the library's induction theorems take an   *)
(* operator as parameter, these take sets and functions.                   *)
(***************************************************************************)
EXTENDS NcnnNet, FiniteSetTheorems, SequenceTheorems, WellFoundedInduction, TLAPS

----------------------------------------------------------------------------
(* Induction over numbers and recursive functions, in first-order form.    *)

NatLess == OpToRel(<, Nat)

LEMMA Least ==
  ASSUME NEW T \in SUBSET Nat, T # {}
  PROVE  \E x \in T : \A y \in T : x <= y
<1>1. IsWellFoundedOn(NatLess, Nat)
  BY NatLessThanWellFounded DEF NatLess
<1>2. PICK x \in T : \A y \in T : <<y, x>> \notin NatLess
  BY <1>1, WFMin
<1>3. ASSUME NEW y \in T PROVE x <= y
  <2>1. x \in Nat /\ y \in Nat
    OBVIOUS
  <2>2. y < x => <<y, x>> \in NatLess
    <3>1. <<y, x>> \in Nat \X Nat
      BY <2>1
    <3>2. QED
      BY <3>1 DEF OpToRel, NatLess
  <2>3. QED
    BY <1>2, <2>1, <2>2
<1>4. QED
  BY <1>3

(* A set that holds a number as soon as it holds all smaller ones holds    *)
(* every number.                                                           *)
LEMMA Induction ==
  ASSUME NEW T, \A n \in Nat : (\A m \in Nat : m < n => m \in T) => n \in T
  PROVE  Nat \subseteq T
<1>1. SUFFICES ASSUME Nat \ T # {} PROVE FALSE
  OBVIOUS
<1>2. PICK n \in Nat \ T : \A m \in Nat \ T : n <= m
  BY <1>1, Least
<1>3. \A m \in Nat : m < n => m \in T
  BY <1>2
<1>4. QED
  BY <1>2, <1>3

(* A functional whose value at x looks only at the values at arguments of  *)
(* smaller rank has a fixed point: the recursive definition means          *)
(* something.                                                              *)
Recursion(I, V, rank, F) ==
  /\ V # {}
  /\ rank \in [I -> Nat]
  /\ F \in [[I -> V] -> [I -> V]]
  /\ \A g, h \in [I -> V] : \A x \in I :
       (\A y \in I : rank[y] < rank[x] => g[y] = h[y]) => F[g][x] = F[h][x]

LEMMA FixedPoint ==
  ASSUME NEW I, NEW V, NEW rank, NEW F, Recursion(I, V, rank, F)
  PROVE  \E f \in [I -> V] : f = F[f]
<1> USE DEF Recursion
<1> DEFINE Good(n, f) == \A x \in I : rank[x] < n => F[f][x] = f[x]
<1>1. \A n \in Nat : \E f \in [I -> V] : Good(n, f)
  <2> DEFINE T == {n \in Nat : \E f \in [I -> V] : Good(n, f)}
  <2>1. ASSUME NEW n \in Nat, \A m \in Nat : m < n => m \in T
        PROVE  n \in T
    <3>1. CASE n = 0
      <4>1. PICK v \in V : TRUE
        OBVIOUS
      <4>2. [x \in I |-> v] \in [I -> V] /\ Good(0, [x \in I |-> v])
        OBVIOUS
      <4>3. QED
        BY <3>1, <4>2
    <3>2. CASE n > 0
      <4>1. n - 1 \in Nat /\ n - 1 < n
        BY <3>2
      <4>2. PICK f \in [I -> V] : Good(n - 1, f)
        BY <2>1, <4>1
      <4>3. F[f] \in [I -> V]
        OBVIOUS
      <4>4. ASSUME NEW x \in I, rank[x] < n PROVE F[F[f]][x] = F[f][x]
        <5>1. \A y \in I : rank[y] < rank[x] => F[f][y] = f[y]
          BY <4>2, <4>4
        <5>2. QED
          BY <4>3, <5>1
      <4>5. Good(n, F[f])
        BY <4>4
      <4>6. QED
        BY <4>3, <4>5
    <3>3. QED
      BY <3>1, <3>2
  <2>2. Nat \subseteq T
    <3> HIDE DEF T
    <3> QED
      BY <2>1, Induction
  <2>3. QED
    BY <2>2
<1>2. ASSUME NEW n \in Nat, NEW m \in Nat, NEW f \in [I -> V], NEW g \in [I -> V],
             Good(n, f), Good(m, g)
      PROVE  \A x \in I : rank[x] < n /\ rank[x] < m => f[x] = g[x]
  <2> DEFINE T == {k \in Nat : \A x \in I : rank[x] = k /\ k < n /\ k < m => f[x] = g[x]}
  <2>1. ASSUME NEW k \in Nat, \A l \in Nat : l < k => l \in T
        PROVE  k \in T
    <3>1. SUFFICES ASSUME NEW x \in I, rank[x] = k, k < n, k < m PROVE f[x] = g[x]
      OBVIOUS
    <3>2. \A y \in I : rank[y] < rank[x] => f[y] = g[y]
      BY <2>1, <3>1
    <3>3. F[f][x] = F[g][x]
      BY <3>2
    <3>4. QED
      BY <1>2, <3>1, <3>3
  <2>2. Nat \subseteq T
    <3> HIDE DEF T
    <3> QED
      BY <2>1, Induction
  <2>3. QED
    BY <2>2
<1> DEFINE best == [n \in Nat |-> CHOOSE f \in [I -> V] : Good(n, f)]
           lim == [x \in I |-> best[rank[x] + 1][x]]
<1>3. \A n \in Nat : best[n] \in [I -> V] /\ Good(n, best[n])
  BY <1>1
<1>4. lim \in [I -> V]
  <2> HIDE DEF best, Good
  <2> QED
    BY <1>3
<1>5. ASSUME NEW x \in I PROVE F[lim][x] = lim[x]
  <2> DEFINE n == rank[x] + 1
             b == best[n]
  <2>1. n \in Nat /\ b \in [I -> V] /\ Good(n, b)
    <3> HIDE DEF best, Good
    <3> QED
      BY <1>3
  <2>2. ASSUME NEW y \in I, rank[y] < rank[x] PROVE lim[y] = b[y]
    <3>1. rank[y] + 1 \in Nat /\ rank[y] < rank[y] + 1 /\ rank[y] < n
      BY <2>2
    <3>2. lim[y] = best[rank[y] + 1][y]
      BY DEF lim
    <3>3. best[rank[y] + 1] \in [I -> V] /\ Good(rank[y] + 1, best[rank[y] + 1])
      <4> HIDE DEF best, Good
      <4> QED
        BY <3>1, <1>3
    <3>4. best[rank[y] + 1][y] = b[y]
      <4> HIDE DEF best, Good, b, n, lim
      <4> QED
        BY <3>1, <3>3, <2>1, <1>2
    <3>5. QED
      BY <3>2, <3>4
  <2>3. F[lim][x] = F[b][x]
    <3> HIDE DEF lim, b
    <3> QED
      BY <1>4, <2>1, <2>2
  <2>4. F[b][x] = b[x] /\ lim[x] = b[x]
    <3> HIDE DEF best
    <3> QED
      BY <2>1
  <2>5. QED
    BY <2>3, <2>4
<1>6. F[lim] \in [I -> V]
  BY <1>4
<1>7. lim = F[lim]
  <2> HIDE DEF lim
  <2> QED
    BY <1>4, <1>5, <1>6
<1>8. QED
  BY <1>4, <1>7

(* Induction from one number up to another, a step at a time.              *)
LEMMA StepInduction ==
  ASSUME NEW a \in Nat, NEW n \in Nat, NEW T, a \in T,
         \A i \in a .. n : i < n /\ i \in T => i + 1 \in T
  PROVE  a .. n \subseteq T
<1> DEFINE U == {i \in Nat : i \in a .. n => i \in T}
<1>1. ASSUME NEW i \in Nat, \A m \in Nat : m < i => m \in U
      PROVE  i \in U
  <2>1. SUFFICES ASSUME i \in a .. n PROVE i \in T
    OBVIOUS
  <2>2. CASE i = a
    BY <2>2
  <2>3. CASE i # a
    <3>1. i - 1 \in Nat /\ i - 1 < i /\ i - 1 \in a .. n /\ i - 1 < n /\ (i - 1) + 1 = i
      BY <2>1, <2>3
    <3>2. i - 1 \in T
      BY <1>1, <3>1
    <3>3. QED
      BY <3>1, <3>2
  <2>4. QED
    BY <2>2, <2>3
<1>2. Nat \subseteq U
  <2> HIDE DEF U
  <2> QED
    BY <1>1, Induction
<1>3. QED
  BY <1>2

----------------------------------------------------------------------------
(* Sequences joined end to end: where each one lies in the whole.          *)

Joined(seqs, whole, ends) ==
  /\ ends \in [0 .. Len(seqs) -> Nat]
  /\ ends[0] = 0
  /\ \A i \in 1 .. Len(seqs) : ends[i] = ends[i - 1] + Len(seqs[i])
  /\ Len(whole) = ends[Len(seqs)]
  /\ \A i \in 1 .. Len(seqs) : \A k \in 1 .. Len(seqs[i]) :
       whole[ends[i - 1] + k] = seqs[i][k]
  /\ \A b \in 1 .. Len(whole) : \E i \in 1 .. Len(seqs) : \E k \in 1 .. Len(seqs[i]) :
       b = ends[i - 1] + k

LEMMA FlattenEquation ==
  ASSUME NEW X, NEW seqs \in Seq(Seq(X)), seqs # <<>>
  PROVE  \E fl : /\ fl = [i \in 1 .. Len(seqs) |->
                            IF i = 1 THEN seqs[i] ELSE fl[i - 1] \o seqs[i]]
                 /\ FlattenSeq(seqs) = fl[Len(seqs)]
<1> DEFINE I == 1 .. Len(seqs)
           V == Seq(X)
           G(g) == [i \in I |-> IF i = 1 THEN seqs[i] ELSE g[i - 1] \o seqs[i]]
           F == [g \in [I -> V] |-> G(g)]
           rank == [i \in I |-> i]
<1>1. \A i \in I : seqs[i] \in V /\ (i # 1 => i - 1 \in I /\ rank[i - 1] < rank[i])
  OBVIOUS
<1>2. ASSUME NEW g \in [I -> V] PROVE G(g) \in [I -> V]
  <2>1. ASSUME NEW i \in I PROVE (IF i = 1 THEN seqs[i] ELSE g[i - 1] \o seqs[i]) \in V
    <3>1. CASE i = 1
      BY <3>1, <1>1
    <3>2. CASE i # 1
      <4>1. g[i - 1] \in Seq(X) /\ seqs[i] \in Seq(X)
        BY <1>1, <3>2
      <4>2. QED
        BY <3>2, <4>1, ConcatProperties
    <3>3. QED
      BY <3>1, <3>2
  <2>2. QED
    BY <2>1
<1>3. Recursion(I, V, rank, F)
  <2>1. F \in [[I -> V] -> [I -> V]]
    BY <1>2
  <2>2. rank \in [I -> Nat]
    OBVIOUS
  <2>3. V # {}
    <3>1. <<>> \in Seq(X)
      OBVIOUS
    <3>2. QED
      BY <3>1
  <2>4. ASSUME NEW g \in [I -> V], NEW h \in [I -> V], NEW i \in I,
               \A j \in I : rank[j] < rank[i] => g[j] = h[j]
        PROVE  F[g][i] = F[h][i]
    <3>1. i # 1 => g[i - 1] = h[i - 1]
      BY <1>1, <2>4
    <3>2. QED
      BY <3>1
  <2>5. QED
    <3> HIDE DEF F, V, I, rank
    <3> QED
      BY <2>1, <2>2, <2>3, <2>4 DEF Recursion
<1>4. \E f \in [I -> V] : f = F[f]
  <2> HIDE DEF F, V, I, rank
  <2> QED
    BY <1>3, FixedPoint
<1>5. \E f : f = G(f)
  BY <1>4
<1> DEFINE fl == CHOOSE f : f = G(f)
<1>6. fl = G(fl)
  <2> HIDE DEF G
  <2> QED
    BY <1>5
<1>7. Len(seqs) # 0
  BY EmptySeq
<1>8. FlattenSeq(seqs) = fl[Len(seqs)]
  BY <1>7 DEF FlattenSeq
<1>9. QED
  <2> HIDE DEF fl
  <2> QED
    BY <1>6, <1>8

LEMMA Flatten ==
  ASSUME NEW X, NEW seqs \in Seq(Seq(X)), seqs # <<>>
  PROVE  /\ FlattenSeq(seqs) \in Seq(X)
         /\ \E ends : Joined(seqs, FlattenSeq(seqs), ends)
<1> DEFINE n == Len(seqs)
<1>1. n \in Nat /\ 1 <= n /\ \A i \in 1 .. n : seqs[i] \in Seq(X) /\ Len(seqs[i]) \in Nat
  <2>1. n \in Nat /\ n # 0 /\ \A i \in 1 .. n : seqs[i] \in Seq(X)
    BY EmptySeq
  <2>2. QED
    BY <2>1
<1>2. PICK fl : /\ fl = [i \in 1 .. n |-> IF i = 1 THEN seqs[i] ELSE fl[i - 1] \o seqs[i]]
                /\ FlattenSeq(seqs) = fl[n]
  BY FlattenEquation
<1> HIDE DEF n
<1>3. fl[1] = seqs[1] /\ \A i \in 1 .. n : i < n => fl[i + 1] = fl[i] \o seqs[i + 1]
  <2>1. 1 \in 1 .. n
    BY <1>1
  <2>2. ASSUME NEW i \in 1 .. n, i < n PROVE fl[i + 1] = fl[i] \o seqs[i + 1]
    <3>1. i + 1 \in 1 .. n /\ i + 1 # 1 /\ (i + 1) - 1 = i
      BY <1>1, <2>2
    <3>2. QED
      BY <1>2, <3>1
  <2>3. QED
    BY <1>2, <2>1, <2>2
<1> DEFINE ends == [i \in 0 .. n |-> IF i = 0 THEN 0 ELSE Len(fl[i])]
           P(i) == /\ fl[i] \in Seq(X)
                   /\ ends[i] = ends[i - 1] + Len(seqs[i])
                   /\ \A j \in 1 .. i : \A k \in 1 .. Len(seqs[j]) :
                        ends[j - 1] + k <= ends[i] /\ fl[i][ends[j - 1] + k] = seqs[j][k]
                   /\ \A b \in 1 .. ends[i] : \E j \in 1 .. i : \E k \in 1 .. Len(seqs[j]) :
                        b = ends[j - 1] + k
                   /\ \A j \in 0 .. i : ends[j] \in Nat
<1>4. P(1)
  <2>1. fl[1] \in Seq(X) /\ ends[1] = Len(seqs[1]) /\ ends[0] = 0 /\ ends[1] \in Nat
    BY <1>1, <1>3
  <2> HIDE DEF ends
  <2>2. QED
    BY <1>3, <2>1
<1>5. ASSUME NEW i \in 1 .. n, i < n, P(i) PROVE P(i + 1)
  <2>1. /\ i + 1 \in 1 .. n /\ (i + 1) - 1 = i /\ i \in Nat
        /\ seqs[i + 1] \in Seq(X) /\ Len(seqs[i + 1]) \in Nat
    BY <1>1, <1>5
  <2>2. /\ fl[i + 1] \in Seq(X) /\ Len(fl[i + 1]) = Len(fl[i]) + Len(seqs[i + 1])
        /\ \A k \in 1 .. Len(fl[i]) : fl[i + 1][k] = fl[i][k]
        /\ \A k \in 1 .. Len(seqs[i + 1]) : fl[i + 1][Len(fl[i]) + k] = seqs[i + 1][k]
    <3>1. fl[i + 1] = fl[i] \o seqs[i + 1] /\ fl[i] \in Seq(X)
      BY <1>3, <1>5
    <3>2. \A s, t \in Seq(X) :
            /\ s \o t \in Seq(X) /\ Len(s \o t) = Len(s) + Len(t)
            /\ \A k \in 1 .. Len(s) : (s \o t)[k] = s[k]
            /\ \A k \in 1 .. Len(t) : (s \o t)[Len(s) + k] = t[k]
      BY ConcatProperties
    <3> DEFINE s == fl[i]
               t == seqs[i + 1]
    <3>3. s \in Seq(X) /\ t \in Seq(X) /\ fl[i + 1] = s \o t
      BY <2>1, <3>1
    <3> HIDE DEF s, t
    <3>4. /\ fl[i + 1] \in Seq(X) /\ Len(fl[i + 1]) = Len(s) + Len(t)
          /\ \A k \in 1 .. Len(s) : fl[i + 1][k] = s[k]
          /\ \A k \in 1 .. Len(t) : fl[i + 1][Len(s) + k] = t[k]
      BY <3>2, <3>3
    <3>5. QED
      BY <3>4 DEF s, t
  <2>3. /\ ends[i] = Len(fl[i]) /\ ends[i + 1] = Len(fl[i + 1]) /\ ends[i] \in Nat
        /\ Len(fl[i]) \in Nat
    BY <1>1, <1>5, <2>1
  <2> HIDE DEF ends
  <2>4. ends[i + 1] = ends[i] + Len(seqs[i + 1]) /\ ends[i + 1] \in Nat
    <3>1. \A p, q \in Nat : p + q \in Nat
      OBVIOUS
    <3>2. QED
      BY <2>1, <2>2, <2>3, <3>1, Zenon
  <2>5. ASSUME NEW j \in 1 .. i + 1, NEW k \in 1 .. Len(seqs[j])
        PROVE  ends[j - 1] + k <= ends[i + 1] /\ fl[i + 1][ends[j - 1] + k] = seqs[j][k]
    <3>1. CASE j = i + 1
      <4>1. k \in 1 .. Len(seqs[i + 1]) /\ j - 1 = i
        BY <2>1, <3>1
      <4>2. fl[i + 1][ends[i] + k] = seqs[i + 1][k]
        BY <2>2, <2>3, <4>1
      <4>3. ends[i] + k <= ends[i + 1]
        BY <2>1, <2>3, <2>4, <4>1
      <4>4. QED
        BY <3>1, <4>1, <4>2, <4>3
    <3>2. CASE j # i + 1
      <4>1. j \in 1 .. i /\ j - 1 \in 0 .. i
        BY <2>1, <3>2
      <4>2. /\ ends[j - 1] + k <= ends[i] /\ fl[i][ends[j - 1] + k] = seqs[j][k]
            /\ ends[j - 1] \in Nat /\ k \in 1 .. Len(seqs[j])
        BY <1>5, <4>1
      <4>3. ends[j - 1] + k \in 1 .. Len(fl[i]) /\ ends[j - 1] + k <= ends[i + 1]
        <5> DEFINE e == ends[j - 1] + k
        <5>1. k \in Nat /\ 1 <= k
          BY <4>2
        <5>2. e \in Nat /\ 1 <= e /\ e <= ends[i]
          BY <4>2, <5>1
        <5> HIDE DEF e
        <5>4. /\ e \in Nat /\ ends[i] \in Nat /\ ends[i + 1] \in Nat /\ Len(seqs[i + 1]) \in Nat
              /\ 1 <= e /\ e <= ends[i] /\ ends[i + 1] = ends[i] + Len(seqs[i + 1])
          BY <2>1, <2>3, <2>4, <5>2
        <5>5. e \in 1 .. ends[i] /\ e <= ends[i + 1]
          <6> DEFINE q == ends[i]
                     r == ends[i + 1]
                     u == Len(seqs[i + 1])
          <6>1. q \in Nat /\ r \in Nat /\ u \in Nat /\ e \in Nat /\ 1 <= e /\ e <= q /\ r = q + u
            BY <5>4
          <6> HIDE DEF q, r, u
          <6>2. e \in 1 .. q /\ e <= r
            BY <6>1
          <6>3. QED
            BY <6>2 DEF q, r
        <5>6. e \in 1 .. Len(fl[i]) /\ e <= ends[i + 1]
          BY <5>5, <2>3
        <5>7. QED
          BY <5>6 DEF e
      <4>4. QED
        BY <2>2, <4>2, <4>3
    <3>3. QED
      BY <3>1, <3>2
  <2>6. ASSUME NEW b \in 1 .. ends[i + 1]
        PROVE  \E j \in 1 .. i + 1 : \E k \in 1 .. Len(seqs[j]) : b = ends[j - 1] + k
    <3>1. CASE b <= ends[i]
      <4>1. b \in 1 .. ends[i]
        BY <2>3, <2>4, <3>1
      <4>2. PICK j \in 1 .. i : \E k \in 1 .. Len(seqs[j]) : b = ends[j - 1] + k
        BY <1>5, <4>1
      <4>3. j \in 1 .. i + 1
        BY <2>1
      <4>4. QED
        BY <4>2, <4>3
    <3>2. CASE b > ends[i]
      <4>1. b - ends[i] \in 1 .. Len(seqs[i + 1]) /\ b = ends[i] + (b - ends[i])
        <5>1. /\ ends[i] \in Nat /\ Len(seqs[i + 1]) \in Nat
              /\ ends[i + 1] = ends[i] + Len(seqs[i + 1])
          BY <2>1, <2>3, <2>4
        <5>2. b \in Int /\ 1 <= b /\ b <= ends[i + 1]
          BY <2>4
        <5>3. QED
          BY <3>2, <5>1, <5>2
      <4>2. i + 1 \in 1 .. i + 1
        BY <2>1
      <4>3. QED
        BY <2>1, <4>1, <4>2
    <3>3. QED
      BY <2>3, <2>4, <3>1, <3>2
  <2>7. \A j \in 0 .. i + 1 : ends[j] \in Nat
    BY <1>5, <2>1, <2>4
  <2>8. QED
    BY <2>1, <2>2, <2>4, <2>5, <2>6, <2>7
<1>6. \A i \in 1 .. n : P(i)
  <2> DEFINE T == {i \in 1 .. n : P(i)}
  <2> HIDE DEF P
  <2>1. 1 \in T
    BY <1>1, <1>4
  <2>2. \A i \in 1 .. n : i < n /\ i \in T => i + 1 \in T
    BY <1>1, <1>5
  <2>3. 1 .. n \subseteq T
    <3> HIDE DEF T
    <3> QED
      BY <1>1, <2>1, <2>2, StepInduction
  <2>4. QED
    BY <2>3
<1>7. P(n)
  <2> HIDE DEF P
  <2> QED
    BY <1>1, <1>6
<1>8. \A i \in 1 .. n : ends[i] = ends[i - 1] + Len(seqs[i])
  <2>1. \A i \in 1 .. n : P(i) => ends[i] = ends[i - 1] + Len(seqs[i])
    OBVIOUS
  <2> HIDE DEF P, ends
  <2> QED
    BY <1>6, <2>1
<1>9. Len(FlattenSeq(seqs)) = ends[n] /\ FlattenSeq(seqs) = fl[n] /\ ends[0] = 0
  <2>1. n \in 0 .. n /\ n # 0 /\ 0 \in 0 .. n
    BY <1>1
  <2>2. QED
    BY <1>2, <2>1
<1>10. ends \in [0 .. n -> Nat]
  <2>1. \A j \in 0 .. n : ends[j] \in Nat
    BY <1>7
  <2>2. QED
    BY <2>1
<1>11. fl[n] \in Seq(X)
  BY <1>7
<1> DEFINE whole == FlattenSeq(seqs)
<1>12. /\ \A i \in 1 .. n : \A k \in 1 .. Len(seqs[i]) : whole[ends[i - 1] + k] = seqs[i][k]
       /\ \A b \in 1 .. Len(whole) : \E i \in 1 .. n : \E k \in 1 .. Len(seqs[i]) :
            b = ends[i - 1] + k
  <2> HIDE DEF ends, whole
  <2> QED
    BY <1>7, <1>9 DEF whole
<1>13. Joined(seqs, whole, ends)
  <2> HIDE DEF ends, whole
  <2> QED
    BY <1>8, <1>9, <1>10, <1>12 DEF Joined, n, whole
<1>14. QED
  <2> HIDE DEF ends
  <2> QED
    BY <1>9, <1>11, <1>13

----------------------------------------------------------------------------
(* The blobs of a well-formed file and their numbers.                      *)

TopsOf(f) == [i \in DOMAIN f.lines |-> f.lines[i].tops]

Maker(f, b) == CHOOSE i \in DOMAIN f.lines :
                 \E k \in DOMAIN f.lines[i].tops : f.lines[i].tops[k] = BlobIds(f)[b]

LEMMA LinesOf ==
  ASSUME NEW f, WellFormed(f)
  PROVE  /\ Len(f.lines) \in Nat /\ 1 <= Len(f.lines) /\ DOMAIN f.lines = 1 .. Len(f.lines)
         /\ \A i \in DOMAIN f.lines :
              /\ f.lines[i].type \in STRING /\ f.lines[i].name \in STRING
              /\ f.lines[i].bottoms \in Seq(STRING) /\ f.lines[i].tops \in Seq(STRING)
              /\ Len(f.lines[i].tops) \in Nat
              /\ DOMAIN f.lines[i].tops = 1 .. Len(f.lines[i].tops)
         /\ TopsOf(f) \in Seq(Seq(STRING)) /\ TopsOf(f) # <<>>
         /\ Len(TopsOf(f)) = Len(f.lines)
         /\ \A i \in DOMAIN f.lines : TopsOf(f)[i] = f.lines[i].tops
<1> DEFINE R == [type : STRING, name : STRING, bottoms : Seq(STRING), tops : Seq(STRING)]
<1>1. f.lines \in Seq(R) /\ f.lines # <<>>
  BY DEF WellFormed
<1>2. Len(f.lines) \in Nat /\ 1 <= Len(f.lines) /\ DOMAIN f.lines = 1 .. Len(f.lines)
  <2>1. Len(f.lines) # 0 /\ Len(f.lines) \in Nat /\ DOMAIN f.lines = 1 .. Len(f.lines)
    <3> HIDE DEF R
    <3> QED
      BY <1>1, EmptySeq, LenProperties
  <2>2. QED
    BY <2>1
<1>3. \A i \in DOMAIN f.lines : f.lines[i] \in R
  <2> HIDE DEF R
  <2> QED
    BY <1>1, ElementOfSeq, LenProperties
<1>4. \A i \in DOMAIN f.lines :
              /\ f.lines[i].type \in STRING /\ f.lines[i].name \in STRING
              /\ f.lines[i].bottoms \in Seq(STRING) /\ f.lines[i].tops \in Seq(STRING)
  BY <1>3
<1>5. \A i \in DOMAIN f.lines :
              /\ Len(f.lines[i].tops) \in Nat
              /\ DOMAIN f.lines[i].tops = 1 .. Len(f.lines[i].tops)
  BY <1>4, LenProperties
<1>6. TopsOf(f) \in Seq(Seq(STRING)) /\ Len(TopsOf(f)) = Len(f.lines)
  <2>1. TopsOf(f) = [i \in 1 .. Len(f.lines) |-> f.lines[i].tops]
    BY <1>2 DEF TopsOf
  <2>2. \A i \in 1 .. Len(f.lines) : f.lines[i].tops \in Seq(STRING)
    BY <1>2, <1>4
  <2> DEFINE t == TopsOf(f)
             m == Len(f.lines)
  <2>3. t \in [1 .. m -> Seq(STRING)] /\ m \in Nat
    BY <1>2, <2>1, <2>2
  <2> HIDE DEF t, m
  <2>4. t \in Seq(Seq(STRING)) /\ Len(t) = m
    BY <2>3, SeqDef, LenProperties
  <2>5. QED
    BY <2>4 DEF t, m
<1>7. TopsOf(f) # <<>>
  <2>1. Len(TopsOf(f)) # 0
    BY <1>2, <1>6
  <2>2. QED
    BY <2>1, EmptySeq
<1>8. QED
  BY <1>2, <1>4, <1>5, <1>6, <1>7 DEF TopsOf

LEMMA Numbering ==
  ASSUME NEW f, WellFormed(f)
  PROVE  /\ BlobIds(f) \in Seq(STRING)
         /\ \E ends : Joined(TopsOf(f), BlobIds(f), ends)
<1>1. TopsOf(f) \in Seq(Seq(STRING)) /\ TopsOf(f) # <<>>
  BY LinesOf
<1>2. BlobIds(f) = FlattenSeq(TopsOf(f))
  BY DEF BlobIds, TopsOf
<1>3. QED
  BY <1>1, <1>2, Flatten

(* ends[i] blobs are made by the first i lines.                            *)
LEMMA NumberFacts ==
  ASSUME NEW f, WellFormed(f), NEW ends, Joined(TopsOf(f), BlobIds(f), ends)
  PROVE  /\ ends \in [0 .. Len(f.lines) -> Nat] /\ ends[0] = 0 /\ ends[1] = 1
         /\ ends[Len(f.lines)] = Len(BlobIds(f))
         /\ \A i \in DOMAIN f.lines : ends[i] = ends[i - 1] + Len(f.lines[i].tops)
         /\ \A i, j \in 0 .. Len(f.lines) : i <= j => ends[i] <= ends[j]
         /\ \A i \in DOMAIN f.lines : \A k \in DOMAIN f.lines[i].tops :
              /\ ends[i - 1] + k \in 1 .. Len(BlobIds(f))
              /\ BlobIds(f)[ends[i - 1] + k] = f.lines[i].tops[k]
              /\ ends[i - 1] + k <= ends[i]
         /\ \A b \in 1 .. Len(BlobIds(f)) : \E i \in DOMAIN f.lines :
              \E k \in DOMAIN f.lines[i].tops : b = ends[i - 1] + k
         /\ \A b, c \in 1 .. Len(BlobIds(f)) : BlobIds(f)[b] = BlobIds(f)[c] => b = c
<1> DEFINE n == Len(f.lines)
           lines == f.lines
<1>1. /\ n \in Nat /\ 1 <= n /\ DOMAIN lines = 1 .. n /\ Len(TopsOf(f)) = n
      /\ \A i \in 1 .. n : /\ Len(lines[i].tops) \in Nat
                           /\ DOMAIN lines[i].tops = 1 .. Len(lines[i].tops)
                           /\ TopsOf(f)[i] = lines[i].tops
  BY LinesOf
<1>2. /\ ends \in [0 .. n -> Nat] /\ ends[0] = 0
      /\ \A i \in 1 .. n : ends[i] = ends[i - 1] + Len(lines[i].tops)
      /\ Len(BlobIds(f)) = ends[n]
  BY <1>1 DEF Joined
<1>3. /\ \A i \in 1 .. n : \A k \in DOMAIN lines[i].tops :
           BlobIds(f)[ends[i - 1] + k] = lines[i].tops[k]
      /\ \A b \in 1 .. Len(BlobIds(f)) : \E i \in 1 .. n :
           \E k \in DOMAIN lines[i].tops : b = ends[i - 1] + k
  <2>1. \A i \in 1 .. n : 1 .. Len(TopsOf(f)[i]) = DOMAIN lines[i].tops
    BY <1>1
  <2>2. \A i \in 1 .. n : \A k \in 1 .. Len(TopsOf(f)[i]) :
           BlobIds(f)[ends[i - 1] + k] = TopsOf(f)[i][k]
    BY <1>1 DEF Joined
  <2>3. \A b \in 1 .. Len(BlobIds(f)) : \E i \in 1 .. n :
           \E k \in 1 .. Len(TopsOf(f)[i]) : b = ends[i - 1] + k
    BY <1>1 DEF Joined
  <2>4. \A i \in 1 .. n : TopsOf(f)[i] = lines[i].tops
    BY <1>1
  <2> HIDE DEF n, lines
  <2>5. ASSUME NEW i \in 1 .. n, NEW k \in DOMAIN lines[i].tops
        PROVE  BlobIds(f)[ends[i - 1] + k] = lines[i].tops[k]
    <3>1. k \in 1 .. Len(TopsOf(f)[i])
      BY <2>1
    <3>2. BlobIds(f)[ends[i - 1] + k] = TopsOf(f)[i][k]
      BY <2>2, <3>1
    <3>3. QED
      BY <2>4, <3>2
  <2>6. ASSUME NEW b \in 1 .. Len(BlobIds(f))
        PROVE  \E i \in 1 .. n : \E k \in DOMAIN lines[i].tops : b = ends[i - 1] + k
    <3>1. PICK i \in 1 .. n : \E k \in 1 .. Len(TopsOf(f)[i]) : b = ends[i - 1] + k
      BY <2>3
    <3>2. \E k \in DOMAIN lines[i].tops : b = ends[i - 1] + k
      BY <2>1, <3>1, Zenon
    <3>3. QED
      BY <3>2
  <2>7. QED
    BY <2>5, <2>6
<1>4. ends[1] = 1
  <2>1. lines[1].tops = <<"data">>
    BY DEF WellFormed
  <2>2. Len(lines[1].tops) = 1 /\ 1 \in 1 .. n /\ 1 - 1 = 0
    BY <1>1, <2>1
  <2>3. ends[1] = ends[1 - 1] + Len(lines[1].tops)
    BY <1>2, <2>2
  <2>4. ends[1] = ends[0] + 1
    BY <2>2, <2>3
  <2>5. QED
    BY <1>2, <2>4
<1>5. ASSUME NEW i \in 0 .. n, NEW j \in 0 .. n, i <= j PROVE ends[i] <= ends[j]
  <2> DEFINE T == {m \in 0 .. n : ends[i] <= ends[m]}
  <2>1. i \in T
    BY <1>2
  <2>2. \A m \in i .. n : m < n /\ m \in T => m + 1 \in T
    <3>1. SUFFICES ASSUME NEW m \in i .. n, m < n, m \in T PROVE m + 1 \in T
      OBVIOUS
    <3>2. m + 1 \in 1 .. n /\ m + 1 \in 0 .. n /\ (m + 1) - 1 = m /\ m \in 0 .. n
      BY <1>1, <3>1
    <3>3. ends[m + 1] = ends[m] + Len(lines[m + 1].tops) /\ Len(lines[m + 1].tops) \in Nat
      BY <1>1, <1>2, <3>2
    <3>4. ends[m] \in Nat /\ ends[i] \in Nat /\ ends[i] <= ends[m]
      BY <1>2, <3>1, <3>2
    <3>5. ends[i] <= ends[m + 1]
      BY <3>3, <3>4
    <3>6. QED
      BY <3>2, <3>5
  <2>3. i .. n \subseteq T
    <3> HIDE DEF T, n
    <3>1. i \in Nat /\ n \in Nat
      BY <1>1
    <3> QED
      BY <2>1, <2>2, <3>1, StepInduction
  <2>4. j \in i .. n
    BY <1>1, <1>5
  <2>5. QED
    BY <2>3, <2>4
<1>6. ASSUME NEW i \in 1 .. n, NEW k \in DOMAIN lines[i].tops
      PROVE  ends[i - 1] + k \in 1 .. Len(BlobIds(f)) /\ ends[i - 1] + k <= ends[i]
  <2>1. /\ i - 1 \in 0 .. n /\ i \in 0 .. n /\ n \in 0 .. n /\ i <= n
        /\ k \in 1 .. Len(lines[i].tops) /\ Len(lines[i].tops) \in Nat
    BY <1>1
  <2>2. /\ ends[i - 1] \in Nat /\ ends[i] \in Nat /\ ends[n] \in Nat
        /\ ends[i] = ends[i - 1] + Len(lines[i].tops) /\ ends[i] <= ends[n]
    BY <1>2, <1>5, <2>1
  <2>3. QED
    BY <1>2, <2>1, <2>2
<1>7. ASSUME NEW b \in 1 .. Len(BlobIds(f)), NEW c \in 1 .. Len(BlobIds(f)),
             BlobIds(f)[b] = BlobIds(f)[c]
      PROVE  b = c
  <2>1. PICK i \in 1 .. n : \E k \in DOMAIN lines[i].tops : b = ends[i - 1] + k
    BY <1>3
  <2>2. PICK j \in 1 .. n : \E l \in DOMAIN lines[j].tops : c = ends[j - 1] + l
    BY <1>3
  <2> PICK k \in DOMAIN lines[i].tops : b = ends[i - 1] + k
    BY <2>1
  <2> PICK l \in DOMAIN lines[j].tops : c = ends[j - 1] + l
    BY <2>2
  <2>3. lines[i].tops[k] = lines[j].tops[l]
    BY <1>3, <1>7
  <2>4. \A x, y \in DOMAIN lines : \A u \in DOMAIN lines[x].tops, v \in DOMAIN lines[y].tops :
          lines[x].tops[u] = lines[y].tops[v] => x = y /\ u = v
    BY DEF WellFormed
  <2>5. i = j /\ k = l
    <3>1. i \in DOMAIN lines /\ j \in DOMAIN lines
      BY <1>1
    <3> HIDE DEF lines, n
    <3>2. QED
      BY <3>1, <2>3, <2>4, Zenon
  <2>6. QED
    BY <2>5
<1>8. QED
  <2> HIDE DEF n, lines
  <2>1. \A i \in 1 .. n : \A k \in DOMAIN lines[i].tops :
              /\ ends[i - 1] + k \in 1 .. Len(BlobIds(f))
              /\ BlobIds(f)[ends[i - 1] + k] = lines[i].tops[k]
              /\ ends[i - 1] + k <= ends[i]
    BY <1>3, <1>6
  <2>2. \A i, j \in 0 .. n : i <= j => ends[i] <= ends[j]
    BY <1>5
  <2>3. \A b, c \in 1 .. Len(BlobIds(f)) : BlobIds(f)[b] = BlobIds(f)[c] => b = c
    BY <1>7
  <2>4. /\ ends \in [0 .. n -> Nat] /\ ends[0] = 0 /\ ends[1] = 1
        /\ ends[n] = Len(BlobIds(f))
        /\ \A i \in DOMAIN lines : ends[i] = ends[i - 1] + Len(lines[i].tops)
    BY <1>1, <1>2, <1>4
  <2>5. \A b \in 1 .. Len(BlobIds(f)) : \E i \in DOMAIN lines :
              \E k \in DOMAIN lines[i].tops : b = ends[i - 1] + k
    BY <1>1, <1>3
  <2>6. 1 .. n = DOMAIN lines
    BY <1>1
  <2>7. QED
    BY <2>1, <2>2, <2>3, <2>4, <2>5, <2>6 DEF n, lines

LEMMA Ids ==
  ASSUME NEW f, WellFormed(f)
  PROVE  /\ Len(BlobIds(f)) \in Nat /\ 1 <= Len(BlobIds(f))
         /\ DOMAIN BlobIds(f) = 1 .. Len(BlobIds(f))
         /\ \A b \in 1 .. Len(BlobIds(f)) :
              BlobIds(f)[b] \in Names(f) /\ IdOf(f, BlobIds(f)[b]) = b
         /\ \A name \in Names(f) :
              /\ name \in STRING /\ IdOf(f, name) \in 1 .. Len(BlobIds(f))
              /\ BlobIds(f)[IdOf(f, name)] = name
         /\ \A name : name \notin Names(f) => IdOf(f, name) = 0
         /\ \A b, c \in 1 .. Len(BlobIds(f)) : BlobIds(f)[b] = BlobIds(f)[c] => b = c
<1> DEFINE ids == BlobIds(f)
           n == Len(BlobIds(f))
<1>1. ids \in Seq(STRING) /\ n \in Nat /\ DOMAIN ids = 1 .. n
  BY Numbering, LenProperties
<1>2. PICK ends : Joined(TopsOf(f), BlobIds(f), ends)
  BY Numbering
<1>3. \A b, c \in 1 .. n : ids[b] = ids[c] => b = c
  BY <1>2, NumberFacts
<1>4. 1 <= n
  <2>1. /\ ends \in [0 .. Len(f.lines) -> Nat] /\ ends[1] = 1
        /\ ends[Len(f.lines)] = n
        /\ \A i, j \in 0 .. Len(f.lines) : i <= j => ends[i] <= ends[j]
    BY <1>2, NumberFacts
  <2>2. Len(f.lines) \in Nat /\ 1 <= Len(f.lines)
    BY LinesOf
  <2>3. 1 \in 0 .. Len(f.lines) /\ Len(f.lines) \in 0 .. Len(f.lines)
    BY <2>2
  <2>4. QED
    BY <2>1, <2>2, <2>3
<1> HIDE DEF n
<1>5. \A name : IdOf(f, name) = IF \E i \in DOMAIN ids : ids[i] = name
                                THEN CHOOSE i \in DOMAIN ids : ids[i] = name ELSE 0
  BY DEF IdOf
<1>6. \A name : name \in Names(f) <=> \E i \in 1 .. n : ids[i] = name
  BY <1>1 DEF Names
<1> HIDE DEF ids
<1>7. ASSUME NEW b \in 1 .. n PROVE ids[b] \in Names(f) /\ IdOf(f, ids[b]) = b
  <2>1. \E i \in DOMAIN ids : ids[i] = ids[b]
    BY <1>1
  <2> DEFINE c == CHOOSE i \in DOMAIN ids : ids[i] = ids[b]
  <2>2. c \in DOMAIN ids /\ ids[c] = ids[b]
    BY <2>1
  <2>3. IdOf(f, ids[b]) = c
    BY <1>5, <2>1
  <2> HIDE DEF c
  <2>4. QED
    BY <1>1, <1>3, <1>6, <2>2, <2>3
<1>8. ASSUME NEW name \in Names(f)
      PROVE  name \in STRING /\ IdOf(f, name) \in 1 .. n /\ ids[IdOf(f, name)] = name
  <2>1. PICK b \in 1 .. n : ids[b] = name
    BY <1>6
  <2>2. ids[b] \in STRING
    BY <1>1, ElementOfSeq DEF n, ids
  <2>3. QED
    BY <1>7, <2>1, <2>2
<1>9. \A name : name \notin Names(f) => IdOf(f, name) = 0
  BY <1>1, <1>5, <1>6
<1>10. QED
  BY <1>1, <1>3, <1>4, <1>7, <1>8, <1>9 DEF n, ids

LEMMA Makers ==
  ASSUME NEW f, WellFormed(f)
  PROVE  /\ \A i \in DOMAIN f.lines : \A k \in DOMAIN f.lines[i].tops :
              f.lines[i].tops[k] \in Names(f) /\ Maker(f, IdOf(f, f.lines[i].tops[k])) = i
         /\ \A b \in 1 .. Len(BlobIds(f)) :
              /\ Maker(f, b) \in DOMAIN f.lines
              /\ \E k \in DOMAIN f.lines[Maker(f, b)].tops :
                   f.lines[Maker(f, b)].tops[k] = BlobIds(f)[b]
         /\ 1 \in DOMAIN f.lines /\ BlobIds(f)[1] = "data" /\ "data" \in Names(f)
         /\ IdOf(f, "data") = 1 /\ Maker(f, 1) = 1
         /\ \A b \in 1 .. Len(BlobIds(f)) : Maker(f, b) = 1 => b = 1
<1> DEFINE n == Len(BlobIds(f))
           lines == f.lines
<1>1. PICK ends : Joined(TopsOf(f), BlobIds(f), ends)
  BY Numbering
<1>2. /\ \A i \in DOMAIN lines : \A k \in DOMAIN lines[i].tops :
           /\ ends[i - 1] + k \in 1 .. n
           /\ BlobIds(f)[ends[i - 1] + k] = lines[i].tops[k]
      /\ \A b \in 1 .. n : \E i \in DOMAIN lines : \E k \in DOMAIN lines[i].tops :
           b = ends[i - 1] + k
      /\ ends[0] = 0
  BY <1>1, NumberFacts
<1>3. \A b \in 1 .. n : BlobIds(f)[b] \in Names(f) /\ IdOf(f, BlobIds(f)[b]) = b
  BY Ids
<1>4. \A x, y \in DOMAIN lines : \A u \in DOMAIN lines[x].tops, v \in DOMAIN lines[y].tops :
        lines[x].tops[u] = lines[y].tops[v] => x = y /\ u = v
  BY DEF WellFormed
<1>5. lines[1].tops = <<"data">> /\ 1 \in DOMAIN lines
  <2>1. Len(f.lines) \in Nat /\ 1 <= Len(f.lines) /\ DOMAIN f.lines = 1 .. Len(f.lines)
    BY LinesOf
  <2>2. QED
    BY <2>1 DEF WellFormed
<1>6. \A b \in 1 .. n : Maker(f, b) = CHOOSE i \in DOMAIN lines :
        \E k \in DOMAIN lines[i].tops : lines[i].tops[k] = BlobIds(f)[b]
  BY DEF Maker
<1> HIDE DEF n, lines
<1>7. ASSUME NEW b \in 1 .. n
      PROVE  \E i \in DOMAIN lines : \E k \in DOMAIN lines[i].tops : lines[i].tops[k] = BlobIds(f)[b]
  <2>1. PICK i \in DOMAIN lines : \E k \in DOMAIN lines[i].tops : b = ends[i - 1] + k
    BY <1>2
  <2>2. PICK k \in DOMAIN lines[i].tops : b = ends[i - 1] + k
    BY <2>1
  <2>3. lines[i].tops[k] = BlobIds(f)[b]
    BY <1>2, <2>2
  <2>4. QED
    BY <2>3
<1>8. ASSUME NEW b \in 1 .. n
      PROVE  /\ Maker(f, b) \in DOMAIN lines
             /\ \E k \in DOMAIN lines[Maker(f, b)].tops :
                  lines[Maker(f, b)].tops[k] = BlobIds(f)[b]
  BY <1>6, <1>7
<1>9. ASSUME NEW i \in DOMAIN lines, NEW k \in DOMAIN lines[i].tops
      PROVE  lines[i].tops[k] \in Names(f) /\ Maker(f, IdOf(f, lines[i].tops[k])) = i
  <2> DEFINE b == ends[i - 1] + k
  <2>1. b \in 1 .. n /\ BlobIds(f)[b] = lines[i].tops[k]
    BY <1>2
  <2> HIDE DEF b
  <2>2. IdOf(f, lines[i].tops[k]) = b /\ lines[i].tops[k] \in Names(f)
    BY <1>3, <2>1
  <2>3. PICK l \in DOMAIN lines[Maker(f, b)].tops : lines[Maker(f, b)].tops[l] = lines[i].tops[k]
    BY <1>8, <2>1
  <2>4. Maker(f, b) \in DOMAIN lines
    BY <1>8, <2>1
  <2>5. Maker(f, b) = i
    BY <1>4, <2>3, <2>4
  <2>6. QED
    BY <2>2, <2>5
<1>10. BlobIds(f)[1] = "data" /\ 1 \in 1 .. n
  <2>1. 1 \in DOMAIN lines[1].tops /\ lines[1].tops[1] = "data"
    BY <1>5
  <2>2. ends[1 - 1] + 1 \in 1 .. n /\ BlobIds(f)[ends[1 - 1] + 1] = "data"
    BY <1>2, <1>5, <2>1
  <2>3. ends[1 - 1] + 1 = 1
    BY <1>2
  <2>4. QED
    BY <2>2, <2>3
<1>11. /\ "data" \in Names(f) /\ IdOf(f, "data") = 1 /\ Maker(f, 1) = 1
  <2>1. "data" \in Names(f) /\ IdOf(f, "data") = 1
    BY <1>3, <1>10
  <2>2. 1 \in DOMAIN lines[1].tops /\ lines[1].tops[1] = "data"
    BY <1>5
  <2>3. QED
    BY <1>5, <1>9, <2>1, <2>2
<1>12. ASSUME NEW b \in 1 .. n, Maker(f, b) = 1 PROVE b = 1
  <2>1. PICK k \in DOMAIN lines[1].tops : lines[1].tops[k] = BlobIds(f)[b]
    BY <1>8, <1>12
  <2>2. lines[1].tops[k] = "data"
    BY <1>5
  <2>3. QED
    BY <1>3, <1>11, <2>1, <2>2
<1>13. QED
  BY <1>5, <1>8, <1>9, <1>10, <1>11, <1>12 DEF n, lines

LEMMA IdNumber ==
  ASSUME NEW f, WellFormed(f), NEW ends, Joined(TopsOf(f), BlobIds(f), ends),
         NEW i \in DOMAIN f.lines, NEW k \in DOMAIN f.lines[i].tops
  PROVE  IdOf(f, f.lines[i].tops[k]) = ends[i - 1] + k /\ Maker(f, ends[i - 1] + k) = i
<1>1. /\ ends[i - 1] + k \in 1 .. Len(BlobIds(f))
      /\ BlobIds(f)[ends[i - 1] + k] = f.lines[i].tops[k]
  BY NumberFacts
<1>2. IdOf(f, f.lines[i].tops[k]) = ends[i - 1] + k
  BY <1>1, Ids
<1>3. Maker(f, IdOf(f, f.lines[i].tops[k])) = i
  BY Makers
<1>4. QED
  BY <1>2, <1>3

(* What a line reads was made by an earlier one.                           *)
LEMMA Reads ==
  ASSUME NEW f, WellFormed(f), NEW i \in DOMAIN f.lines, i # 1
  PROVE  \E x \in Names(f) :
           /\ f.lines[i].bottoms = <<x>>
           /\ Maker(f, IdOf(f, x)) < i
           /\ \A k \in DOMAIN f.lines[i].tops : IdOf(f, x) < IdOf(f, f.lines[i].tops[k])
<1>1. Len(f.lines) \in Nat /\ DOMAIN f.lines = 1 .. Len(f.lines)
  BY LinesOf
<1>2. \A m \in DOMAIN f.lines \ {1} : \E j \in 1 .. m - 1 : \E l \in DOMAIN f.lines[j].tops :
        f.lines[m].bottoms = <<f.lines[j].tops[l]>>
  BY DEF WellFormed
<1>3. PICK j \in 1 .. i - 1 : \E l \in DOMAIN f.lines[j].tops :
        f.lines[i].bottoms = <<f.lines[j].tops[l]>>
  BY <1>2
<1>4. PICK l \in DOMAIN f.lines[j].tops : f.lines[i].bottoms = <<f.lines[j].tops[l]>>
  BY <1>3
<1>5. PICK ends : Joined(TopsOf(f), BlobIds(f), ends)
  BY Numbering
<1>6. i \in Nat /\ j \in Nat /\ j \in DOMAIN f.lines /\ j < i
  BY <1>1
<1> DEFINE x == f.lines[j].tops[l]
<1>7. x \in Names(f) /\ Maker(f, IdOf(f, x)) = j /\ IdOf(f, x) = ends[j - 1] + l
  BY <1>5, <1>6, Makers, IdNumber
<1> HIDE DEF x
<1>8. ASSUME NEW k \in DOMAIN f.lines[i].tops
      PROVE  IdOf(f, x) < IdOf(f, f.lines[i].tops[k])
  <2>1. IdOf(f, f.lines[i].tops[k]) = ends[i - 1] + k
    BY <1>5, IdNumber
  <2>2. k \in Nat /\ 1 <= k
    BY LinesOf
  <2>3. /\ ends[j - 1] + l <= ends[j]
        /\ ends \in [0 .. Len(f.lines) -> Nat]
        /\ \A a, b \in 0 .. Len(f.lines) : a <= b => ends[a] <= ends[b]
    BY <1>5, <1>6, NumberFacts
  <2>4. j \in 0 .. Len(f.lines) /\ i - 1 \in 0 .. Len(f.lines) /\ j <= i - 1
    BY <1>1, <1>6
  <2>5. ends[j] <= ends[i - 1] /\ ends[j] \in Nat /\ ends[i - 1] \in Nat
    BY <2>3, <2>4
  <2>6. IdOf(f, x) \in Nat /\ IdOf(f, x) <= ends[j]
    BY <1>7, <2>3, Ids
  <2>7. QED
    BY <2>1, <2>2, <2>5, <2>6
<1>9. f.lines[i].bottoms = <<x>>
  BY <1>4 DEF x
<1>10. Maker(f, IdOf(f, x)) < i
  BY <1>6, <1>7
<1>11. QED
  BY <1>7, <1>8, <1>9, <1>10

----------------------------------------------------------------------------
(* What loading yields, in one formula.                                    *)

NetLayers(f) ==
  [i \in DOMAIN f.lines |->
     LayerOf(f.lines[i], [k \in DOMAIN f.lines[i].bottoms |-> IdOf(f, f.lines[i].bottoms[k])],
                         [k \in DOMAIN f.lines[i].tops |-> IdOf(f, f.lines[i].tops[k])])]

NetBlobs(f, how) ==
  [b \in DOMAIN BlobIds(f) |-> [name |-> IF how = "text" THEN BlobIds(f)[b] ELSE "",
                                producer |-> Maker(f, b)]]

Loadable(f) == f.magic /\ \A i \in DOMAIN f.lines : CanCreate(LayerToIndex(f.lines[i].type))

LoadedNet(f, how) ==
  IF Loadable(f) THEN [ret |-> 0, blobs |-> NetBlobs(f, how), layers |-> NetLayers(f)]
  ELSE NoNet(-1)

(* The net after i records of the binary form.                             *)
BinPart(f, i) ==
  IF \A j \in 1 .. i : CanCreate(LayerToIndex(f.lines[j].type))
  THEN [ret |-> 0,
        blobs |-> [b \in DOMAIN BlobIds(f) |->
                     [name |-> "", producer |-> IF Maker(f, b) <= i THEN Maker(f, b) ELSE 0]],
        layers |-> [j \in DOMAIN f.lines |-> IF j <= i THEN NetLayers(f)[j]
                                             ELSE LayerOf(f.lines[j], <<>>, <<>>)]]
  ELSE NoNet(-1)

LEMMA BinStep ==
  ASSUME NEW f, WellFormed(f), NEW i \in DOMAIN f.lines
  PROVE  BinLine(f, BinPart(f, i - 1), i) = BinPart(f, i)
<1> DEFINE line == f.lines[i]
           known(m) == \A j \in 1 .. m : CanCreate(LayerToIndex(f.lines[j].type))
           bottoms == [k \in DOMAIN line.bottoms |-> IdOf(f, line.bottoms[k])]
           tops == [k \in DOMAIN line.tops |-> IdOf(f, line.tops[k])]
           n == BinPart(f, i - 1)
<1>1. i \in Nat /\ 1 <= i /\ DOMAIN f.lines = 1 .. Len(f.lines) /\ Len(f.lines) \in Nat
  BY LinesOf
<1>2. NoNet(-1).ret # 0
  BY DEF NoNet
<1>3. CASE ~known(i - 1)
  <2>1. ~known(i)
    BY <1>1, <1>3
  <2>2. BinPart(f, i - 1) = NoNet(-1) /\ BinPart(f, i) = NoNet(-1)
    BY <1>3, <2>1 DEF BinPart
  <2>3. BinLine(f, NoNet(-1), i) = NoNet(-1)
    BY <1>2 DEF BinLine
  <2>4. QED
    BY <2>2, <2>3
<1>4. CASE known(i - 1) /\ ~CanCreate(LayerToIndex(line.type))
  <2>1. ~known(i)
    BY <1>1, <1>4
  <2>2. BinPart(f, i) = NoNet(-1)
    BY <2>1 DEF BinPart
  <2>3. n.ret = 0
    BY <1>4 DEF BinPart
  <2>4. BinLine(f, n, i) = NoNet(-1)
    <3> HIDE DEF n
    <3> QED
      BY <1>4, <2>3 DEF BinLine
  <2>5. QED
    BY <2>2, <2>4
<1>5. CASE known(i - 1) /\ CanCreate(LayerToIndex(line.type))
  <2>1. known(i)
    <3>1. \A j \in 1 .. i : j \in 1 .. i - 1 \/ j = i
      BY <1>1
    <3>2. QED
      BY <1>5, <3>1
  <2> DEFINE bl(m) == [b \in DOMAIN BlobIds(f) |->
                         [name |-> "", producer |-> IF Maker(f, b) <= m THEN Maker(f, b) ELSE 0]]
             la(m) == [j \in DOMAIN f.lines |-> IF j <= m THEN NetLayers(f)[j]
                                                ELSE LayerOf(f.lines[j], <<>>, <<>>)]
  <2>2. n = [ret |-> 0, blobs |-> bl(i - 1), layers |-> la(i - 1)]
    BY <1>5 DEF BinPart
  <2>3. BinPart(f, i) = [ret |-> 0, blobs |-> bl(i), layers |-> la(i)]
    BY <2>1 DEF BinPart
  <2>4. BinLine(f, n, i) =
          [n EXCEPT !.blobs = [b \in DOMAIN @ |-> IF \E k \in DOMAIN tops : tops[k] = b
                                                  THEN [@[b] EXCEPT !.producer = i] ELSE @[b]],
                    !.layers[i] = LayerOf(line, bottoms, tops)]
    <3> HIDE DEF n, bl, la
    <3>1. n.ret = 0
      BY <2>2
    <3>2. QED
      BY <1>5, <3>1 DEF BinLine
  <2>5. ASSUME NEW b \in DOMAIN BlobIds(f)
        PROVE  (\E k \in DOMAIN tops : tops[k] = b) <=> Maker(f, b) = i
    <3>1. b \in 1 .. Len(BlobIds(f)) /\ IdOf(f, BlobIds(f)[b]) = b
      BY Ids
    <3>2. ASSUME NEW k \in DOMAIN tops, tops[k] = b PROVE Maker(f, b) = i
      BY <3>2, Makers
    <3>3. ASSUME Maker(f, b) = i PROVE \E k \in DOMAIN tops : tops[k] = b
      <4>1. PICK k \in DOMAIN line.tops : line.tops[k] = BlobIds(f)[b]
        BY <3>1, <3>3, Makers
      <4>2. k \in DOMAIN tops /\ tops[k] = b
        BY <3>1, <4>1
      <4>3. QED
        BY <4>2
    <3>4. QED
      BY <3>2, <3>3
  <2>6. \A b \in DOMAIN BlobIds(f) : Maker(f, b) \in Nat
    <3>1. \A b \in 1 .. Len(BlobIds(f)) : Maker(f, b) \in DOMAIN f.lines
      BY Makers
    <3>2. DOMAIN BlobIds(f) = 1 .. Len(BlobIds(f))
      BY Ids
    <3>3. QED
      BY <1>1, <3>1, <3>2
  <2> DEFINE nb == [b \in DOMAIN bl(i - 1) |-> IF \E k \in DOMAIN tops : tops[k] = b
                                               THEN [bl(i - 1)[b] EXCEPT !.producer = i]
                                               ELSE bl(i - 1)[b]]
             nl == [la(i - 1) EXCEPT ![i] = LayerOf(line, bottoms, tops)]
  <2>7. nb = bl(i)
    <3>1. ASSUME NEW b \in DOMAIN BlobIds(f)
          PROVE  nb[b] = [name |-> "", producer |-> IF Maker(f, b) <= i THEN Maker(f, b) ELSE 0]
      <4>1. bl(i - 1)[b] = [name |-> "", producer |-> IF Maker(f, b) <= i - 1 THEN Maker(f, b) ELSE 0]
        OBVIOUS
      <4>2. nb[b] = IF Maker(f, b) = i THEN [name |-> "", producer |-> i] ELSE bl(i - 1)[b]
        <5> DEFINE has == \E k \in DOMAIN tops : tops[k] = b
                   old == bl(i - 1)[b]
        <5>1. nb[b] = IF has THEN [old EXCEPT !.producer = i] ELSE old
          OBVIOUS
        <5>2. [old EXCEPT !.producer = i] = [name |-> "", producer |-> i]
          <6> DEFINE v == IF Maker(f, b) <= i - 1 THEN Maker(f, b) ELSE 0
                     w == ""
          <6>1. old = [name |-> w, producer |-> v]
            BY <4>1
          <6> HIDE DEF old, v, w
          <6>2. [old EXCEPT !.producer = i] = [name |-> w, producer |-> i]
            BY <6>1, SMTT(20)
          <6>3. QED
            BY <6>2 DEF w
        <5>3. has <=> Maker(f, b) = i
          BY <2>5
        <5> HIDE DEF has, old, nb
        <5>4. nb[b] = IF Maker(f, b) = i THEN [name |-> "", producer |-> i] ELSE old
          BY <5>1, <5>2, <5>3
        <5>5. QED
          BY <5>4 DEF old
      <4>3. Maker(f, b) \in Nat
        BY <2>6
      <4>4. Maker(f, b) # i => (Maker(f, b) <= i - 1 <=> Maker(f, b) <= i)
        BY <1>1, <4>3
      <4>5. i <= i
        BY <1>1
      <4> HIDE DEF nb, bl
      <4>6. QED
        BY <4>1, <4>2, <4>4, <4>5
    <3>2. DOMAIN nb = DOMAIN BlobIds(f) /\ nb = [b \in DOMAIN BlobIds(f) |-> nb[b]]
      OBVIOUS
    <3> HIDE DEF nb
    <3>3. QED
      BY <3>1, <3>2
  <2>8. nl = la(i)
    <3>1. NetLayers(f)[i] = LayerOf(line, bottoms, tops)
      BY DEF NetLayers
    <3>2. \A j \in DOMAIN f.lines : j # i => (j <= i - 1 <=> j <= i)
      BY <1>1
    <3>3. i <= i
      BY <1>1
    <3> HIDE DEF bottoms, tops
    <3>4. QED
      BY <3>1, <3>2, <3>3
  <2>9. BinLine(f, n, i) = [ret |-> 0, blobs |-> nb, layers |-> nl]
    <3> DEFINE x == bl(i - 1)
               y == la(i - 1)
    <3>2. n = [ret |-> 0, blobs |-> x, layers |-> y]
      BY <2>2
    <3>3. nb = [b \in DOMAIN x |-> IF \E k \in DOMAIN tops : tops[k] = b
                                   THEN [x[b] EXCEPT !.producer = i] ELSE x[b]]
      OBVIOUS
    <3>4. nl = [y EXCEPT ![i] = LayerOf(line, bottoms, tops)]
      OBVIOUS
    <3>5. /\ n.blobs = x /\ n.layers = y
      <4> HIDE DEF n, x, y
      <4> QED
        BY <3>2
    <3> DEFINE new == LayerOf(line, bottoms, tops)
               nb1 == [b \in DOMAIN n.blobs |-> IF \E k \in DOMAIN tops : tops[k] = b
                                                THEN [n.blobs[b] EXCEPT !.producer = i]
                                                ELSE n.blobs[b]]
    <3>6. nb1 = nb
      <4> HIDE DEF n, x, y, tops
      <4> QED
        BY <3>3, <3>5
    <3>7. BinLine(f, n, i) = [n EXCEPT !.blobs = nb1, !.layers[i] = new]
      BY <2>4
    <3>8. [n EXCEPT !.blobs = nb1, !.layers[i] = new] = [ret |-> 0, blobs |-> nb1, layers |-> [y EXCEPT ![i] = new]]
      <4> HIDE DEF n, x, y, nb1, new
      <4> DEFINE m == [n EXCEPT !.blobs = nb1]
                 l == [y EXCEPT ![i] = new]
      <4>1. m = [ret |-> 0, blobs |-> nb1, layers |-> y]
        BY <3>2
      <4>2. [n EXCEPT !.blobs = nb1, !.layers[i] = new] = [m EXCEPT !.layers[i] = new]
        OBVIOUS
      <4> HIDE DEF m
      <4>3. m.layers = y
        BY <4>1
      <4>4. [m EXCEPT !.layers[i] = new] = [m EXCEPT !.layers = l]
        BY <4>3
      <4> HIDE DEF l
      <4>5. [m EXCEPT !.layers = l] = [ret |-> 0, blobs |-> nb1, layers |-> l]
        BY <4>1
      <4>6. QED
        BY <4>2, <4>4, <4>5 DEF l
    <3> HIDE DEF n, x, y, nb, nl, nb1, new
    <3>9. QED
      BY <3>4, <3>6, <3>7, <3>8 DEF new
  <2>10. QED
    <3> HIDE DEF nb, nl, bl, la
    <3> QED
      BY <2>3, <2>7, <2>8, <2>9
<1>6. QED
  BY <1>3, <1>4, <1>5

LEMMA BinLoads ==
  ASSUME NEW f, WellFormed(f)
  PROVE  LoadBin(f) = LoadedNet(f, "bin")
<1> DEFINE n == Len(f.lines)
           blobs == [b \in DOMAIN BlobIds(f) |-> [name |-> "", producer |-> 0]]
           layers == [i \in DOMAIN f.lines |-> LayerOf(f.lines[i], <<>>, <<>>)]
           sized == [NoNet(0) EXCEPT !.blobs = blobs, !.layers = layers]
           G(g) == [i \in 0 .. n |-> IF i = 0 THEN sized ELSE BinLine(f, g[i - 1], i)]
           W == [i \in 0 .. n |-> BinPart(f, i)]
           after == CHOOSE g : g = G(g)
<1>1. n \in Nat /\ 1 <= n /\ DOMAIN f.lines = 1 .. n
  BY LinesOf
<1>2. \A b \in DOMAIN BlobIds(f) : Maker(f, b) \in 1 .. n
  BY <1>1, Ids, Makers
<1>3. sized = BinPart(f, 0)
  <2>1. BinPart(f, 0) =
          [ret |-> 0,
           blobs |-> [b \in DOMAIN BlobIds(f) |->
                        [name |-> "", producer |-> IF Maker(f, b) <= 0 THEN Maker(f, b) ELSE 0]],
           layers |-> [j \in DOMAIN f.lines |-> IF j <= 0 THEN NetLayers(f)[j]
                                                ELSE LayerOf(f.lines[j], <<>>, <<>>)]]
    BY DEF BinPart
  <2>2. \A b \in DOMAIN BlobIds(f) : (IF Maker(f, b) <= 0 THEN Maker(f, b) ELSE 0) = 0
    BY <1>2
  <2>3. \A j \in DOMAIN f.lines : ~(j <= 0)
    BY <1>1
  <2> DEFINE x == [b \in DOMAIN BlobIds(f) |->
                        [name |-> "", producer |-> IF Maker(f, b) <= 0 THEN Maker(f, b) ELSE 0]]
             y == [j \in DOMAIN f.lines |-> IF j <= 0 THEN NetLayers(f)[j]
                                            ELSE LayerOf(f.lines[j], <<>>, <<>>)]
  <2>4. x = blobs
    BY <2>2
  <2>5. y = layers
    BY <2>3
  <2> HIDE DEF x, y, blobs, layers
  <2> DEFINE m == [NoNet(0) EXCEPT !.blobs = blobs]
  <2>6. m = [ret |-> 0, blobs |-> blobs, layers |-> <<>>] /\ sized = [m EXCEPT !.layers = layers]
    BY DEF NoNet
  <2> HIDE DEF m
  <2>7. [m EXCEPT !.layers = layers] = [ret |-> 0, blobs |-> blobs, layers |-> layers]
    BY <2>6
  <2>8. BinPart(f, 0) = [ret |-> 0, blobs |-> x, layers |-> y]
    BY <2>1 DEF x, y
  <2> HIDE DEF sized
  <2>9. QED
    BY <2>4, <2>5, <2>6, <2>7, <2>8
<1>4. LoadBin(f) = IF ~f.magic THEN NoNet(-1) ELSE after[n]
  BY DEF LoadBin
<1> HIDE DEF sized
<1>5. \A i \in 1 .. n : BinLine(f, BinPart(f, i - 1), i) = BinPart(f, i)
  BY <1>1, BinStep
<1>6. W = G(W)
  <2>1. ASSUME NEW i \in 0 .. n
        PROVE  BinPart(f, i) = IF i = 0 THEN sized ELSE BinLine(f, W[i - 1], i)
    <3>1. CASE i = 0
      BY <1>3, <3>1
    <3>2. CASE i # 0
      <4>1. i \in 1 .. n /\ i - 1 \in 0 .. n
        BY <1>1, <3>2
      <4>2. QED
        BY <1>5, <3>2, <4>1
    <3>3. QED
      BY <3>1, <3>2
  <2>2. QED
    BY <2>1
<1>7. after = G(after)
  <2> HIDE DEF G, W
  <2> QED
    BY <1>6
<1> HIDE DEF after
<1>8. after[n] = BinPart(f, n)
  <2> DEFINE T == {i \in 0 .. n : after[i] = BinPart(f, i)}
  <2>1. after[0] = sized /\ \A i \in 1 .. n : after[i] = BinLine(f, after[i - 1], i)
    BY <1>1, <1>7
  <2>2. 0 \in T
    BY <1>1, <1>3, <2>1
  <2>3. \A i \in 0 .. n : i < n /\ i \in T => i + 1 \in T
    <3>1. SUFFICES ASSUME NEW i \in 0 .. n, i < n, i \in T PROVE i + 1 \in T
      OBVIOUS
    <3>2. i + 1 \in 1 .. n /\ i + 1 \in 0 .. n /\ (i + 1) - 1 = i
      BY <1>1, <3>1
    <3>3. QED
      BY <1>5, <2>1, <3>1, <3>2
  <2>4. 0 .. n \subseteq T
    <3> HIDE DEF T, n
    <3> QED
      BY <1>1, <2>2, <2>3, StepInduction
  <2>5. QED
    BY <1>1, <2>4
<1>9. f.magic => BinPart(f, n) = LoadedNet(f, "bin")
  <2>1. SUFFICES ASSUME f.magic PROVE BinPart(f, n) = LoadedNet(f, "bin")
    OBVIOUS
  <2>2. Loadable(f) <=> \A j \in 1 .. n : CanCreate(LayerToIndex(f.lines[j].type))
    BY <1>1, <2>1 DEF Loadable
  <2> DEFINE x == [b \in DOMAIN BlobIds(f) |->
                        [name |-> "", producer |-> IF Maker(f, b) <= n THEN Maker(f, b) ELSE 0]]
             y == [j \in DOMAIN f.lines |-> IF j <= n THEN NetLayers(f)[j]
                                            ELSE LayerOf(f.lines[j], <<>>, <<>>)]
  <2>3. x = NetBlobs(f, "bin")
    <3>1. \A b \in DOMAIN BlobIds(f) : Maker(f, b) <= n
      BY <1>1, <1>2
    <3>2. QED
      BY <3>1 DEF NetBlobs
  <2>4. y = NetLayers(f)
    <3>1. \A j \in DOMAIN f.lines : j <= n
      BY <1>1
    <3>2. NetLayers(f) = [j \in DOMAIN f.lines |-> NetLayers(f)[j]]
      BY DEF NetLayers
    <3>3. y = [j \in DOMAIN f.lines |-> NetLayers(f)[j]]
      BY <3>1
    <3>4. QED
      BY <3>2, <3>3
  <2>5. BinPart(f, n) = IF Loadable(f) THEN [ret |-> 0, blobs |-> x, layers |-> y] ELSE NoNet(-1)
    BY <2>2 DEF BinPart
  <2> HIDE DEF x, y
  <2>6. QED
    BY <2>3, <2>4, <2>5 DEF LoadedNet
<1>10. ~f.magic => LoadedNet(f, "bin") = NoNet(-1)
  BY DEF LoadedNet, Loadable
<1>11. QED
  BY <1>4, <1>8, <1>9, <1>10

(* Prefixes of a sequence, grown by one element or by several.             *)
LEMMA GrownPrefix ==
  ASSUME NEW S, NEW n \in Nat, NEW X \in [1 .. n -> S], NEW p \in Nat, NEW q \in Nat,
         p + q <= n
  PROVE  /\ [b \in 1 .. p |-> X[b]] \in Seq(S) /\ Len([b \in 1 .. p |-> X[b]]) = p
         /\ [b \in 1 .. p |-> X[b]] \o [k \in 1 .. q |-> X[p + k]] = [b \in 1 .. p + q |-> X[b]]
         /\ q = 1 => Append([b \in 1 .. p |-> X[b]], X[p + 1]) = [b \in 1 .. p + 1 |-> X[b]]
<1> DEFINE s == [b \in 1 .. p |-> X[b]]
           t == [k \in 1 .. q |-> X[p + k]]
           u == [b \in 1 .. p + q |-> X[b]]
<1>1. s \in [1 .. p -> S] /\ t \in [1 .. q -> S] /\ u \in [1 .. p + q -> S] /\ p + q \in Nat
  <2>1. \A b \in 1 .. p : X[b] \in S
    OBVIOUS
  <2>2. \A k \in 1 .. q : X[p + k] \in S
    OBVIOUS
  <2>3. \A b \in 1 .. p + q : X[b] \in S
    OBVIOUS
  <2>4. QED
    BY <2>1, <2>2, <2>3
<1>2. /\ \A b \in 1 .. p : s[b] = X[b]
      /\ \A k \in 1 .. q : t[k] = X[p + k]
      /\ \A b \in 1 .. p + q : u[b] = X[b]
  OBVIOUS
<1>3. /\ s \in Seq(S) /\ Len(s) = p /\ t \in Seq(S) /\ Len(t) = q
      /\ u \in Seq(S) /\ Len(u) = p + q
  <2> HIDE DEF s, t, u
  <2>1. \A m \in Nat : \A w \in [1 .. m -> S] : w \in Seq(S) /\ Len(w) = m
    OBVIOUS
  <2>2. QED
    BY <1>1, <2>1
<1> HIDE DEF s, t, u
<1>4. s \o t = u
  <2>1. s \o t \in Seq(S) /\ Len(s \o t) = p + q
    BY <1>3, ConcatProperties
  <2>2. ASSUME NEW b \in 1 .. p + q PROVE (s \o t)[b] = u[b]
    <3>1. CASE b <= p
      <4>1. b \in 1 .. p
        BY <3>1
      <4>2. (s \o t)[b] = s[b]
        BY <1>3, <4>1
      <4>3. QED
        BY <1>2, <4>1, <4>2
    <3>2. CASE b > p
      <4>1. b - p \in 1 .. q /\ p + (b - p) = b
        BY <3>2
      <4>2. (s \o t)[b] = t[b - p]
        <5>1. (s \o t)[b] = IF b <= Len(s) THEN s[b] ELSE t[b - Len(s)]
          BY <1>3, ConcatProperties
        <5>2. ~(b <= p)
          BY <3>2
        <5>3. QED
          BY <1>3, <5>1, <5>2
      <4>3. t[b - p] = X[b]
        BY <1>2, <4>1
      <4>4. QED
        BY <1>2, <4>2, <4>3
    <3>3. b <= p \/ b > p
      OBVIOUS
    <3>4. QED
      BY <3>1, <3>2, <3>3
  <2> DEFINE v == s \o t
  <2> HIDE DEF v
  <2>3. QED
    BY <1>3, <2>1, <2>2, SeqEqual DEF v
<1>5. q = 1 => Append(s, X[p + 1]) = [b \in 1 .. p + 1 |-> X[b]]
  <2>1. SUFFICES ASSUME q = 1 PROVE Append(s, X[p + 1]) = [b \in 1 .. p + 1 |-> X[b]]
    OBVIOUS
  <2>2. X[p + 1] \in S
    BY <2>1
  <2> DEFINE v == Append(s, X[p + 1])
  <2>3. v \in Seq(S) /\ Len(v) = p + 1 /\ v[p + 1] = X[p + 1] /\ \A b \in 1 .. p : v[b] = s[b]
    BY <1>3, <2>2, AppendProperties
  <2>4. \A b \in 1 .. p + 1 : v[b] = u[b]
    <3>1. ASSUME NEW b \in 1 .. p + 1 PROVE v[b] = X[b]
      <4>1. b \in 1 .. p \/ b = p + 1
        OBVIOUS
      <4> HIDE DEF v
      <4>2. QED
        BY <1>2, <2>3, <4>1
    <3> HIDE DEF v
    <3>2. QED
      BY <1>2, <2>1, <3>1
  <2> HIDE DEF v
  <2>5. v = u
    BY <1>3, <2>1, <2>3, <2>4, SeqEqual
  <2>6. QED
    BY <2>1, <2>5 DEF u, v
<1>6. QED
  BY <1>3, <1>4, <1>5 DEF s, t, u

LEMMA NetTypes ==
  ASSUME NEW f, WellFormed(f)
  PROVE  /\ \E S : NetBlobs(f, "text") \in [1 .. Len(BlobIds(f)) -> S]
         /\ \E S : NetLayers(f) \in [1 .. Len(f.lines) -> S]
<1>1. DOMAIN BlobIds(f) = 1 .. Len(BlobIds(f)) /\ DOMAIN f.lines = 1 .. Len(f.lines)
  BY Ids, LinesOf
<1>2. DOMAIN NetBlobs(f, "text") = 1 .. Len(BlobIds(f)) /\ DOMAIN NetLayers(f) = 1 .. Len(f.lines)
  BY <1>1 DEF NetBlobs, NetLayers
<1>3. /\ NetBlobs(f, "text") = [b \in DOMAIN NetBlobs(f, "text") |-> NetBlobs(f, "text")[b]]
      /\ NetLayers(f) = [i \in DOMAIN NetLayers(f) |-> NetLayers(f)[i]]
  BY DEF NetBlobs, NetLayers
<1>4. \A g, D : g = [d \in D |-> g[d]] => g \in [D -> {g[d] : d \in D}]
  OBVIOUS
<1>5. QED
  BY <1>2, <1>3, <1>4

(* The name of one of the first m blobs is found, at its number.           *)
LEMMA FoundByName ==
  ASSUME NEW f, WellFormed(f), NEW m \in 0 .. Len(BlobIds(f)), NEW x
  PROVE  FindBlobIndexByName([b \in 1 .. m |-> NetBlobs(f, "text")[b]], x)
           = IF IdOf(f, x) \in 1 .. m THEN IdOf(f, x) ELSE 0
<1> DEFINE n == Len(BlobIds(f))
           blobs == [b \in 1 .. m |-> NetBlobs(f, "text")[b]]
           id == IdOf(f, x)
<1>1. n \in Nat /\ DOMAIN BlobIds(f) = 1 .. n
  BY Ids
<1>2. DOMAIN blobs = 1 .. m
  OBVIOUS
<1>3. ASSUME NEW b \in 1 .. m PROVE blobs[b].name = BlobIds(f)[b] /\ b \in 1 .. n
  <2>1. b \in 1 .. n
    BY <1>1
  <2>2. NetBlobs(f, "text")[b] = [name |-> BlobIds(f)[b], producer |-> Maker(f, b)]
    BY <1>1, <2>1 DEF NetBlobs
  <2>3. NetBlobs(f, "text")[b].name = BlobIds(f)[b]
    BY <2>2
  <2>4. blobs[b] = NetBlobs(f, "text")[b]
    OBVIOUS
  <2> HIDE DEF blobs, n
  <2>5. QED
    BY <2>1, <2>3, <2>4
<1>4. ASSUME NEW b \in 1 .. m PROVE blobs[b].name = x <=> b = id
  <2>1. blobs[b].name = BlobIds(f)[b] /\ b \in 1 .. n
    BY <1>3
  <2>2. IdOf(f, BlobIds(f)[b]) = b
    BY <2>1, Ids
  <2>3. b = id => BlobIds(f)[b] = x
    <3>1. ASSUME b = id PROVE BlobIds(f)[b] = x
      <4>1. id # 0
        BY <1>1, <3>1
      <4>2. x \in Names(f)
        BY <4>1, Ids
      <4>3. BlobIds(f)[IdOf(f, x)] = x
        BY <4>2, Ids
      <4>4. QED
        BY <3>1, <4>3
    <3>2. QED
      BY <3>1
  <2>4. QED
    BY <2>1, <2>2, <2>3
<1> HIDE DEF blobs, id
<1>5. CASE id \in 1 .. m
  <2>1. blobs[id].name = x /\ \A j \in 1 .. id - 1 : blobs[j].name # x
    BY <1>1, <1>4, <1>5
  <2>2. \A i \in DOMAIN blobs : blobs[i].name = x => i = id
    BY <1>2, <1>4
  <2>3. \E i \in DOMAIN blobs : blobs[i].name = x
    BY <1>2, <1>5, <2>1
  <2> DEFINE c == CHOOSE i \in DOMAIN blobs :
                    blobs[i].name = x /\ \A j \in 1 .. i - 1 : blobs[j].name # x
  <2>4. c \in DOMAIN blobs /\ blobs[c].name = x
    BY <1>2, <1>5, <2>1
  <2>5. FindBlobIndexByName(blobs, x) = c
    BY <2>3 DEF FindBlobIndexByName
  <2> HIDE DEF c
  <2>6. QED
    BY <1>5, <2>2, <2>4, <2>5 DEF blobs, id
<1>6. CASE id \notin 1 .. m
  <2>1. ~ \E i \in DOMAIN blobs : blobs[i].name = x
    BY <1>2, <1>4, <1>6
  <2>2. FindBlobIndexByName(blobs, x) = 0
    BY <2>1 DEF FindBlobIndexByName
  <2>3. QED
    BY <1>6, <2>2 DEF blobs, id
<1>7. QED
  BY <1>5, <1>6

(* A line that reads known blobs adds only the ones it makes.              *)
LEMMA GrownKnown ==
  ASSUME NEW blobs, NEW bottoms, NEW grown,
         bottoms = <<>> \/ \E x : bottoms = <<x>> /\ FindBlobIndexByName(blobs, x) # 0,
         grown = CHOOSE g : g = [k \in 0 .. Len(bottoms) |->
                                   IF k = 0 THEN blobs ELSE AddBottom(g[k - 1], bottoms[k])]
  PROVE  grown[Len(bottoms)] = blobs
<1> DEFINE n == Len(bottoms)
           G(g) == [k \in 0 .. n |-> IF k = 0 THEN blobs ELSE AddBottom(g[k - 1], bottoms[k])]
           W == [k \in 0 .. n |-> blobs]
<1>1. n = 0 \/ (n = 1 /\ FindBlobIndexByName(blobs, bottoms[1]) # 0)
  <2>1. CASE bottoms = <<>>
    BY <2>1
  <2>2. ASSUME NEW x, bottoms = <<x>>, FindBlobIndexByName(blobs, x) # 0
        PROVE  n = 1 /\ FindBlobIndexByName(blobs, bottoms[1]) # 0
    <3>1. Len(bottoms) = 1 /\ bottoms[1] = x
      BY <2>2
    <3>2. QED
      BY <2>2, <3>1
  <2>3. QED
    BY <2>1, <2>2
<1>2. \A k \in 1 .. n : AddBottom(blobs, bottoms[k]) = blobs
  BY <1>1 DEF AddBottom
<1>3. W = G(W)
  <2>1. ASSUME NEW k \in 0 .. n
        PROVE  blobs = IF k = 0 THEN blobs ELSE AddBottom(W[k - 1], bottoms[k])
    <3>1. CASE k = 0
      BY <3>1
    <3>2. CASE k # 0
      <4>1. k \in 1 .. n /\ k - 1 \in 0 .. n
        BY <1>1, <3>2
      <4>2. QED
        BY <1>2, <3>2, <4>1
    <3>3. QED
      BY <3>1, <3>2
  <2>2. QED
    BY <2>1
<1>4. grown = G(grown)
  <2>1. grown = CHOOSE g : g = G(g)
    OBVIOUS
  <2> HIDE DEF G, W
  <2>2. QED
    BY <1>3, <2>1
<1>5. grown[0] = blobs /\ (n = 1 => grown[1] = AddBottom(grown[0], bottoms[1]))
  <2>1. 0 \in 0 .. n /\ (n = 1 => 1 \in 0 .. n)
    BY <1>1
  <2>2. n = 1 => grown[1] = AddBottom(grown[1 - 1], bottoms[1])
    BY <1>4, <2>1
  <2>3. QED
    BY <1>4, <2>1, <2>2
<1>6. QED
  BY <1>1, <1>2, <1>5

(* The net after i lines of the text form.                                 *)
TextPart(f, ends, i) ==
  IF \A j \in 1 .. i : CanCreate(LayerToIndex(f.lines[j].type))
  THEN [ret |-> 0, blobs |-> [b \in 1 .. ends[i] |-> NetBlobs(f, "text")[b]],
        layers |-> [j \in 1 .. i |-> NetLayers(f)[j]]]
  ELSE NoNet(-1)

LEMMA TextStep ==
  ASSUME NEW f, WellFormed(f), NEW ends, Joined(TopsOf(f), BlobIds(f), ends),
         NEW i \in DOMAIN f.lines
  PROVE  TextLine(TextPart(f, ends, i - 1), f.lines[i]) = TextPart(f, ends, i)
<1> DEFINE line == f.lines[i]
           known(m) == \A j \in 1 .. m : CanCreate(LayerToIndex(f.lines[j].type))
           n == TextPart(f, ends, i - 1)
           B == NetBlobs(f, "text")
           L == NetLayers(f)
           p == ends[i - 1]
           q == Len(line.tops)
<1>1. i \in Nat /\ 1 <= i /\ DOMAIN f.lines = 1 .. Len(f.lines) /\ Len(f.lines) \in Nat
  BY LinesOf
<1>2. NoNet(-1).ret # 0
  BY DEF NoNet
<1>3. CASE ~known(i - 1)
  <2>1. ~known(i)
    BY <1>1, <1>3
  <2>2. n = NoNet(-1) /\ TextPart(f, ends, i) = NoNet(-1)
    BY <1>3, <2>1 DEF TextPart
  <2>3. TextLine(NoNet(-1), line) = NoNet(-1)
    BY <1>2 DEF TextLine
  <2>4. QED
    BY <2>2, <2>3
<1>4. CASE known(i - 1) /\ ~CanCreate(LayerToIndex(line.type))
  <2>1. ~known(i)
    BY <1>1, <1>4
  <2>2. TextPart(f, ends, i) = NoNet(-1)
    BY <2>1 DEF TextPart
  <2>3. n.ret = 0
    BY <1>4 DEF TextPart
  <2>4. TextLine(n, line) = NoNet(-1)
    <3> HIDE DEF n
    <3> QED
      BY <1>4, <2>3 DEF TextLine
  <2>5. QED
    BY <2>2, <2>4
<1>5. CASE known(i - 1) /\ CanCreate(LayerToIndex(line.type))
  <2>1. known(i)
    <3>1. \A j \in 1 .. i : j \in 1 .. i - 1 \/ j = i
      BY <1>1
    <3>2. QED
      BY <1>5, <3>1
  <2> DEFINE blobs == [b \in 1 .. p |-> B[b]]
             layers == [j \in 1 .. i - 1 |-> L[j]]
             grown == CHOOSE g : g = [k \in 0 .. Len(line.bottoms) |->
                        IF k = 0 THEN n.blobs ELSE AddBottom(g[k - 1], line.bottoms[k])]
             all == grown[Len(line.bottoms)]
             new == [k \in DOMAIN line.tops |->
                       [name |-> line.tops[k], producer |-> Len(n.layers) + 1]]
             bottoms == [k \in DOMAIN line.bottoms |-> FindBlobIndexByName(all, line.bottoms[k])]
             tops == [k \in DOMAIN line.tops |-> Len(all) + k]
  <2>2. n = [ret |-> 0, blobs |-> blobs, layers |-> layers]
    BY <1>5 DEF TextPart
  <2>3. TextPart(f, ends, i) = [ret |-> 0, blobs |-> [b \in 1 .. ends[i] |-> B[b]],
                                layers |-> [j \in 1 .. i |-> L[j]]]
    BY <2>1 DEF TextPart
  <2> HIDE DEF n, blobs, layers
  <2>4. n.ret = 0 /\ n.blobs = blobs /\ n.layers = layers
    BY <2>2
  <2>5. TextLine(n, line) = [n EXCEPT !.blobs = all \o new,
                                      !.layers = Append(@, LayerOf(line, bottoms, tops))]
    BY <1>5, <2>4 DEF TextLine
  <2>6. /\ ends \in [0 .. Len(f.lines) -> Nat] /\ ends[i] = p + q
        /\ ends[Len(f.lines)] = Len(BlobIds(f))
        /\ p \in 0 .. Len(BlobIds(f)) /\ q \in Nat /\ p + q <= Len(BlobIds(f))
        /\ DOMAIN line.tops = 1 .. q
    <3>1. /\ ends \in [0 .. Len(f.lines) -> Nat] /\ ends[i] = p + q
          /\ ends[Len(f.lines)] = Len(BlobIds(f))
          /\ \A a, b \in 0 .. Len(f.lines) : a <= b => ends[a] <= ends[b]
      BY NumberFacts
    <3>2. q \in Nat /\ DOMAIN line.tops = 1 .. q
      BY LinesOf
    <3>3. /\ i - 1 \in 0 .. Len(f.lines) /\ i \in 0 .. Len(f.lines)
          /\ Len(f.lines) \in 0 .. Len(f.lines) /\ i - 1 <= Len(f.lines) /\ i <= Len(f.lines)
      BY <1>1
    <3>4. p <= ends[Len(f.lines)] /\ ends[i] <= ends[Len(f.lines)] /\ p \in Nat /\ ends[i] \in Nat
      BY <3>1, <3>3
    <3> HIDE DEF p, q
    <3>5. QED
      BY <3>1, <3>2, <3>4
  <2>7. PICK S : B \in [1 .. Len(BlobIds(f)) -> S]
    BY NetTypes
  <2>8. PICK R : L \in [1 .. Len(f.lines) -> R]
    BY NetTypes
  <2>9. Len(BlobIds(f)) \in Nat /\ p \in Nat
    BY <2>6, Ids
  <2>10. Len(blobs) = p /\ blobs \o [k \in 1 .. q |-> B[p + k]] = [b \in 1 .. p + q |-> B[b]]
    <3> HIDE DEF B, p, q
    <3> QED
      BY <2>6, <2>7, <2>9, GrownPrefix DEF blobs
  <2>11. Len(layers) = i - 1 /\ Append(layers, L[i]) = [j \in 1 .. i |-> L[j]]
    <3> DEFINE m == i - 1
    <3>1. m \in Nat /\ 1 \in Nat /\ m + 1 <= Len(f.lines) /\ m + 1 = i
      BY <1>1
    <3> HIDE DEF L, m
    <3>2. /\ Len([j \in 1 .. m |-> L[j]]) = m
          /\ Append([j \in 1 .. m |-> L[j]], L[m + 1]) = [j \in 1 .. m + 1 |-> L[j]]
      BY <1>1, <2>8, <3>1, GrownPrefix
    <3>3. QED
      BY <3>1, <3>2 DEF layers, m
  <2>12. ASSUME NEW k \in DOMAIN line.bottoms
         PROVE  /\ FindBlobIndexByName(blobs, line.bottoms[k]) = IdOf(f, line.bottoms[k])
                /\ IdOf(f, line.bottoms[k]) # 0 /\ line.bottoms = <<line.bottoms[k]>>
    <3>1. i # 1
      <4>1. f.lines[1].bottoms = <<>>
        BY DEF WellFormed
      <4>2. QED
        BY <4>1
    <3>2. PICK x \in Names(f) : line.bottoms = <<x>> /\ Maker(f, IdOf(f, x)) < i
      BY <3>1, Reads
    <3>3. line.bottoms[k] = x
      BY <3>2
    <3> DEFINE id == IdOf(f, x)
               j == Maker(f, IdOf(f, x))
    <3>4. id \in 1 .. Len(BlobIds(f)) /\ BlobIds(f)[id] = x
      BY Ids
    <3>5. j \in DOMAIN f.lines /\ \E l \in DOMAIN f.lines[j].tops : f.lines[j].tops[l] = x
      BY <3>4, Makers
    <3>6. PICK l \in DOMAIN f.lines[j].tops : f.lines[j].tops[l] = x
      BY <3>5
    <3>7. id = ends[j - 1] + l /\ ends[j - 1] + l <= ends[j]
      BY <3>5, <3>6, IdNumber, NumberFacts
    <3>8. ends[j] <= p
      <4>1. j \in 0 .. Len(f.lines) /\ i - 1 \in 0 .. Len(f.lines) /\ j <= i - 1
        BY <1>1, <3>2, <3>5
      <4>2. \A a, b \in 0 .. Len(f.lines) : a <= b => ends[a] <= ends[b]
        BY NumberFacts
      <4>3. QED
        BY <4>1, <4>2
    <3>9. ends[j] \in Nat
      <4>1. j \in 0 .. Len(f.lines)
        BY <1>1, <3>5
      <4>2. QED
        BY <2>6, <4>1
    <3>10. id \in 1 .. p
      <4> HIDE DEF p, id, j
      <4>1. id \in Nat /\ 1 <= id
        BY <2>9, <3>4
      <4>2. QED
        BY <2>9, <3>7, <3>8, <3>9, <4>1
    <3>11. FindBlobIndexByName(blobs, x) = id
      <4>1. FindBlobIndexByName(blobs, x) = IF id \in 1 .. p THEN id ELSE 0
        BY <2>6, FoundByName DEF blobs
      <4>2. QED
        BY <3>10, <4>1
    <3>12. id # 0
      BY <3>4
    <3>13. QED
      BY <3>2, <3>3, <3>11, <3>12
  <2>13. all = blobs
    <3>1. line.bottoms = <<>> \/ \E x : line.bottoms = <<x>> /\ FindBlobIndexByName(blobs, x) # 0
      <4>1. CASE DOMAIN line.bottoms = {}
        <5>1. line.bottoms \in Seq(STRING)
          BY LinesOf
        <5>2. Len(line.bottoms) \in Nat /\ DOMAIN line.bottoms = 1 .. Len(line.bottoms)
          BY <5>1, LenProperties
        <5> DEFINE m == Len(line.bottoms)
        <5>3. m \in Nat /\ 1 .. m = {}
          BY <4>1, <5>2
        <5> HIDE DEF m
        <5>4. m = 0
          BY <5>3
        <5>5. line.bottoms = <<>>
          BY <5>1, <5>4, EmptySeq DEF m
        <5>6. QED
          BY <5>5
      <4>2. CASE DOMAIN line.bottoms # {}
        <5>1. PICK k \in DOMAIN line.bottoms : TRUE
          BY <4>2
        <5> DEFINE x == line.bottoms[k]
        <5>2. line.bottoms = <<x>>
          BY <2>12
        <5>3. FindBlobIndexByName(blobs, x) = IdOf(f, x) /\ IdOf(f, x) # 0
          BY <2>12
        <5> HIDE DEF x
        <5>4. QED
          BY <5>2, <5>3
      <4>3. QED
        BY <4>1, <4>2
    <3>2. grown = CHOOSE g : g = [k \in 0 .. Len(line.bottoms) |->
                        IF k = 0 THEN blobs ELSE AddBottom(g[k - 1], line.bottoms[k])]
      BY <2>4
    <3> HIDE DEF grown
    <3>3. QED
      BY <3>1, <3>2, GrownKnown
  <2>14. new = [k \in 1 .. q |-> B[p + k]]
    <3>1. Len(n.layers) + 1 = i
      BY <1>1, <2>4, <2>11
    <3>2. ASSUME NEW k \in 1 .. q
          PROVE  [name |-> line.tops[k], producer |-> i] = B[p + k]
      <4> k \in DOMAIN f.lines[i].tops
        BY <2>6
      <4>1. p + k \in 1 .. Len(BlobIds(f)) /\ BlobIds(f)[p + k] = line.tops[k]
        BY NumberFacts
      <4>2. Maker(f, p + k) = i
        BY IdNumber
      <4>3. DOMAIN BlobIds(f) = 1 .. Len(BlobIds(f))
        BY Ids
      <4>4. B[p + k] = [name |-> BlobIds(f)[p + k], producer |-> Maker(f, p + k)]
        BY <4>1, <4>3 DEF NetBlobs
      <4>5. QED
        BY <4>1, <4>2, <4>4
    <3>3. new = [k \in 1 .. q |-> [name |-> line.tops[k], producer |-> i]]
      BY <2>6, <3>1
    <3> HIDE DEF B, new, p, q
    <3>4. QED
      BY <3>2, <3>3
  <2>15. LayerOf(line, bottoms, tops) = L[i]
    <3>1. bottoms = [k \in DOMAIN line.bottoms |-> IdOf(f, line.bottoms[k])]
      BY <2>12, <2>13
    <3>2. tops = [k \in DOMAIN line.tops |-> IdOf(f, line.tops[k])]
      <4>1. \A k \in DOMAIN line.tops : IdOf(f, line.tops[k]) = p + k
        BY IdNumber
      <4>2. Len(all) = p
        BY <2>10, <2>13
      <4> HIDE DEF all
      <4>3. QED
        BY <4>1, <4>2
    <3>3. QED
      BY <3>1, <3>2 DEF NetLayers
  <2>16. all \o new = [b \in 1 .. ends[i] |-> B[b]]
    <3> HIDE DEF all, new, B, p, q
    <3> QED
      BY <2>6, <2>10, <2>13, <2>14
  <2> DEFINE x == all \o new
             l == LayerOf(line, bottoms, tops)
             y == Append(layers, l)
  <2>17. TextLine(n, line) = [ret |-> 0, blobs |-> x, layers |-> y]
    <3>1. TextLine(n, line) = [n EXCEPT !.blobs = x, !.layers = Append(@, l)]
      BY <2>5
    <3> HIDE DEF x, l
    <3> DEFINE m == [n EXCEPT !.blobs = x]
    <3>2. m = [ret |-> 0, blobs |-> x, layers |-> layers]
      BY <2>2
    <3>3. [n EXCEPT !.blobs = x, !.layers = Append(@, l)] = [m EXCEPT !.layers = Append(@, l)]
      OBVIOUS
    <3> HIDE DEF m
    <3>4. m.layers = layers
      BY <3>2
    <3>5. [m EXCEPT !.layers = Append(@, l)] = [m EXCEPT !.layers = y]
      BY <3>4
    <3> HIDE DEF y
    <3>6. [m EXCEPT !.layers = y] = [ret |-> 0, blobs |-> x, layers |-> y]
      BY <3>2
    <3>7. QED
      BY <3>1, <3>3, <3>5, <3>6
  <2>18. y = [j \in 1 .. i |-> L[j]]
    BY <2>11, <2>15
  <2>19. QED
    <3> DEFINE u == [b \in 1 .. ends[i] |-> B[b]]
               v == [j \in 1 .. i |-> L[j]]
    <3>1. x = u /\ y = v
      BY <2>16, <2>18
    <3>2. TextPart(f, ends, i) = [ret |-> 0, blobs |-> u, layers |-> v]
      BY <2>3
    <3> HIDE DEF x, y, u, v
    <3>3. TextLine(n, line) = TextPart(f, ends, i)
      BY <2>17, <3>1, <3>2
    <3>4. QED
      BY <3>3 DEF n
<1>6. QED
  BY <1>3, <1>4, <1>5

LEMMA TextLoads ==
  ASSUME NEW f, WellFormed(f)
  PROVE  LoadText(f) = LoadedNet(f, "text")
<1> DEFINE n == Len(f.lines)
           G(g) == [i \in 0 .. n |-> IF i = 0 THEN NoNet(0) ELSE TextLine(g[i - 1], f.lines[i])]
           after == CHOOSE g : g = G(g)
<1>1. n \in Nat /\ 1 <= n /\ DOMAIN f.lines = 1 .. n
  BY LinesOf
<1>2. PICK ends : Joined(TopsOf(f), BlobIds(f), ends)
  BY Numbering
<1>3. TextPart(f, ends, 0) = NoNet(0)
  <2>1. ends[0] = 0
    BY <1>2, NumberFacts
  <2>2. /\ [b \in 1 .. 0 |-> NetBlobs(f, "text")[b]] = <<>>
        /\ [j \in 1 .. 0 |-> NetLayers(f)[j]] = <<>>
    OBVIOUS
  <2>3. TextPart(f, ends, 0) = [ret |-> 0, blobs |-> <<>>, layers |-> <<>>]
    BY <2>1, <2>2 DEF TextPart
  <2>4. QED
    BY <2>3 DEF NoNet
<1>4. LoadText(f) = IF ~f.magic THEN NoNet(-1) ELSE after[n]
  BY DEF LoadText
<1>5. \A i \in 1 .. n : TextLine(TextPart(f, ends, i - 1), f.lines[i]) = TextPart(f, ends, i)
  BY <1>1, <1>2, TextStep
<1> DEFINE W == [i \in 0 .. n |-> TextPart(f, ends, i)]
<1>6. W = G(W)
  <2>1. ASSUME NEW i \in 0 .. n
        PROVE  TextPart(f, ends, i) = IF i = 0 THEN NoNet(0) ELSE TextLine(W[i - 1], f.lines[i])
    <3>1. CASE i = 0
      BY <1>3, <3>1
    <3>2. CASE i # 0
      <4>1. i \in 1 .. n /\ i - 1 \in 0 .. n
        BY <1>1, <3>2
      <4>2. QED
        BY <1>5, <3>2, <4>1
    <3>3. QED
      BY <3>1, <3>2
  <2>2. QED
    BY <2>1
<1>7. after = G(after)
  <2> HIDE DEF G, W
  <2> QED
    BY <1>6
<1> HIDE DEF after
<1>8. after[n] = TextPart(f, ends, n)
  <2> DEFINE T == {i \in 0 .. n : after[i] = TextPart(f, ends, i)}
  <2>1. after[0] = NoNet(0) /\ \A i \in 1 .. n : after[i] = TextLine(after[i - 1], f.lines[i])
    BY <1>1, <1>7
  <2>2. 0 \in T
    BY <1>1, <1>3, <2>1
  <2>3. \A i \in 0 .. n : i < n /\ i \in T => i + 1 \in T
    <3>1. SUFFICES ASSUME NEW i \in 0 .. n, i < n, i \in T PROVE i + 1 \in T
      OBVIOUS
    <3>2. i + 1 \in 1 .. n /\ i + 1 \in 0 .. n /\ (i + 1) - 1 = i
      BY <1>1, <3>1
    <3>3. QED
      BY <1>5, <2>1, <3>1, <3>2
  <2>4. 0 .. n \subseteq T
    <3> HIDE DEF T, n
    <3> QED
      BY <1>1, <2>2, <2>3, StepInduction
  <2>5. QED
    BY <1>1, <2>4
<1>9. f.magic => TextPart(f, ends, n) = LoadedNet(f, "text")
  <2>1. SUFFICES ASSUME f.magic PROVE TextPart(f, ends, n) = LoadedNet(f, "text")
    OBVIOUS
  <2>2. Loadable(f) <=> \A j \in 1 .. n : CanCreate(LayerToIndex(f.lines[j].type))
    BY <1>1, <2>1 DEF Loadable
  <2>3. ends[n] = Len(BlobIds(f)) /\ DOMAIN BlobIds(f) = 1 .. Len(BlobIds(f))
    BY <1>2, NumberFacts, Ids
  <2> DEFINE x == [b \in 1 .. ends[n] |-> NetBlobs(f, "text")[b]]
             y == [j \in 1 .. n |-> NetLayers(f)[j]]
  <2>4. x = NetBlobs(f, "text")
    BY <2>3 DEF NetBlobs
  <2>5. y = NetLayers(f)
    BY <1>1 DEF NetLayers
  <2>6. TextPart(f, ends, n) = IF Loadable(f) THEN [ret |-> 0, blobs |-> x, layers |-> y]
                               ELSE NoNet(-1)
    BY <2>2 DEF TextPart
  <2> HIDE DEF x, y
  <2>7. QED
    BY <2>4, <2>5, <2>6 DEF LoadedNet
<1>10. ~f.magic => LoadedNet(f, "text") = NoNet(-1)
  BY DEF LoadedNet, Loadable
<1>11. QED
  BY <1>4, <1>8, <1>9, <1>10

----------------------------------------------------------------------------
(* The layers once the weights are there.                                  *)

LayersOf(f, layers) ==
  /\ DOMAIN layers = DOMAIN f.lines
  /\ \A i \in DOMAIN f.lines :
       /\ layers[i].type = f.lines[i].type
       /\ layers[i].name = f.lines[i].name
       /\ layers[i].bottoms = [k \in DOMAIN f.lines[i].bottoms |-> IdOf(f, f.lines[i].bottoms[k])]
       /\ layers[i].tops = [k \in DOMAIN f.lines[i].tops |-> IdOf(f, f.lines[i].tops[k])]
       /\ layers[i].weights = WeightsFor(f, i)

LEMMA Weights ==
  ASSUME NEW f, WellFormed(f)
  PROVE  LayersOf(f, LoadWeights(NetLayers(f), f.weights).layers)
<1> DEFINE L == NetLayers(f)
           all == [i \in DOMAIN L |-> [L[i] EXCEPT !.weights = Share(L, f.weights, i)]]
<1>1. DOMAIN L = DOMAIN f.lines
  BY DEF NetLayers
<1>2. ASSUME NEW i \in DOMAIN f.lines
      PROVE  L[i] = [type |-> f.lines[i].type, name |-> f.lines[i].name,
                     bottoms |-> [k \in DOMAIN f.lines[i].bottoms |-> IdOf(f, f.lines[i].bottoms[k])],
                     tops |-> [k \in DOMAIN f.lines[i].tops |-> IdOf(f, f.lines[i].tops[k])],
                     weights |-> "none"]
  BY DEF NetLayers, LayerOf
<1>3. ASSUME NEW i \in DOMAIN f.lines
      PROVE  Turn(L, i) = Turn(f.lines, i)
  <2>1. \A j \in 1 .. i : j \in DOMAIN f.lines
    BY LinesOf
  <2>2. ASSUME NEW j \in 1 .. i PROVE L[j].type = f.lines[j].type
    <3> DEFINE line == f.lines[j]
               bottoms == [k \in DOMAIN line.bottoms |-> IdOf(f, line.bottoms[k])]
               tops == [k \in DOMAIN line.tops |-> IdOf(f, line.tops[k])]
               l == L[j]
    <3>1. l = [type |-> line.type, name |-> line.name, bottoms |-> bottoms, tops |-> tops,
               weights |-> "none"]
      BY <1>2, <2>1
    <3> HIDE DEF l, bottoms, tops
    <3>2. l.type = line.type
      BY <3>1
    <3>3. QED
      BY <3>2 DEF l
  <2> HIDE DEF L
  <2>3. {j \in 1 .. i : HasWeights(L[j].type)} = {j \in 1 .. i : HasWeights(f.lines[j].type)}
    BY <2>2
  <2>4. QED
    BY <2>3 DEF Turn
<1> HIDE DEF L
<1>4. LoadWeights(L, f.weights).layers = all
  BY DEF LoadWeights
<1>5. ASSUME NEW i \in DOMAIN f.lines
      PROVE  Share(L, f.weights, i) = WeightsFor(f, i)
  <2> DEFINE turn == Turn(f.lines, i)
             has == HasWeights(f.lines[i].type)
             n == Len(f.weights)
  <2>1. L[i].type = f.lines[i].type
    <3> DEFINE line == f.lines[i]
               bottoms == [k \in DOMAIN line.bottoms |-> IdOf(f, line.bottoms[k])]
               tops == [k \in DOMAIN line.tops |-> IdOf(f, line.tops[k])]
    <3>1. L[i] = [type |-> line.type, name |-> line.name, bottoms |-> bottoms, tops |-> tops,
                  weights |-> "none"]
      BY <1>2
    <3> HIDE DEF bottoms, tops, line
    <3>2. L[i].type = line.type
      BY <3>1
    <3>3. QED
      BY <3>2 DEF line
  <2>2. Turn(L, i) = turn
    BY <1>3
  <2>3. has /\ turn <= n => f.weights[turn] = f.lines[i].name
    BY DEF WellFormed
  <2>4. n \in Nat
    <3>1. f.weights \in Seq(STRING)
      BY DEF WellFormed
    <3>2. QED
      BY <3>1, LenProperties
  <2>5. turn \in Nat
    <3>1. \A j \in 1 .. i : HasWeights(f.lines[j].type) \in BOOLEAN
      BY DEF HasWeights
    <3>2. IsFiniteSet({j \in 1 .. i : HasWeights(f.lines[j].type)})
      <4>1. i \in Nat /\ IsFiniteSet(1 .. i)
        <5>1. i \in Nat
          <6>1. Len(f.lines) \in Nat /\ DOMAIN f.lines = 1 .. Len(f.lines)
            BY LinesOf
          <6>2. QED
            BY <6>1
        <5>2. QED
          BY <5>1, FS_Interval
      <4>2. {j \in 1 .. i : HasWeights(f.lines[j].type)} \subseteq 1 .. i
        OBVIOUS
      <4>3. QED
        BY <4>1, <4>2, FS_Subset
    <3>3. QED
      BY <3>2, FS_CardinalityType DEF Turn
  <2>6. Share(L, f.weights, i) =
          IF has /\ turn <= n THEN f.weights[turn]
          ELSE IF has /\ turn = n + 1 THEN "partial" ELSE "none"
    <3> HIDE DEF turn, has, n
    <3>1. Share(L, f.weights, i) =
            CASE has /\ turn <= n -> f.weights[turn]
              [] has /\ turn = n + 1 -> "partial"
              [] OTHER -> "none"
      BY <2>1, <2>2 DEF Share, has, n
    <3>2. QED
      BY <2>4, <2>5, <3>1
  <2>7. WeightsFor(f, i) = IF ~has \/ turn > n + 1 THEN "none"
                           ELSE IF turn = n + 1 THEN "partial" ELSE f.lines[i].name
    BY DEF WeightsFor
  <2> DEFINE name == f.lines[i].name
             own == f.weights[turn]
  <2>8. has /\ turn <= n => own = name
    BY <2>3
  <2>9. /\ Share(L, f.weights, i) = IF has /\ turn <= n THEN own
                                    ELSE IF has /\ turn = n + 1 THEN "partial" ELSE "none"
        /\ WeightsFor(f, i) = IF ~has \/ turn > n + 1 THEN "none"
                              ELSE IF turn = n + 1 THEN "partial" ELSE name
    BY <2>6, <2>7
  <2> HIDE DEF turn, has, n, name, own
  <2>10. QED
    BY <2>4, <2>5, <2>8, <2>9
<1>6. ASSUME NEW i \in DOMAIN f.lines
      PROVE  /\ all[i].type = f.lines[i].type
             /\ all[i].name = f.lines[i].name
             /\ all[i].bottoms = [k \in DOMAIN f.lines[i].bottoms |-> IdOf(f, f.lines[i].bottoms[k])]
             /\ all[i].tops = [k \in DOMAIN f.lines[i].tops |-> IdOf(f, f.lines[i].tops[k])]
             /\ all[i].weights = WeightsFor(f, i)
  <2> DEFINE line == f.lines[i]
             bottoms == [k \in DOMAIN line.bottoms |-> IdOf(f, line.bottoms[k])]
             tops == [k \in DOMAIN line.tops |-> IdOf(f, line.tops[k])]
             l == L[i]
             w == WeightsFor(f, i)
  <2>1. l = [type |-> line.type, name |-> line.name, bottoms |-> bottoms, tops |-> tops,
             weights |-> "none"]
    BY <1>2
  <2>2. all[i] = [l EXCEPT !.weights = w]
    BY <1>1, <1>5
  <2> HIDE DEF all, l, bottoms, tops, line, w
  <2>3. /\ all[i].type = line.type /\ all[i].name = line.name
        /\ all[i].bottoms = bottoms /\ all[i].tops = tops
        /\ all[i].weights = w
    BY <2>1, <2>2
  <2>4. QED
    BY <2>3 DEF bottoms, tops, line, w
<1>7. DOMAIN all = DOMAIN f.lines
  BY <1>1
<1> HIDE DEF all
<1>8. LayersOf(f, all)
  BY <1>6, <1>7 DEF LayersOf
<1>9. QED
  BY <1>4, <1>8 DEF L

----------------------------------------------------------------------------
(* What the file says a blob is.                                           *)

Labels == STRING \cup {"none", "partial"}

Values == Seq(Labels \X Labels)

LEMMA LineIs ==
  ASSUME WellFormed(file), NEW i \in DOMAIN file.lines, NEW k \in DOMAIN file.lines[i].tops
  PROVE  LineNumber(file.lines[i].tops[k]) = i
<1> DEFINE name == file.lines[i].tops[k]
           lines == file.lines
<1>1. \A x, y \in DOMAIN lines : \A u \in DOMAIN lines[x].tops, v \in DOMAIN lines[y].tops :
        lines[x].tops[u] = lines[y].tops[v] => x = y /\ u = v
  BY DEF WellFormed
<1>2. i \in DOMAIN lines /\ k \in DOMAIN lines[i].tops /\ lines[i].tops[k] = name
  OBVIOUS
<1> HIDE DEF lines, name
<1>3. \A x \in DOMAIN lines : (\E u \in DOMAIN lines[x].tops : lines[x].tops[u] = name) => x = i
  BY <1>1, <1>2
<1>4. LineNumber(name) = CHOOSE x \in DOMAIN lines :
                           \E u \in DOMAIN lines[x].tops : lines[x].tops[u] = name
  BY DEF LineNumber, lines
<1>5. LineNumber(name) = i
  BY <1>2, <1>3, <1>4
<1>6. QED
  BY <1>5 DEF name

(* The line that makes a blob, and the blob it reads.                      *)
LEMMA MadeBy ==
  ASSUME WellFormed(file), NEW name \in Names(file), name # "data"
  PROVE  /\ Maker(file, IdOf(file, name)) \in DOMAIN file.lines \ {1}
         /\ LineNumber(name) = Maker(file, IdOf(file, name))
         /\ LineOf(name) = file.lines[Maker(file, IdOf(file, name))]
         /\ LineOf(name).type # "Input"
         /\ LineOf(name).type \in STRING /\ LineOf(name).name \in STRING
         /\ LineOf(name).bottoms[1] \in Names(file)
         /\ LineOf(name).bottoms = <<LineOf(name).bottoms[1]>>
         /\ IdOf(file, LineOf(name).bottoms[1]) < IdOf(file, name)
<1> DEFINE id == IdOf(file, name)
           i == Maker(file, id)
<1>1. id \in 1 .. Len(BlobIds(file)) /\ BlobIds(file)[id] = name
  BY Ids
<1>2. i \in DOMAIN file.lines /\ \E k \in DOMAIN file.lines[i].tops : file.lines[i].tops[k] = name
  BY <1>1, Makers
<1>3. PICK k \in DOMAIN file.lines[i].tops : file.lines[i].tops[k] = name
  BY <1>2
<1>4. LineNumber(name) = i /\ LineOf(name) = file.lines[i]
  BY <1>2, <1>3, LineIs DEF LineOf
<1>5. i # 1
  <2>1. i = 1 => id = 1
    BY <1>1, Makers
  <2>2. BlobIds(file)[1] = "data"
    BY Makers
  <2>3. QED
    BY <1>1, <2>1, <2>2
<1>6. file.lines[i].type # "Input"
  BY <1>2, <1>5 DEF WellFormed
<1>7. file.lines[i].type \in STRING /\ file.lines[i].name \in STRING
  BY <1>2, LinesOf
<1>8. PICK x \in Names(file) :
        /\ file.lines[i].bottoms = <<x>>
        /\ \A l \in DOMAIN file.lines[i].tops : IdOf(file, x) < IdOf(file, file.lines[i].tops[l])
  BY <1>2, <1>5, Reads
<1>9. file.lines[i].bottoms[1] = x /\ IdOf(file, x) < id
  BY <1>3, <1>8
<1>10. QED
  <2> HIDE DEF i, id
  <2> QED
    BY <1>2, <1>4, <1>5, <1>6, <1>7, <1>8, <1>9 DEF id, i

LEMMA MeaningEquation ==
  ASSUME WellFormed(file)
  PROVE  /\ Meaning \in [Names(file) -> Values]
         /\ Meaning["data"] = <<>>
         /\ \A name \in Names(file) \ {"data"} :
              Meaning[name] =
                IF LineOf(name).type = "Split" THEN Meaning[LineOf(name).bottoms[1]]
                ELSE Append(Meaning[LineOf(name).bottoms[1]],
                            <<LineOf(name).name, WeightsFor(file, LineNumber(name))>>)
<1> DEFINE I == Names(file)
           label(name) == <<LineOf(name).name, WeightsFor(file, LineNumber(name))>>
           before(name) == LineOf(name).bottoms[1]
           G(g) == [name \in I |->
                      IF name = "data" THEN <<>>
                      ELSE IF LineOf(name).type = "Split" THEN g[before(name)]
                      ELSE Append(g[before(name)], label(name))]
           F == [g \in [I -> Values] |-> G(g)]
           rank == [name \in I |-> IdOf(file, name)]
<1>1. \A name \in I \ {"data"} :
        before(name) \in I /\ IdOf(file, before(name)) < IdOf(file, name)
  BY MadeBy
<1>2. ASSUME NEW name \in I \ {"data"} PROVE label(name) \in Labels \X Labels
  <2>1. LineOf(name).name \in Labels
    BY MadeBy DEF Labels
  <2>2. "none" \in Labels /\ "partial" \in Labels
    BY DEF Labels
  <2> DEFINE w == WeightsFor(file, LineNumber(name))
  <2>3. w \in Labels
    BY <2>1, <2>2 DEF WeightsFor, LineOf
  <2> HIDE DEF w
  <2>4. <<LineOf(name).name, w>> \in Labels \X Labels
    BY <2>1, <2>3
  <2>5. QED
    BY <2>4 DEF w
<1>3. \A name \in I : rank[name] \in Nat
  BY Ids
<1> HIDE DEF before, label, I
<1>4. <<>> \in Values
  BY DEF Values
<1>5. ASSUME NEW g \in [I -> Values] PROVE G(g) \in [I -> Values]
  <2>1. ASSUME NEW name \in I \ {"data"}
        PROVE  g[before(name)] \in Values /\ Append(g[before(name)], label(name)) \in Values
    <3>1. g[before(name)] \in Values
      BY <1>1
    <3>2. label(name) \in Labels \X Labels
      BY <1>2
    <3>3. \A s \in Seq(Labels \X Labels) : \A e \in Labels \X Labels : Append(s, e) \in Seq(Labels \X Labels)
      BY AppendProperties
    <3>4. QED
      BY <3>1, <3>2, <3>3 DEF Values
  <2>2. QED
    BY <1>4, <2>1
<1>6. Recursion(I, Values, rank, F)
  <2>1. F \in [[I -> Values] -> [I -> Values]]
    BY <1>5
  <2>2. rank \in [I -> Nat]
    BY <1>3
  <2>3. ASSUME NEW g \in [I -> Values], NEW h \in [I -> Values], NEW name \in I,
               \A x \in I : rank[x] < rank[name] => g[x] = h[x]
        PROVE  F[g][name] = F[h][name]
    <3>1. name # "data" => g[before(name)] = h[before(name)]
      BY <1>1, <2>3
    <3>2. QED
      BY <3>1
  <2>4. QED
    <3> HIDE DEF F, rank
    <3> QED
      BY <1>4, <2>1, <2>2, <2>3 DEF Recursion
<1>7. \E f \in [I -> Values] : f = F[f]
  <2> HIDE DEF F, rank
  <2> QED
    BY <1>6, FixedPoint
<1>8. PICK f \in [I -> Values] : f = G(f)
  BY <1>7
<1>9. Meaning = CHOOSE g : g = G(g)
  BY DEF Meaning, label, before, I
<1>10. Meaning = G(Meaning)
  <2> HIDE DEF G
  <2> QED
    BY <1>8, <1>9
<1> DEFINE T == {n \in Nat : \A name \in I : rank[name] = n => Meaning[name] = f[name]}
<1>11. ASSUME NEW n \in Nat, \A m \in Nat : m < n => m \in T PROVE n \in T
  <2>1. SUFFICES ASSUME NEW name \in I, rank[name] = n PROVE Meaning[name] = f[name]
    OBVIOUS
  <2>2. name # "data" => Meaning[before(name)] = f[before(name)]
    <3>1. SUFFICES ASSUME name # "data" PROVE Meaning[before(name)] = f[before(name)]
      OBVIOUS
    <3>2. before(name) \in I /\ rank[before(name)] < n /\ rank[before(name)] \in Nat
      BY <1>1, <1>3, <2>1, <3>1
    <3>3. rank[before(name)] \in T
      BY <1>11, <3>2
    <3>4. QED
      BY <3>2, <3>3
  <2>3. Meaning[name] = G(Meaning)[name] /\ f[name] = G(f)[name]
    <3> HIDE DEF G
    <3> QED
      BY <1>8, <1>10
  <2>4. G(Meaning)[name] = G(f)[name]
    BY <2>2
  <2>5. QED
    <3> HIDE DEF G
    <3> QED
      BY <2>3, <2>4
<1>12. Nat \subseteq T
  <2> HIDE DEF T
  <2> QED
    BY <1>11, Induction
<1>13. Meaning \in [I -> Values]
  <2>1. DOMAIN Meaning = I /\ Meaning = [name \in I |-> Meaning[name]]
    BY <1>10
  <2>2. \A name \in I : Meaning[name] = f[name]
    BY <1>3, <1>12
  <2>3. \A name \in I : f[name] \in Values
    BY <1>8
  <2> HIDE DEF G, T
  <2>4. QED
    BY <2>1, <2>2, <2>3
<1>14. "data" \in I
  BY Makers DEF I
<1>15. /\ Meaning["data"] = <<>>
       /\ \A name \in I \ {"data"} :
            Meaning[name] = IF LineOf(name).type = "Split" THEN Meaning[before(name)]
                            ELSE Append(Meaning[before(name)], label(name))
  BY <1>10, <1>14
<1>16. QED
  <2> HIDE DEF G, T
  <2> QED
    BY <1>13, <1>15 DEF I, before, label

----------------------------------------------------------------------------
(* Buffers: who holds one, and that a free one is left.                    *)

Slots == 1 .. Len(BlobIds(file))

FeatsType == DOMAIN feats \subseteq Names(file) /\ feats \in [DOMAIN feats -> 0 .. MaxBuf]

LEMMA ImageBound ==
  ASSUME NEW S, IsFiniteSet(S), NEW g, DOMAIN g = S
  PROVE  IsFiniteSet({g[x] : x \in S}) /\ Cardinality({g[x] : x \in S}) <= Cardinality(S)
<1> DEFINE T == {g[x] : x \in S}
           h == [x \in S |-> g[x]]
<1>1. h \in Surjection(S, T)
  BY DEF Surjection
<1>2. QED
  <2> HIDE DEF h
  <2> QED
    BY <1>1, FS_Surjection

LEMMA NamesFinite ==
  ASSUME WellFormed(file)
  PROVE  IsFiniteSet(Names(file)) /\ Cardinality(Names(file)) <= Len(BlobIds(file))
<1> DEFINE n == Len(BlobIds(file))
<1>1. n \in Nat /\ 1 <= n /\ DOMAIN BlobIds(file) = 1 .. n
  BY Ids
<1>2. IsFiniteSet(1 .. n) /\ Cardinality(1 .. n) = n
  BY <1>1, FS_Interval
<1>3. Names(file) = {BlobIds(file)[i] : i \in 1 .. n}
  BY <1>1 DEF Names
<1>4. QED
  BY <1>1, <1>2, <1>3, ImageBound

LEMMA NoHolder ==
  ASSUME WellFormed(file), NEW mats, DOMAIN mats = Slots, FeatsType, NEW k
  PROVE  /\ Holders(mats, k) \in Nat
         /\ Holders(mats, k) = 0 <=> /\ \A b \in Slots : mats[b] # k
                                     /\ \A name \in DOMAIN feats : feats[name] # k
<1> DEFINE P == {b \in DOMAIN mats : mats[b] = k}
           Q == {name \in DOMAIN feats : feats[name] = k}
<1>1. IsFiniteSet(P) /\ Cardinality(P) \in Nat
  <2>1. Len(BlobIds(file)) \in Nat
    BY Ids
  <2>2. IsFiniteSet(Slots)
    BY <2>1, FS_Interval DEF Slots
  <2>3. P \in SUBSET Slots
    OBVIOUS
  <2>4. QED
    BY <2>2, <2>3, FS_Subset, FS_CardinalityType
<1>2. IsFiniteSet(Q) /\ Cardinality(Q) \in Nat
  <2>1. Q \in SUBSET Names(file)
    BY DEF FeatsType
  <2>2. QED
    BY <2>1, NamesFinite, FS_Subset, FS_CardinalityType
<1>3. Holders(mats, k) = Cardinality(P) + Cardinality(Q)
  BY DEF Holders
<1>4. (Cardinality(P) = 0 <=> P = {}) /\ (Cardinality(Q) = 0 <=> Q = {})
  BY <1>1, <1>2, FS_EmptySet
<1>5. /\ P = {} <=> \A b \in Slots : mats[b] # k
      /\ Q = {} <=> \A name \in DOMAIN feats : feats[name] # k
  OBVIOUS
<1> HIDE DEF P, Q
<1>6. Holders(mats, k) \in Nat /\ (Holders(mats, k) = 0 <=> Cardinality(P) = 0 /\ Cardinality(Q) = 0)
  BY <1>1, <1>2, <1>3
<1>7. QED
  BY <1>4, <1>5, <1>6

LEMMA FreshBufIsFree ==
  ASSUME file \in Files, NEW mats, DOMAIN mats = Slots, FeatsType, NEW held
  PROVE  /\ FreshBuf(mats, held) \in 1 .. MaxBuf /\ FreshBuf(mats, held) # held
         /\ \A b \in Slots : mats[b] # FreshBuf(mats, held)
         /\ \A name \in DOMAIN feats : feats[name] # FreshBuf(mats, held)
<1> DEFINE n == Len(BlobIds(file))
           P == {mats[b] : b \in Slots}
           Q == {feats[name] : name \in DOMAIN feats}
           Used == (P \cup Q) \cup {held}
           free(k) == Holders(mats, k) = 0 /\ k # held
<1>1. WellFormed(file) /\ MaxBuf \in Nat /\ MaxBuf > 2 * n + 1 /\ n \in Nat
  BY FileAssumption, MaxBufAssumption, Ids
<1>2. IsFiniteSet(P) /\ Cardinality(P) <= n /\ Cardinality(P) \in Nat
  <2>1. IsFiniteSet(Slots) /\ Cardinality(Slots) = n
    <3>1. Slots = 1 .. n
      BY DEF Slots
    <3> HIDE DEF n
    <3>2. IsFiniteSet(1 .. n) /\ Cardinality(1 .. n) = IF 1 > n THEN 0 ELSE n - 1 + 1
      BY <1>1, FS_Interval
    <3>3. QED
      BY <1>1, <3>1, <3>2
  <2>2. IsFiniteSet(P) /\ Cardinality(P) <= Cardinality(Slots)
    BY <2>1, ImageBound
  <2>3. QED
    BY <2>1, <2>2, FS_CardinalityType
<1>3. IsFiniteSet(Q) /\ Cardinality(Q) <= n /\ Cardinality(Q) \in Nat
  <2>1. DOMAIN feats \in SUBSET Names(file)
    BY DEF FeatsType
  <2>2. /\ IsFiniteSet(DOMAIN feats) /\ Cardinality(DOMAIN feats) <= Cardinality(Names(file))
        /\ Cardinality(Names(file)) <= n /\ Cardinality(Names(file)) \in Nat
        /\ Cardinality(DOMAIN feats) \in Nat
    BY <1>1, <2>1, NamesFinite, FS_Subset, FS_CardinalityType
  <2>3. IsFiniteSet(Q) /\ Cardinality(Q) <= Cardinality(DOMAIN feats)
    BY <2>2, ImageBound
  <2>4. Cardinality(Q) \in Nat
    BY <2>3, FS_CardinalityType
  <2> HIDE DEF Q, n
  <2>5. QED
    BY <1>1, <2>2, <2>3, <2>4
<1> HIDE DEF P, Q, n
<1>4. IsFiniteSet(Used) /\ Cardinality(Used) <= 2 * n + 1 /\ Cardinality(Used) \in Nat
  <2> DEFINE R == P \cup Q
  <2>1. /\ IsFiniteSet(R) /\ Cardinality(R) = Cardinality(P) + Cardinality(Q) - Cardinality(P \cap Q)
        /\ IsFiniteSet(P \cap Q)
    BY <1>2, <1>3, FS_Union, FS_Intersection
  <2>2. Cardinality(P \cap Q) \in Nat /\ Cardinality(R) \in Nat
    BY <2>1, FS_CardinalityType
  <2>3. Cardinality(R) <= 2 * n
    BY <1>1, <1>2, <1>3, <2>1, <2>2
  <2> HIDE DEF R
  <2>4. /\ IsFiniteSet(R \cup {held})
        /\ Cardinality(R \cup {held}) = IF held \in R THEN Cardinality(R) ELSE Cardinality(R) + 1
    BY <2>1, FS_AddElement
  <2>5. Cardinality(R \cup {held}) <= 2 * n + 1 /\ Cardinality(R \cup {held}) \in Nat
    BY <1>1, <2>2, <2>3, <2>4
  <2>6. QED
    BY <2>4, <2>5 DEF R
<1>5. \E k \in 1 .. MaxBuf : k \notin Used
  <2>1. SUFFICES ASSUME 1 .. MaxBuf \subseteq Used PROVE FALSE
    OBVIOUS
  <2>2. Cardinality(1 .. MaxBuf) = MaxBuf
    BY <1>1, FS_Interval
  <2>3. Cardinality(1 .. MaxBuf) <= Cardinality(Used)
    <3> HIDE DEF Used
    <3> QED
      BY <1>4, <2>1, FS_Subset
  <2>4. QED
    <3> HIDE DEF Used
    <3> QED
      BY <1>1, <1>4, <2>2, <2>3
<1>6. \A k : k \notin Used => free(k)
  BY <1>1, NoHolder DEF P, Q
<1> HIDE DEF Used
<1> DEFINE T == {k \in 1 .. MaxBuf : free(k)}
<1>7. T \in SUBSET Nat /\ T # {}
  BY <1>5, <1>6
<1>8. PICK k \in T : \A j \in T : k <= j
  <2> HIDE DEF T
  <2> QED
    BY <1>7, Least
<1>9. \A j \in 1 .. k - 1 : ~free(j)
  BY <1>1, <1>8
<1>10. k \in 1 .. MaxBuf /\ Holders(mats, k) = 0 /\ k # held
       /\ \A j \in 1 .. k - 1 : Holders(mats, j) # 0 \/ j = held
  BY <1>8, <1>9
<1> DEFINE m == FreshBuf(mats, held)
<1>11. m \in 1 .. MaxBuf /\ Holders(mats, m) = 0 /\ m # held
  BY <1>10 DEF FreshBuf
<1> HIDE DEF m
<1>12. QED
  BY <1>1, <1>11, NoHolder DEF m

----------------------------------------------------------------------------
(* The layer that makes a blob.                                            *)

(* The blob that the maker of blob b reads.                                *)
Below(b) == IdOf(file, file.lines[Maker(file, b)].bottoms[1])

Meant(b) == Meaning[BlobIds(file)[b]]

LEMMA BelowFacts ==
  ASSUME WellFormed(file), NEW c \in Slots \ {1}
  PROVE  /\ Below(c) \in Slots /\ Below(c) < c
         /\ Maker(file, c) \in DOMAIN file.lines \ {1}
         /\ file.lines[Maker(file, c)].bottoms = <<BlobIds(file)[Below(c)]>>
         /\ LineNumber(BlobIds(file)[c]) = Maker(file, c)
         /\ LineOf(BlobIds(file)[c]) = file.lines[Maker(file, c)]
         /\ Consumed(BlobIds(file)[Below(c)])
<1> DEFINE name == BlobIds(file)[c]
<1>1. name \in Names(file) /\ IdOf(file, name) = c
  BY Ids DEF Slots
<1>2. name # "data"
  BY <1>1, Makers
<1> HIDE DEF name
<1>3. /\ Maker(file, c) \in DOMAIN file.lines \ {1}
      /\ LineNumber(name) = Maker(file, c)
      /\ LineOf(name) = file.lines[Maker(file, c)]
      /\ LineOf(name).bottoms[1] \in Names(file)
      /\ LineOf(name).bottoms = <<LineOf(name).bottoms[1]>>
      /\ IdOf(file, LineOf(name).bottoms[1]) < c
  BY <1>1, <1>2, MadeBy
<1> DEFINE line == file.lines[Maker(file, c)]
           x == line.bottoms[1]
<1>4. x \in Names(file) /\ line.bottoms = <<x>> /\ IdOf(file, x) < c
  BY <1>3
<1>5. Below(c) = IdOf(file, x)
  BY DEF Below
<1>6. Below(c) \in Slots /\ BlobIds(file)[Below(c)] = x
  BY <1>4, <1>5, Ids DEF Slots
<1>7. Consumed(x)
  <2>1. Maker(file, c) \in DOMAIN file.lines
    BY <1>3
  <2>2. 1 \in DOMAIN line.bottoms
    <3> HIDE DEF x
    <3> QED
      BY <1>4
  <2>3. QED
    BY <2>1, <2>2 DEF Consumed
<1>8. QED
  <2> HIDE DEF x
  <2> QED
    BY <1>3, <1>4, <1>5, <1>6, <1>7 DEF name

(* What two blobs have been made of is the same only if one layer made them. *)
LEMMA OneReader ==
  ASSUME WellFormed(file), NEW b \in Slots \ {1}, NEW c \in Slots \ {1}
  PROVE  Below(b) = Below(c) <=> Maker(file, b) = Maker(file, c)
<1>1. /\ Maker(file, b) \in DOMAIN file.lines \ {1}
      /\ file.lines[Maker(file, b)].bottoms = <<BlobIds(file)[Below(b)]>>
  BY BelowFacts
<1>2. /\ Maker(file, c) \in DOMAIN file.lines \ {1}
      /\ file.lines[Maker(file, c)].bottoms = <<BlobIds(file)[Below(c)]>>
  BY BelowFacts
<1>3. \A i, j \in DOMAIN file.lines \ {1} : file.lines[i].bottoms = file.lines[j].bottoms => i = j
  BY DEF WellFormed
<1>4. Maker(file, b) = Maker(file, c) => Below(b) = Below(c)
  BY DEF Below
<1>5. ASSUME Below(b) = Below(c) PROVE Maker(file, b) = Maker(file, c)
  <2>1. file.lines[Maker(file, b)].bottoms = file.lines[Maker(file, c)].bottoms
    BY <1>1, <1>2, <1>5
  <2>2. QED
    BY <1>1, <1>2, <1>3, <2>1
<1>6. QED
  BY <1>4, <1>5

(* The layer makes c and what else its line names out of the blob below c.  *)
Makes(layer, c) ==
  /\ layer.bottoms # <<>> /\ layer.bottoms[1] = Below(c)
  /\ {layer.tops[i] : i \in DOMAIN layer.tops}
       = {b \in Slots : Maker(file, b) = Maker(file, c)}
  /\ \A b \in Slots : Maker(file, b) = Maker(file, c) =>
       b # 1 /\ Below(b) = Below(c) /\ Meant(b) = Apply(layer, Meant(Below(c)))
  /\ \A v \in Values : Apply(layer, v) \in Values
  /\ layer.type = "Split" => \A v : Apply(layer, v) = v

LEMMA LayerFacts ==
  ASSUME WellFormed(file), LayersOf(file, net.layers), NEW c \in Slots \ {1},
         NEW layer, layer = net.layers[Maker(file, c)]
  PROVE  Makes(layer, c)
<1> DEFINE p == Maker(file, c)
           line == file.lines[p]
<1>1. p \in DOMAIN file.lines \ {1} /\ line.bottoms = <<BlobIds(file)[Below(c)]>>
  BY BelowFacts
<1>2. /\ layer.type = line.type /\ layer.name = line.name
      /\ layer.bottoms = [k \in DOMAIN line.bottoms |-> IdOf(file, line.bottoms[k])]
      /\ layer.tops = [k \in DOMAIN line.tops |-> IdOf(file, line.tops[k])]
      /\ layer.weights = WeightsFor(file, p)
  BY <1>1 DEF LayersOf
<1>3. layer.bottoms # <<>> /\ layer.bottoms[1] = Below(c)
  <2>1. DOMAIN line.bottoms = {1}
    BY <1>1
  <2>2. 1 \in DOMAIN layer.bottoms /\ layer.bottoms[1] = IdOf(file, line.bottoms[1])
    BY <1>2, <2>1
  <2>3. QED
    BY <2>2 DEF Below
<1>4. {layer.tops[i] : i \in DOMAIN layer.tops} = {b \in Slots : Maker(file, b) = p}
  <2>1. {layer.tops[i] : i \in DOMAIN layer.tops} = {IdOf(file, line.tops[k]) : k \in DOMAIN line.tops}
    <3>1. layer.tops = [k \in DOMAIN line.tops |-> IdOf(file, line.tops[k])]
      BY <1>2
    <3>2. QED
      BY <3>1
  <2>2. ASSUME NEW k \in DOMAIN line.tops
        PROVE  IdOf(file, line.tops[k]) \in Slots /\ Maker(file, IdOf(file, line.tops[k])) = p
    <3>1. line.tops[k] \in Names(file) /\ Maker(file, IdOf(file, line.tops[k])) = p
      BY <1>1, Makers
    <3>2. QED
      BY <3>1, Ids DEF Slots
  <2>3. ASSUME NEW b \in Slots, Maker(file, b) = p
        PROVE  \E k \in DOMAIN line.tops : IdOf(file, line.tops[k]) = b
    <3>1. PICK k \in DOMAIN line.tops : line.tops[k] = BlobIds(file)[b]
      BY <2>3, Makers DEF Slots
    <3>2. IdOf(file, BlobIds(file)[b]) = b
      BY Ids DEF Slots
    <3>3. QED
      BY <3>1, <3>2
  <2> HIDE DEF line, p
  <2>4. QED
    BY <2>1, <2>2, <2>3
<1>5. line.type # "Input" /\ line.type \in STRING /\ line.name \in STRING
  BY <1>1, LinesOf DEF WellFormed
<1>6. layer.name \in Labels /\ layer.weights \in Labels
  <2>1. layer.weights = line.name \/ layer.weights = "none" \/ layer.weights = "partial"
    BY <1>2 DEF WeightsFor
  <2> HIDE DEF line
  <2>2. QED
    BY <1>2, <1>5, <2>1 DEF Labels
<1>7. \A v : Apply(layer, v) = IF layer.type = "Split" THEN v
                               ELSE Append(v, <<layer.name, layer.weights>>)
  <2>1. layer.type # "Input"
    BY <1>2, <1>5
  <2>2. QED
    BY <2>1 DEF Apply
<1>8. ASSUME NEW b \in Slots, Maker(file, b) = p
      PROVE  b # 1 /\ Below(b) = Below(c) /\ Meant(b) = Apply(layer, Meant(Below(c)))
  <2>1. b # 1
    <3>1. Maker(file, 1) = 1
      BY Makers
    <3>2. QED
      BY <1>1, <1>8, <3>1
  <2>2. Below(b) = Below(c)
    BY <1>8 DEF Below
  <2> DEFINE name == BlobIds(file)[b]
  <2>3. name \in Names(file) \ {"data"}
    <3>1. name \in Names(file) /\ IdOf(file, name) = b
      BY Ids DEF Slots
    <3>2. IdOf(file, "data") = 1
      BY Makers
    <3>3. QED
      BY <2>1, <3>1, <3>2
  <2>4. LineNumber(name) = p /\ LineOf(name) = line
    BY <1>8, <2>1, BelowFacts
  <2>5. Meaning[name] =
                IF LineOf(name).type = "Split" THEN Meaning[LineOf(name).bottoms[1]]
                ELSE Append(Meaning[LineOf(name).bottoms[1]],
                            <<LineOf(name).name, WeightsFor(file, LineNumber(name))>>)
    <3> HIDE DEF name
    <3> QED
      BY <2>3, MeaningEquation
  <2>6. Meaning[line.bottoms[1]] = Meant(Below(c))
    <3>1. line.bottoms[1] = BlobIds(file)[Below(c)]
      BY <1>1
    <3>2. QED
      BY <3>1 DEF Meant
  <2>7. Meaning[name] = IF line.type = "Split" THEN Meant(Below(c))
                        ELSE Append(Meant(Below(c)), <<line.name, WeightsFor(file, p)>>)
    <3> HIDE DEF name, line, p
    <3> QED
      BY <2>4, <2>5, <2>6
  <2>8. Meaning[name] = IF layer.type = "Split" THEN Meant(Below(c))
                        ELSE Append(Meant(Below(c)), <<layer.name, layer.weights>>)
    <3> HIDE DEF name, line, p
    <3> QED
      BY <1>2, <2>7
  <2>9. Meant(b) = Meaning[name]
    BY DEF Meant
  <2>10. QED
    <3> HIDE DEF name, line
    <3> QED
      BY <1>7, <2>1, <2>2, <2>8, <2>9
<1>9. ASSUME NEW v \in Values PROVE Apply(layer, v) \in Values
  <2>1. <<layer.name, layer.weights>> \in Labels \X Labels
    BY <1>6
  <2> DEFINE e == <<layer.name, layer.weights>>
  <2>2. Append(v, e) \in Values
    <3> HIDE DEF e
    <3>1. e \in Labels \X Labels
      BY <2>1 DEF e
    <3> QED
      BY <3>1, AppendProperties DEF Values
  <2>3. QED
    BY <1>7, <2>2
<1>10. layer.type = "Split" => \A v : Apply(layer, v) = v
  BY <1>7
<1>11. QED
  <2> HIDE DEF p
  <2> QED
    BY <1>3, <1>4, <1>8, <1>9, <1>10 DEF p, Makes

----------------------------------------------------------------------------
(* One layer runs.  Every Mat keeps or gets the value of its blob; in      *)
(* light mode the blob that was read is gone, and it is not needed again:  *)
(* every other blob is there or can still be made, or has been consumed.   *)

States == [ok : BOOLEAN, mats : [Slots -> 0 .. MaxBuf], heap : [1 .. MaxBuf -> Values]]

Right(mats, hp) ==
  /\ \A b \in Slots : mats[b] # 0 => hp[mats[b]] = Meant(b)
  /\ \A name \in DOMAIN feats : feats[name] # 0 => hp[feats[name]] = Meaning[name]

AvailIn(A, mats) ==
  /\ \A b \in A : mats[b] # 0 \/ (b # 1 /\ Below(b) \in A)
  /\ \A b \in Slots \ A : ext.light /\ Consumed(BlobIds(file)[b])

Avail(mats) == \E A \in SUBSET Slots : AvailIn(A, mats)

LEMMA LayerRuns ==
  ASSUME file \in Files, FeatsType, LayersOf(file, net.layers),
         NEW c \in Slots \ {1}, NEW s \in States, Right(s.mats, s.heap), Avail(s.mats),
         s.mats[Below(c)] # 0,
         NEW t, t = ForwardLayer(s, net.layers[Maker(file, c)])
  PROVE  t \in States /\ t.ok /\ Right(t.mats, t.heap) /\ Avail(t.mats) /\ t.mats[c] # 0
<1> DEFINE layer == net.layers[Maker(file, c)]
           bottom == layer.bottoms[1]
           buf == s.mats[bottom]
           taken == IF ext.light THEN [s.mats EXCEPT ![bottom] = 0] ELSE s.mats
           inplace == ext.light /\ SupportInplace(layer.type)
           shared == Holders(taken, buf) + 1 # 1
           out == CASE layer.type = "Split" -> buf
                    [] inplace /\ ~shared -> buf
                    [] OTHER -> FreshBuf(taken, buf)
           tops == {layer.tops[i] : i \in DOMAIN layer.tops}
           v == Apply(layer, s.heap[buf])
           mats == [b \in DOMAIN taken |-> IF b \in tops THEN out ELSE taken[b]]
           hp == [s.heap EXCEPT ![out] = v]
<1>1. WellFormed(file)
  BY FileAssumption
<1>2. /\ bottom = Below(c) /\ tops = {b \in Slots : Maker(file, b) = Maker(file, c)}
      /\ \A b \in Slots : Maker(file, b) = Maker(file, c) =>
              b # 1 /\ Below(b) = Below(c) /\ Meant(b) = Apply(layer, Meant(Below(c)))
      /\ \A x \in Values : Apply(layer, x) \in Values
      /\ layer.type = "Split" => \A x : Apply(layer, x) = x
  <2>1. layer = net.layers[Maker(file, c)]
    OBVIOUS
  <2> HIDE DEF layer
  <2>2. Makes(layer, c)
    BY <1>1, <2>1, LayerFacts
  <2>3. QED
    BY <2>2 DEF Makes
<1>3. /\ Below(c) \in Slots /\ Consumed(BlobIds(file)[Below(c)])
      /\ \A b \in Slots \ {1} : Below(b) = Below(c) => Maker(file, b) = Maker(file, c)
  BY <1>1, BelowFacts, OneReader
<1>4. s.mats \in [Slots -> 0 .. MaxBuf] /\ s.heap \in [1 .. MaxBuf -> Values] /\ MaxBuf \in Nat
  BY MaxBufAssumption DEF States
<1>5. t = [ok |-> TRUE, mats |-> mats, heap |-> hp]
  BY DEF ForwardLayer
<1> HIDE DEF layer, bottom, tops
<1>6. /\ buf \in 1 .. MaxBuf /\ s.heap[buf] = Meant(Below(c)) /\ s.heap[buf] \in Values
  <2>1. buf \in 0 .. MaxBuf /\ buf # 0
    BY <1>2, <1>3, <1>4
  <2>2. s.heap[buf] = Meant(Below(c))
    BY <1>2, <1>3, <2>1 DEF Right
  <2> HIDE DEF buf
  <2>3. QED
    BY <1>4, <2>1, <2>2
<1>7. /\ taken \in [Slots -> 0 .. MaxBuf] /\ DOMAIN taken = Slots
      /\ \A b \in Slots : taken[b] = IF ext.light /\ b = Below(c) THEN 0 ELSE s.mats[b]
  <2>1. CASE ext.light
    <3>1. taken = [s.mats EXCEPT ![bottom] = 0]
      BY <2>1
    <3>2. 0 \in 0 .. MaxBuf
      BY <1>4
    <3> HIDE DEF taken
    <3>3. QED
      BY <1>2, <1>3, <1>4, <2>1, <3>1, <3>2
  <2>2. CASE ~ext.light
    <3>1. taken = s.mats
      BY <2>2
    <3> HIDE DEF taken
    <3>2. QED
      BY <1>4, <2>2, <3>1
  <2>3. QED
    BY <2>1, <2>2
<1>8. v \in Values /\ v = Apply(layer, Meant(Below(c)))
  BY <1>2, <1>6
<1> HIDE DEF v, taken, buf
<1>9. /\ out \in 1 .. MaxBuf
      /\ \/ v = s.heap[out]
         \/ /\ \A b \in Slots : taken[b] # out
            /\ \A name \in DOMAIN feats : feats[name] # out
  <2>1. CASE layer.type = "Split"
    <3>1. out = buf
      BY <2>1
    <3>2. v = s.heap[buf]
      BY <1>2, <2>1 DEF v
    <3> HIDE DEF out
    <3>3. QED
      BY <1>6, <3>1, <3>2
  <2>2. CASE layer.type # "Split" /\ inplace /\ ~shared
    <3>1. out = buf
      BY <2>2
    <3>2. Holders(taken, buf) \in Nat
      BY <1>1, <1>7, NoHolder
    <3>3. Holders(taken, buf) = 0
      BY <2>2, <3>2
    <3>4. /\ \A b \in Slots : taken[b] # buf
          /\ \A name \in DOMAIN feats : feats[name] # buf
      BY <1>1, <1>7, <3>3, NoHolder
    <3> HIDE DEF out
    <3>5. QED
      BY <1>6, <3>1, <3>4
  <2>3. CASE layer.type # "Split" /\ ~(inplace /\ ~shared)
    <3>1. out = FreshBuf(taken, buf)
      BY <2>3
    <3> HIDE DEF out
    <3>2. QED
      BY <1>7, <3>1, FreshBufIsFree
  <2>4. QED
    BY <2>1, <2>2, <2>3
<1> HIDE DEF out
<1>10. /\ mats \in [Slots -> 0 .. MaxBuf]
       /\ \A b \in Slots : mats[b] = IF b \in tops THEN out ELSE taken[b]
  BY <1>4, <1>7, <1>9
<1>11. /\ hp \in [1 .. MaxBuf -> Values]
       /\ \A k \in 1 .. MaxBuf : hp[k] = IF k = out THEN v ELSE s.heap[k]
  BY <1>4, <1>8, <1>9
<1> HIDE DEF mats, hp
<1>12. t \in States /\ t.ok /\ t.mats = mats /\ t.heap = hp
  BY <1>5, <1>10, <1>11 DEF States
<1>13. mats[c] # 0
  <2>1. c \in tops
    BY <1>2
  <2>2. QED
    BY <1>9, <1>10, <2>1
<1>14. Right(mats, hp)
  <2>1. ASSUME NEW k \in 1 .. MaxBuf, NEW w, s.heap[k] = w,
               k # out \/ v = s.heap[out]
        PROVE  hp[k] = w
    BY <1>11, <2>1
  <2>2. ASSUME NEW b \in Slots, mats[b] # 0 PROVE hp[mats[b]] = Meant(b)
    <3>1. CASE b \in tops
      <4>1. mats[b] = out /\ hp[out] = v
        BY <1>9, <1>10, <1>11, <3>1
      <4>2. Meant(b) = v
        BY <1>2, <1>8, <3>1
      <4>3. QED
        BY <4>1, <4>2
    <3>2. CASE b \notin tops
      <4>1. mats[b] = taken[b] /\ taken[b] # 0
        BY <1>10, <2>2, <3>2
      <4>2. taken[b] = s.mats[b]
        BY <1>7, <4>1
      <4>3. s.heap[taken[b]] = Meant(b)
        BY <4>1, <4>2 DEF Right
      <4>4. taken[b] \in 1 .. MaxBuf
        BY <1>4, <1>7, <4>1
      <4>5. taken[b] # out \/ v = s.heap[out]
        BY <1>9
      <4>6. hp[taken[b]] = Meant(b)
        BY <2>1, <4>3, <4>4, <4>5
      <4>7. QED
        BY <4>1, <4>6
    <3>3. QED
      BY <3>1, <3>2
  <2>3. ASSUME NEW name \in DOMAIN feats, feats[name] # 0 PROVE hp[feats[name]] = Meaning[name]
    <3>1. s.heap[feats[name]] = Meaning[name]
      BY <2>3 DEF Right
    <3>2. feats[name] \in 1 .. MaxBuf
      BY <1>4, <2>3 DEF FeatsType
    <3>3. feats[name] # out \/ v = s.heap[out]
      BY <1>9
    <3>4. QED
      BY <2>1, <3>1, <3>2, <3>3
  <2>4. QED
    BY <2>2, <2>3 DEF Right
<1>15. Avail(mats)
  <2>1. PICK A \in SUBSET Slots : AvailIn(A, s.mats)
    BY DEF Avail
  <2> DEFINE A2 == IF ext.light THEN A \ {Below(c)} ELSE A
  <2>2. ASSUME NEW b \in A2 PROVE mats[b] # 0 \/ (b # 1 /\ Below(b) \in A2)
    <3>1. b \in A /\ b \in Slots /\ ~(ext.light /\ b = Below(c))
      OBVIOUS
    <3>2. taken[b] = s.mats[b]
      BY <1>7, <3>1
    <3>3. CASE s.mats[b] # 0
      BY <1>4, <1>9, <1>10, <3>1, <3>2, <3>3
    <3>4. CASE s.mats[b] = 0
      <4>1. b # 1 /\ Below(b) \in A
        BY <2>1, <3>1, <3>4 DEF AvailIn
      <4>2. CASE Below(b) = Below(c)
        <5>1. b \in tops
          BY <1>2, <1>3, <3>1, <4>1, <4>2
        <5>2. QED
          BY <1>9, <1>10, <3>1, <5>1
      <4>3. CASE Below(b) # Below(c)
        BY <4>1, <4>3
      <4>4. QED
        BY <4>2, <4>3
    <3>5. QED
      BY <3>3, <3>4
  <2>3. ASSUME NEW b \in Slots \ A2 PROVE ext.light /\ Consumed(BlobIds(file)[b])
    <3>1. b \in Slots \ A \/ (ext.light /\ b = Below(c))
      OBVIOUS
    <3>2. QED
      BY <1>3, <2>1, <3>1 DEF AvailIn
  <2>4. A2 \in SUBSET Slots
    OBVIOUS
  <2> HIDE DEF A2
  <2>5. AvailIn(A2, mats)
    BY <2>2, <2>3 DEF AvailIn
  <2>6. QED
    BY <2>4, <2>5 DEF Avail
<1>16. QED
  BY <1>12, <1>13, <1>14, <1>15

----------------------------------------------------------------------------
(* A recursive function whose value at each argument lies in a set of its  *)
(* own.                                                                    *)
TypedRecursion(I, V, W, rank, D, F) ==
  /\ V # {} /\ W \in [I -> SUBSET V] /\ rank \in [I -> Nat]
  /\ \A x \in I : W[x] # {}
  /\ D = {g \in [I -> V] : \A x \in I : g[x] \in W[x]}
  /\ F \in [D -> D]
  /\ \A g, h \in D : \A x \in I :
       (\A y \in I : rank[y] < rank[x] => g[y] = h[y]) => F[g][x] = F[h][x]

LEMMA TypedFixedPoint ==
  ASSUME NEW I, NEW V, NEW W, NEW rank, NEW D, NEW F, TypedRecursion(I, V, W, rank, D, F)
  PROVE  \E f \in D : f = F[f]
<1> USE DEF TypedRecursion
<1> DEFINE clip(g) == [x \in I |-> IF g[x] \in W[x] THEN g[x] ELSE CHOOSE w \in W[x] : TRUE]
           F2 == [g \in [I -> V] |-> F[clip(g)]]
<1>1. ASSUME NEW g \in [I -> V] PROVE clip(g) \in D
  <2>1. \A x \in I : clip(g)[x] \in W[x] /\ clip(g)[x] \in V
    OBVIOUS
  <2>2. clip(g) \in [I -> V]
    OBVIOUS
  <2>3. QED
    BY <2>1, <2>2
<1>2. \A g \in D : clip(g) = g /\ g \in [I -> V]
  OBVIOUS
<1>3. \A g \in [I -> V] : F2[g] = F[clip(g)] /\ F2[g] \in D
  BY <1>1
<1>4. Recursion(I, V, rank, F2)
  <2>1. F2 \in [[I -> V] -> [I -> V]]
    BY <1>2, <1>3
  <2>2. ASSUME NEW g \in [I -> V], NEW h \in [I -> V], NEW x \in I,
               \A y \in I : rank[y] < rank[x] => g[y] = h[y]
        PROVE  F2[g][x] = F2[h][x]
    <3>1. \A y \in I : rank[y] < rank[x] => clip(g)[y] = clip(h)[y]
      BY <2>2
    <3>2. clip(g) \in D /\ clip(h) \in D
      BY <1>1
    <3>3. F[clip(g)][x] = F[clip(h)][x]
      <4> HIDE DEF clip
      <4> QED
        BY <3>1, <3>2
    <3>4. QED
      <4> HIDE DEF clip, F2
      <4> QED
        BY <1>3, <3>3
  <2>3. QED
    <3> HIDE DEF F2
    <3> QED
      BY <2>1, <2>2 DEF Recursion
<1>5. PICK f \in [I -> V] : f = F2[f]
  <2> HIDE DEF F2
  <2> QED
    BY <1>4, FixedPoint
<1>6. f \in D
  <2> HIDE DEF F2
  <2> QED
    BY <1>3, <1>5
<1>7. F2[f] = F[f]
  <2> HIDE DEF F2, clip
  <2> QED
    BY <1>2, <1>3, <1>6
<1>8. QED
  <2> HIDE DEF F2
  <2> QED
    BY <1>5, <1>6, <1>7

----------------------------------------------------------------------------
(* extract of one blob.                                                    *)

Held(ok) == [ok |-> ok, mats |-> ext.mats, heap |-> heap]

Good(c, s) == Right(s.mats, s.heap) /\ Avail(s.mats) /\ (s.ok => s.mats[c] # 0)

ReadyToRun ==
  /\ file \in Files /\ FeatsType
  /\ DOMAIN net.blobs = Slots /\ \A b \in Slots : net.blobs[b].producer = Maker(file, b)
  /\ LayersOf(file, net.layers)
  /\ ext.mats \in [Slots -> 0 .. MaxBuf] /\ heap \in [1 .. MaxBuf -> Values]
  /\ Right(ext.mats, heap) /\ Avail(ext.mats)

(* The recursion of extract in terms of the blob that is read.             *)
LEMMA ForwardIs ==
  ASSUME ReadyToRun, NEW b \in Slots
  PROVE  \E made :
           /\ Forward(b) = made[b]
           /\ made = CHOOSE m : m = [c \in Slots |->
                IF ext.mats[c] # 0 THEN Held(TRUE) ELSE IF c = 1 THEN Held(FALSE)
                ELSE IF ~m[Below(c)].ok THEN m[Below(c)]
                ELSE ForwardLayer(m[Below(c)], net.layers[Maker(file, c)])]
<1> DEFINE H(m, c) == IF ext.mats[c] # 0 THEN Held(TRUE) ELSE IF c = 1 THEN Held(FALSE)
                      ELSE IF ~m[Below(c)].ok THEN m[Below(c)]
                      ELSE ForwardLayer(m[Below(c)], net.layers[Maker(file, c)])
           p(c) == net.blobs[c].producer
           O(m, c) == IF ext.mats[c] # 0 THEN Held(TRUE)
                      ELSE IF p(c) = 0 \/ net.layers[p(c)].bottoms = <<>> THEN Held(FALSE)
                      ELSE IF ~m[net.layers[p(c)].bottoms[1]].ok
                           THEN m[net.layers[p(c)].bottoms[1]]
                      ELSE ForwardLayer(m[net.layers[p(c)].bottoms[1]], net.layers[p(c)])
<1>1. WellFormed(file) /\ DOMAIN ext.mats = Slots
  BY FileAssumption DEF ReadyToRun
<1>2. Forward(b) = (CHOOSE m : m = [c \in Slots |-> O(m, c)])[b]
  BY <1>1 DEF Forward, Held
<1>3. ASSUME NEW c \in Slots, NEW m PROVE O(m, c) = H(m, c)
  <2>1. p(c) = Maker(file, c) /\ p(c) \in DOMAIN file.lines /\ p(c) # 0
    <3>1. Maker(file, c) \in DOMAIN file.lines
      BY <1>1, Makers DEF Slots
    <3>2. 0 \notin DOMAIN file.lines
      BY <1>1, LinesOf
    <3>3. QED
      BY <3>1, <3>2 DEF ReadyToRun
  <2>2. CASE c = 1
    <3>1. p(c) = 1
      BY <1>1, <2>1, <2>2, Makers
    <3>2. file.lines[1].bottoms = <<>>
      BY <1>1 DEF WellFormed
    <3>3. net.layers[1].bottoms = [k \in DOMAIN <<>> |-> IdOf(file, file.lines[1].bottoms[k])]
      BY <2>1, <3>1, <3>2 DEF ReadyToRun, LayersOf
    <3>4. net.layers[1].bottoms = <<>>
      BY <3>3
    <3>5. QED
      BY <2>2, <3>1, <3>4
  <2>3. CASE c # 1
    <3> DEFINE layer == net.layers[Maker(file, c)]
    <3>1. layer = net.layers[Maker(file, c)] /\ c \in Slots \ {1} /\ LayersOf(file, net.layers)
      BY <2>3 DEF ReadyToRun
    <3> HIDE DEF layer
    <3>2. Makes(layer, c)
      BY <1>1, <3>1, LayerFacts
    <3>3. layer.bottoms # <<>> /\ layer.bottoms[1] = Below(c)
      BY <3>2 DEF Makes
    <3>4. net.layers[p(c)] = layer
      BY <2>1, <3>1
    <3> HIDE DEF p
    <3>5. QED
      BY <2>1, <2>3, <3>1, <3>3, <3>4
  <2>4. QED
    BY <2>2, <2>3
<1>4. ASSUME NEW m PROVE [c \in Slots |-> O(m, c)] = [c \in Slots |-> H(m, c)]
  <2> HIDE DEF O, H
  <2> QED
    BY <1>3
<1>5. (CHOOSE m : m = [c \in Slots |-> O(m, c)]) = (CHOOSE m : m = [c \in Slots |-> H(m, c)])
  <2> HIDE DEF O, H
  <2> QED
    BY <1>4
<1> DEFINE made == CHOOSE m : m = [c \in Slots |-> H(m, c)]
<1>6. Forward(b) = made[b]
  BY <1>2, <1>5
<1>7. made = CHOOSE m : m = [c \in Slots |-> H(m, c)]
  OBVIOUS
<1>8. QED
  <2> HIDE DEF made
  <2> QED
    BY <1>6, <1>7

LEMMA ForwardRuns ==
  ASSUME ReadyToRun, NEW b \in Slots, NEW s, s = Forward(b)
  PROVE  /\ s \in States /\ Good(b, s)
         /\ \A A \in SUBSET Slots : AvailIn(A, ext.mats) /\ b \in A => s.ok
<1> DEFINE H(m, c) == IF ext.mats[c] # 0 THEN Held(TRUE) ELSE IF c = 1 THEN Held(FALSE)
                      ELSE IF ~m[Below(c)].ok THEN m[Below(c)]
                      ELSE ForwardLayer(m[Below(c)], net.layers[Maker(file, c)])
           G(m) == [c \in Slots |-> H(m, c)]
           W == [c \in Slots |-> {x \in States : Good(c, x)}]
           rank == [c \in Slots |-> c]
           D == {g \in [Slots -> States] : \A c \in Slots : g[c] \in W[c]}
           F == [g \in D |-> G(g)]
<1>1. /\ WellFormed(file) /\ file \in Files /\ FeatsType /\ LayersOf(file, net.layers)
      /\ ext.mats \in [Slots -> 0 .. MaxBuf] /\ heap \in [1 .. MaxBuf -> Values]
      /\ Right(ext.mats, heap) /\ Avail(ext.mats)
  BY FileAssumption DEF ReadyToRun
<1>2. \A ok \in BOOLEAN : /\ Held(ok) \in States /\ Held(ok).ok = ok
                          /\ Held(ok).mats = ext.mats /\ Held(ok).heap = heap
  BY <1>1 DEF Held, States
<1>3. \A c \in Slots : c \in Nat /\ (c # 1 => Below(c) \in Slots /\ Below(c) < c)
  <2>1. \A c \in Slots : c \in Nat
    BY DEF Slots
  <2>2. \A c \in Slots \ {1} : Below(c) \in Slots /\ Below(c) < c
    BY <1>1, BelowFacts
  <2>3. QED
    BY <2>1, <2>2
<1>4. \A c \in Slots : W[c] # {} /\ W[c] \in SUBSET States
  <2>1. \A c \in Slots : Held(FALSE) \in States /\ Good(c, Held(FALSE))
    BY <1>1, <1>2 DEF Good
  <2>2. QED
    BY <2>1
<1>5. ASSUME NEW g \in D, NEW c \in Slots PROVE H(g, c) \in States /\ Good(c, H(g, c))
  <2>1. \A x \in Slots : g[x] \in States /\ Good(x, g[x])
    OBVIOUS
  <2>2. CASE ext.mats[c] # 0
    BY <1>1, <1>2, <2>2 DEF Good
  <2>3. CASE ext.mats[c] = 0 /\ c = 1
    BY <1>1, <1>2, <2>3 DEF Good
  <2>4. CASE ext.mats[c] = 0 /\ c # 1 /\ ~g[Below(c)].ok
    <3>1. H(g, c) = g[Below(c)]
      BY <2>4
    <3>2. g[Below(c)] \in States /\ Good(Below(c), g[Below(c)])
      BY <1>3, <2>1, <2>4
    <3> HIDE DEF H
    <3>3. QED
      BY <2>4, <3>1, <3>2 DEF Good
  <2>5. CASE ext.mats[c] = 0 /\ c # 1 /\ g[Below(c)].ok
    <3> DEFINE t == ForwardLayer(g[Below(c)], net.layers[Maker(file, c)])
               x == g[Below(c)]
    <3>1. H(g, c) = t
      BY <2>5
    <3>2. x \in States /\ Right(x.mats, x.heap) /\ Avail(x.mats) /\ x.mats[Below(c)] # 0
      BY <1>3, <2>1, <2>5 DEF Good
    <3>3. t = ForwardLayer(x, net.layers[Maker(file, c)]) /\ c \in Slots \ {1}
      BY <2>5
    <3> HIDE DEF t, x, H
    <3>4. t \in States /\ t.ok /\ Right(t.mats, t.heap) /\ Avail(t.mats) /\ t.mats[c] # 0
      BY <1>1, <3>2, <3>3, LayerRuns
    <3>5. QED
      BY <3>1, <3>4 DEF Good
  <2>6. QED
    BY <2>2, <2>3, <2>4, <2>5
<1>6. ASSUME NEW g \in D PROVE G(g) \in D
  <2> HIDE DEF H
  <2>1. G(g) \in [Slots -> States] /\ \A c \in Slots : G(g)[c] \in W[c]
    BY <1>5
  <2>2. QED
    BY <2>1
<1>7. ASSUME NEW g, NEW h, NEW c \in Slots, \A y \in Slots : rank[y] < rank[c] => g[y] = h[y]
      PROVE  G(g)[c] = G(h)[c]
  <2>1. c # 1 => g[Below(c)] = h[Below(c)]
    BY <1>3, <1>7
  <2>2. H(g, c) = H(h, c)
    BY <2>1
  <2> HIDE DEF H
  <2>3. QED
    BY <2>2
<1>8. \E f \in D : f = F[f]
  <2>1. W \in [Slots -> SUBSET States] /\ \A c \in Slots : W[c] # {}
    BY <1>4
  <2>2. rank \in [Slots -> Nat]
    BY <1>3
  <2>3. F \in [D -> D]
    <3> HIDE DEF G, D
    <3> QED
      BY <1>6
  <2>4. \A g, h \in D : \A x \in Slots :
           (\A y \in Slots : rank[y] < rank[x] => g[y] = h[y]) => F[g][x] = F[h][x]
    <3> HIDE DEF G, D, rank
    <3> QED
      BY <1>7
  <2>5. States # {}
    BY <1>2
  <2>6. D = {g \in [Slots -> States] : \A x \in Slots : g[x] \in W[x]}
    OBVIOUS
  <2> HIDE DEF D, F, W, rank
  <2>7. TypedRecursion(Slots, States, W, rank, D, F)
    BY <2>1, <2>2, <2>3, <2>4, <2>5, <2>6 DEF TypedRecursion
  <2>8. QED
    BY <2>7, TypedFixedPoint
<1>9. PICK f \in D : f = G(f)
  <2> HIDE DEF D, G
  <2> QED
    BY <1>8
<1>10. PICK made : Forward(b) = made[b] /\ made = CHOOSE m : m = G(m)
  BY ForwardIs
<1>11. made = G(made)
  <2> HIDE DEF G
  <2> QED
    BY <1>9, <1>10
<1> DEFINE T == {n \in Nat : n \in Slots => made[n] = f[n]}
<1>12. ASSUME NEW n \in Nat, \A m \in Nat : m < n => m \in T PROVE n \in T
  <2>1. SUFFICES ASSUME n \in Slots PROVE made[n] = f[n]
    OBVIOUS
  <2>2. \A y \in Slots : rank[y] < rank[n] => made[y] = f[y]
    BY <1>3, <1>12, <2>1
  <2>3. G(made)[n] = G(f)[n]
    <3> HIDE DEF G, rank
    <3> QED
      BY <1>7, <2>1, <2>2
  <2>4. QED
    <3> HIDE DEF G
    <3> QED
      BY <1>9, <1>11, <2>3
<1>13. \A c \in Slots : made[c] = f[c]
  <2>1. Nat \subseteq T
    <3> HIDE DEF T
    <3> QED
      BY <1>12, Induction
  <2>2. QED
    BY <1>3, <2>1
<1>14. \A c \in Slots : made[c] \in States /\ Good(c, made[c])
  <2>1. \A c \in Slots : f[c] \in States /\ Good(c, f[c])
    BY <1>9
  <2> HIDE DEF T, G, D
  <2>2. QED
    BY <1>13, <2>1
<1> HIDE DEF T, D
<1>15. ASSUME NEW A \in SUBSET Slots, AvailIn(A, ext.mats), b \in A PROVE made[b].ok
  <2> DEFINE U == {n \in Nat : n \in A => made[n].ok}
  <2>1. ASSUME NEW n \in Nat, \A m \in Nat : m < n => m \in U PROVE n \in U
    <3>1. SUFFICES ASSUME n \in A PROVE made[n].ok
      OBVIOUS
    <3>2. n \in Slots /\ made[n] = H(made, n)
      <4> HIDE DEF H
      <4> QED
        BY <1>11, <3>1
    <3>3. CASE ext.mats[n] # 0
      BY <1>2, <3>2, <3>3
    <3>4. CASE ext.mats[n] = 0
      <4>1. n # 1 /\ Below(n) \in A
        BY <1>15, <3>1, <3>4 DEF AvailIn
      <4>2. Below(n) \in Nat /\ Below(n) < n
        BY <1>3, <3>2, <4>1
      <4>3. made[Below(n)].ok
        BY <2>1, <4>1, <4>2
      <4> DEFINE t == ForwardLayer(made[Below(n)], net.layers[Maker(file, n)])
                 x == made[Below(n)]
      <4>4. made[n] = t
        BY <3>2, <3>4, <4>1, <4>3
      <4>5. x \in States /\ Right(x.mats, x.heap) /\ Avail(x.mats) /\ x.mats[Below(n)] # 0
        <5> HIDE DEF G
        <5> QED
          BY <1>14, <4>1, <4>3 DEF Good
      <4>6. t = ForwardLayer(x, net.layers[Maker(file, n)]) /\ n \in Slots \ {1}
        BY <3>2, <4>1
      <4> HIDE DEF t, x, H, G
      <4>7. t.ok
        BY <1>1, <4>5, <4>6, LayerRuns
      <4>8. QED
        BY <4>4, <4>7
    <3>5. QED
      BY <3>3, <3>4
  <2>2. Nat \subseteq U
    <3> HIDE DEF U
    <3> QED
      BY <2>1, Induction
  <2>3. QED
    BY <1>3, <1>15, <2>2
<1>16. s = made[b]
  BY <1>10
<1>17. QED
  <2> HIDE DEF G
  <2> QED
    BY <1>14, <1>15, <1>16

----------------------------------------------------------------------------
(* The inductive invariant.                                                *)

How == IF form = "text" THEN "text" ELSE "bin"

NetLoaded ==
  IF Loadable(file)
  THEN net.blobs = NetBlobs(file, How) /\ (trained # 1 => LayersOf(file, net.layers))
  ELSE net.blobs = <<>>

Extracting ==
  /\ FeatsType /\ "data" \in DOMAIN feats
  /\ ext = [light |-> ext.light, mats |-> ext.mats]
  /\ \A name \in DOMAIN feats : feats[name] # 0 => heap[feats[name]] = Meaning[name]
  /\ Loadable(file) => /\ ext.mats \in [Slots -> 0 .. MaxBuf]
                       /\ Right(ext.mats, heap) /\ Avail(ext.mats)
                       /\ \A name \in DOMAIN feats : feats[name] # 0

NetInv ==
  /\ file \in Files
  /\ heap \in [1 .. MaxBuf -> Values]
  /\ feats = << >> => heap = [k \in 1 .. MaxBuf |-> <<>>]
  /\ form \in {"none", "gone"} => net = NoNet(0) /\ trained = 1
  /\ form \notin {"none", "gone"} /\ trained = 1 => net = LoadedNet(file, How)
  /\ form \notin {"none", "gone"} => NetLoaded
  /\ trained = 1 => ext = NoExtractor
  /\ feats # << >> => trained # 1 /\ Extracting

LEMMA FileKept ==
  ASSUME file' = file
  PROVE  /\ Meaning' = Meaning /\ Slots' = Slots
         /\ \A b : Meant(b)' = Meant(b)
         /\ \A b : Below(b)' = Below(b)
         /\ \A name : Consumed(name)' = Consumed(name)
<1>1. Names(file') = Names(file) /\ Slots' = Slots
  BY DEF Names, Slots
<1>2. \A name : LineNumber(name)' = LineNumber(name) /\ LineOf(name)' = LineOf(name)
  BY DEF LineOf, LineNumber
<1>3. Meaning' = Meaning
  <2>1. \A name : WeightsFor(file, LineNumber(name))' = WeightsFor(file, LineNumber(name))
    BY <1>2 DEF WeightsFor, Turn
  <2>2. QED
    BY <1>1, <1>2, <2>1 DEF Meaning
<1>4. \A name : Consumed(name)' = Consumed(name)
  BY DEF Consumed
<1>5. \A b : Below(b)' = Below(b)
  BY DEF Below
<1>6. \A b : Meant(b)' = Meant(b)
  BY <1>3 DEF Meant
<1>7. QED
  BY <1>1, <1>3, <1>4, <1>5, <1>6

LEMMA NetInvInit == NetInit => NetInv
<1> SUFFICES ASSUME NEW f \in Files, NetStart(f) PROVE NetInv
  BY DEF NetInit
<1>1. <<>> \in Values
  BY DEF Values
<1>2. heap \in [1 .. MaxBuf -> Values]
  BY <1>1 DEF NetStart
<1>3. QED
  BY <1>2 DEF NetStart, NetInv, NetLoaded

LEMMA LoadParamKeeps ==
  ASSUME NetInv, NEW f \in {"text", "bin", "mem"}, LoadParam(f)
  PROVE  NetInv'
<1>1. /\ form = "none" /\ form' = f /\ file' = file /\ trained' = trained /\ ext' = ext
      /\ heap' = heap /\ feats' = feats
      /\ trained = 1 /\ ext = NoExtractor /\ file \in Files
  BY DEF LoadParam, NetInv
<1>2. feats = << >>
  BY <1>1 DEF NetInv
<1>3. WellFormed(file)
  BY <1>1, FileAssumption
<1>4. net' = LoadedNet(file, How')
  <2>1. CASE f = "text"
    <3>1. net' = LoadText(file) /\ How' = "text"
      BY <1>1, <2>1 DEF LoadParam, How
    <3>2. QED
      BY <1>3, <3>1, TextLoads
  <2>2. CASE f = "bin"
    <3>1. net' = LoadBin(file) /\ How' = "bin"
      BY <1>1, <2>2 DEF LoadParam, How
    <3>2. QED
      BY <1>3, <3>1, BinLoads
  <2>3. CASE f = "mem"
    <3>1. net' = LoadBin(file) /\ How' = "bin"
      BY <1>1, <2>3 DEF LoadParam, How, LoadMem
    <3>2. QED
      BY <1>3, <3>1, BinLoads
  <2>4. QED
    BY <2>1, <2>2, <2>3
<1>5. NetLoaded'
  <2>1. net' = IF Loadable(file)
               THEN [ret |-> 0, blobs |-> NetBlobs(file, How'), layers |-> NetLayers(file)]
               ELSE [ret |-> -1, blobs |-> <<>>, layers |-> <<>>]
    BY <1>4 DEF LoadedNet, NoNet
  <2> DEFINE nb == NetBlobs(file, How')
             nl == NetLayers(file)
  <2> HIDE DEF nb, nl
  <2>2. net' = IF Loadable(file) THEN [ret |-> 0, blobs |-> nb, layers |-> nl]
               ELSE [ret |-> -1, blobs |-> <<>>, layers |-> <<>>]
    BY <2>1 DEF nb, nl
  <2>3. IF Loadable(file) THEN net'.blobs = nb ELSE net'.blobs = <<>>
    BY <2>2
  <2>4. QED
    BY <1>1, <2>3 DEF NetLoaded, nb
<1>6. heap \in [1 .. MaxBuf -> Values] /\ heap = [k \in 1 .. MaxBuf |-> <<>>]
  BY <1>2 DEF NetInv
<1>7. QED
  BY <1>1, <1>2, <1>4, <1>5, <1>6 DEF NetInv

LEMMA LoadModelKeeps ==
  ASSUME NetInv, LoadModel
  PROVE  NetInv'
<1> DEFINE l == LoadWeights(net.layers, file.weights)
<1>1. /\ form \notin {"none", "gone"} /\ trained = 1 /\ trained' = l.ret /\ net' = [net EXCEPT !.layers = l.layers]
      /\ file' = file /\ form' = form /\ ext' = ext /\ heap' = heap /\ feats' = feats
  BY DEF LoadModel
<1>2. /\ file \in Files /\ heap \in [1 .. MaxBuf -> Values] /\ feats = << >>
      /\ heap = [k \in 1 .. MaxBuf |-> <<>>] /\ net = LoadedNet(file, How)
      /\ ext = NoExtractor
  BY <1>1 DEF NetInv
<1>3. WellFormed(file) /\ How' = How
  BY <1>1, <1>2, FileAssumption DEF How
<1>4. NetLoaded'
  <2>1. CASE Loadable(file)
    <3> DEFINE nb == NetBlobs(file, How)
               nl == NetLayers(file)
    <3>1. net = [ret |-> 0, blobs |-> nb, layers |-> nl]
      BY <1>2, <2>1 DEF LoadedNet
    <3> HIDE DEF nb, nl
    <3>2. net.layers = nl
      BY <3>1
    <3>3. net'.blobs = nb /\ net'.layers = l.layers
      <4> HIDE DEF l
      <4> QED
        BY <1>1, <3>1
    <3>4. LayersOf(file, net'.layers)
      <4>1. l = LoadWeights(NetLayers(file), file.weights)
        BY <3>2 DEF nl
      <4> HIDE DEF l
      <4>2. QED
        BY <1>1, <1>3, <3>3, <4>1, Weights
    <3>5. QED
      BY <1>1, <1>3, <2>1, <3>3, <3>4 DEF NetLoaded, nb
  <2>2. CASE ~Loadable(file)
    <3>1. net = [ret |-> -1, blobs |-> <<>>, layers |-> <<>>]
      BY <1>2, <2>2 DEF LoadedNet, NoNet
    <3>2. net'.blobs = <<>>
      <4> HIDE DEF l
      <4> QED
        BY <1>1, <3>1
    <3>3. QED
      BY <1>1, <2>2, <3>2 DEF NetLoaded
  <2>3. QED
    BY <2>1, <2>2
<1>5. trained' # 1
  BY <1>1 DEF LoadWeights
<1> HIDE DEF l
<1>6. QED
  BY <1>1, <1>2, <1>4, <1>5 DEF NetInv

(* The number by which the caller's name is found.                         *)
LEMMA IndexIs ==
  ASSUME WellFormed(file), NetLoaded, NEW name \in Names(file)
  PROVE  Index(name) = IF Loadable(file) THEN IdOf(file, name) ELSE 0
<1>1. IdOf(file, name) \in 1 .. Len(BlobIds(file)) /\ Len(BlobIds(file)) \in Nat
      /\ DOMAIN BlobIds(file) = 1 .. Len(BlobIds(file)) /\ 1 <= Len(BlobIds(file))
  BY Ids
<1>2. CASE ~Loadable(file)
  <2>1. net.blobs = <<>>
    BY <1>2 DEF NetLoaded
  <2>2. FindBlobIndexByName(<<>>, name) = 0
    BY DEF FindBlobIndexByName
  <2>3. QED
    BY <1>2, <2>1, <2>2 DEF Index
<1>3. CASE Loadable(file) /\ form = "text"
  <2>1. net.blobs = NetBlobs(file, "text")
    BY <1>3 DEF NetLoaded, How
  <2> DEFINE n == Len(BlobIds(file))
  <2>2. n \in 0 .. n
    BY <1>1
  <2>3. FindBlobIndexByName([b \in 1 .. n |-> NetBlobs(file, "text")[b]], name)
           = IF IdOf(file, name) \in 1 .. n THEN IdOf(file, name) ELSE 0
    BY <2>2, FoundByName
  <2>4. NetBlobs(file, "text") = [b \in 1 .. n |-> NetBlobs(file, "text")[b]]
    BY <1>1 DEF NetBlobs
  <2>5. FindBlobIndexByName(net.blobs, name) = IdOf(file, name)
    BY <1>1, <2>1, <2>3, <2>4
  <2>6. QED
    BY <1>3, <2>5 DEF Index
<1>4. CASE Loadable(file) /\ form # "text"
  <2>1. net.blobs = NetBlobs(file, "bin")
    BY <1>4 DEF NetLoaded, How
  <2>2. DOMAIN net.blobs = 1 .. Len(BlobIds(file))
    BY <1>1, <2>1 DEF NetBlobs
  <2>3. net.blobs # <<>>
    <3>1. 1 \in DOMAIN net.blobs
      BY <1>1, <2>2
    <3>2. QED
      BY <3>1
  <2>4. QED
    BY <1>4, <2>3 DEF Index
<1>5. QED
  BY <1>2, <1>3, <1>4


LEMMA CreateExtractorKeeps ==
  ASSUME NetInv, NEW light \in BOOLEAN, CreateExtractor(light)
  PROVE  NetInv'
<1> DEFINE n == Len(BlobIds(file))
<1>1. /\ trained # 1 /\ feats = << >> /\ file' = file /\ form' = form /\ net' = net
      /\ trained' = trained /\ heap' = heap /\ feats' = [name \in {"data"} |-> 1]
  BY DEF CreateExtractor
<1>2. /\ file \in Files /\ heap \in [1 .. MaxBuf -> Values] /\ form \notin {"none", "gone"} /\ NetLoaded
      /\ heap = [k \in 1 .. MaxBuf |-> <<>>]
  BY <1>1 DEF NetInv
<1>3. WellFormed(file) /\ n \in Nat /\ 1 <= n /\ MaxBuf \in Nat /\ 1 \in 1 .. MaxBuf
  <2>1. WellFormed(file) /\ MaxBuf \in Nat /\ MaxBuf > 2 * n + 1
    BY <1>2, FileAssumption, MaxBufAssumption
  <2>2. n \in Nat /\ 1 <= n
    BY <2>1, Ids
  <2> HIDE DEF n
  <2>3. QED
    BY <2>1, <2>2
<1>4. "data" \in Names(file) /\ BlobIds(file)[1] = "data" /\ IdOf(file, "data") = 1
  BY <1>3, Makers
<1>5. Meaning["data"] = <<>> /\ Meant(1) = <<>>
  BY <1>3, <1>4, MeaningEquation DEF Meant
<1>6. /\ Meaning' = Meaning /\ Slots' = Slots
      /\ \A b : Meant(b)' = Meant(b) /\ Below(b)' = Below(b)
      /\ \A name : Consumed(name)' = Consumed(name)
  BY <1>1, FileKept
<1>7. DOMAIN feats' = {"data"} /\ feats'["data"] = 1
  BY <1>1
<1>8. FeatsType'
  <2>1. feats' \in [{"data"} -> 0 .. MaxBuf]
    BY <1>1, <1>3
  <2>2. Names(file') = Names(file)
    BY <1>1
  <2>3. QED
    BY <1>4, <1>7, <2>1, <2>2 DEF FeatsType
<1> DEFINE data == Index("data")
           empty == [b \in DOMAIN net.blobs |-> 0]
<1>9. ext' = [light |-> light,
              mats |-> IF data = 0 THEN empty ELSE [empty EXCEPT ![data] = 1]]
  BY DEF CreateExtractor
<1>10. ext' = [light |-> ext'.light, mats |-> ext'.mats]
  <2> HIDE DEF data, empty
  <2> QED
    BY <1>9
<1>11. \A name \in DOMAIN feats' : feats'[name] # 0 /\ heap'[feats'[name]] = Meaning'[name]
  BY <1>1, <1>2, <1>3, <1>5, <1>6, <1>7
<1>12. ASSUME Loadable(file)
       PROVE  ext'.mats \in [Slots' -> 0 .. MaxBuf] /\ Right(ext.mats, heap)' /\ Avail(ext.mats)'
  <2>1. data = 1
    BY <1>2, <1>3, <1>4, <1>12, IndexIs
  <2>2. DOMAIN net.blobs = Slots /\ 1 \in Slots
    <3>1. net.blobs = NetBlobs(file, How)
      BY <1>2, <1>12 DEF NetLoaded
    <3>2. DOMAIN BlobIds(file) = Slots
      BY <1>3, Ids DEF Slots
    <3>3. 1 \in Slots
      BY <1>3 DEF Slots
    <3>4. QED
      BY <3>1, <3>2, <3>3 DEF NetBlobs
  <2>3. ext'.mats = [empty EXCEPT ![data] = 1]
    <3> HIDE DEF data, empty
    <3> QED
      <4>1. data # 0
        BY <2>1
      <4> QED
        BY <1>9, <4>1
  <2>4. ext'.mats = [b \in Slots |-> IF b = 1 THEN 1 ELSE 0]
    BY <2>1, <2>2, <2>3
  <2> HIDE DEF data, empty
  <2>5. ext'.mats \in [Slots -> 0 .. MaxBuf]
    BY <1>3, <2>4
  <2>6. ASSUME NEW b \in Slots, ext'.mats[b] # 0 PROVE heap[ext'.mats[b]] = Meant(b)
    <3>1. b = 1 /\ ext'.mats[b] = 1
      BY <2>4, <2>6
    <3>2. QED
      BY <1>2, <1>3, <1>5, <3>1
  <2>7. Right(ext.mats, heap)'
    BY <1>1, <1>6, <1>11, <2>6 DEF Right
  <2>8. ASSUME NEW b \in Slots PROVE ext'.mats[b] # 0 \/ (b # 1 /\ Below(b) \in Slots)
    BY <1>3, <2>4, BelowFacts
  <2>9. AvailIn(Slots, ext.mats)'
    BY <1>6, <2>8 DEF AvailIn
  <2>10. Avail(ext.mats)'
    BY <2>9 DEF Avail
  <2>11. QED
    BY <1>6, <2>5, <2>7, <2>10
<1> HIDE DEF data, empty
<1>13. Extracting'
  BY <1>1, <1>7, <1>8, <1>10, <1>11, <1>12 DEF Extracting, Loadable
<1>14. NetLoaded'
  BY <1>1, <1>2 DEF NetLoaded, How
<1>15. QED
  BY <1>1, <1>2, <1>13, <1>14 DEF NetInv

LEMMA ExtractKeeps ==
  ASSUME NetInv, NEW name \in Names(file) \ {"data"}, Extract(name)
  PROVE  NetInv'
<1> DEFINE b == Index(name)
           s == IF b = 0 THEN [mats |-> ext.mats, heap |-> heap] ELSE Forward(b)
           mat == IF b = 0 THEN 0 ELSE s.mats[b]
<1>1. /\ feats # << >> /\ (ext.light => ~Consumed(name))
      /\ file' = file /\ form' = form /\ net' = net /\ trained' = trained
      /\ ext' = [ext EXCEPT !.mats = s.mats] /\ heap' = s.heap
      /\ feats' = [x \in DOMAIN feats \cup {name} |-> IF x = name THEN mat ELSE feats[x]]
  BY DEF Extract
<1>2. /\ file \in Files /\ heap \in [1 .. MaxBuf -> Values] /\ trained # 1
      /\ form \notin {"none", "gone"} /\ NetLoaded /\ Extracting
  BY <1>1 DEF NetInv
<1>3. WellFormed(file) /\ MaxBuf \in Nat
  BY <1>2, FileAssumption, MaxBufAssumption
<1>4. b = IF Loadable(file) THEN IdOf(file, name) ELSE 0
  BY <1>2, <1>3, IndexIs
<1>5. /\ FeatsType /\ "data" \in DOMAIN feats
      /\ ext = [light |-> ext.light, mats |-> ext.mats]
  BY <1>2 DEF Extracting
<1>6. /\ Meaning' = Meaning /\ Slots' = Slots
      /\ \A c : Meant(c)' = Meant(c) /\ Below(c)' = Below(c)
      /\ \A x : Consumed(x)' = Consumed(x)
  BY <1>1, FileKept
<1>7. ASSUME Loadable(file)
      PROVE  /\ s.mats \in [Slots -> 0 .. MaxBuf] /\ s.heap \in [1 .. MaxBuf -> Values]
             /\ Right(s.mats, s.heap) /\ Avail(s.mats)
             /\ mat \in 1 .. MaxBuf /\ s.heap[mat] = Meaning[name]
  <2>1. IdOf(file, name) \in Slots /\ BlobIds(file)[IdOf(file, name)] = name
    BY <1>3, Ids DEF Slots
  <2>2. b \in Slots /\ b # 0 /\ BlobIds(file)[b] = name
    <3> HIDE DEF b
    <3>1. b \in Slots /\ BlobIds(file)[b] = name
      BY <1>4, <1>7, <2>1
    <3>2. QED
      BY <3>1 DEF Slots
  <2>3. ReadyToRun
    <3>1. net.blobs = NetBlobs(file, How) /\ LayersOf(file, net.layers)
      BY <1>1, <1>2, <1>7 DEF NetLoaded
    <3>2. DOMAIN BlobIds(file) = Slots
      BY <1>3, Ids DEF Slots
    <3>3. DOMAIN net.blobs = Slots /\ \A c \in Slots : net.blobs[c].producer = Maker(file, c)
      <4> DEFINE title(c) == IF How = "text" THEN BlobIds(file)[c] ELSE ""
      <4>1. net.blobs = [c \in Slots |-> [name |-> title(c), producer |-> Maker(file, c)]]
        BY <3>1, <3>2 DEF NetBlobs
      <4> HIDE DEF title
      <4>2. QED
        BY <4>1
    <3>4. ext.mats \in [Slots -> 0 .. MaxBuf] /\ Right(ext.mats, heap) /\ Avail(ext.mats)
      BY <1>2, <1>7 DEF Extracting
    <3>5. QED
      BY <1>2, <1>5, <3>1, <3>3, <3>4 DEF ReadyToRun
  <2>4. s = Forward(b)
    <3> HIDE DEF b
    <3> QED
      BY <2>2
  <2> HIDE DEF b
  <2>5. /\ s \in States /\ Good(b, s)
        /\ \A A \in SUBSET Slots : AvailIn(A, ext.mats) /\ b \in A => s.ok
    <3> HIDE DEF s
    <3> QED
      BY <2>2, <2>3, <2>4, ForwardRuns
  <2>6. mat = s.mats[b]
    BY <2>2
  <2> HIDE DEF s, mat
  <2>7. PICK A \in SUBSET Slots : AvailIn(A, ext.mats)
    BY <2>3 DEF ReadyToRun, Avail
  <2>8. b \in A
    BY <1>1, <2>2, <2>7 DEF AvailIn
  <2>9. s.ok /\ mat # 0 /\ Right(s.mats, s.heap) /\ Avail(s.mats)
    BY <2>5, <2>6, <2>7, <2>8 DEF Good
  <2>10. s.mats \in [Slots -> 0 .. MaxBuf] /\ s.heap \in [1 .. MaxBuf -> Values]
    BY <2>5 DEF States
  <2>11. mat \in 1 .. MaxBuf
    BY <1>3, <2>2, <2>6, <2>9, <2>10
  <2>12. s.heap[mat] = Meaning[name]
    <3>1. s.heap[s.mats[b]] = Meant(b)
      BY <2>2, <2>6, <2>9 DEF Right
    <3>2. QED
      BY <2>2, <2>6, <3>1 DEF Meant
  <2>13. QED
    BY <2>9, <2>10, <2>11, <2>12
<1>8. ASSUME ~Loadable(file)
      PROVE  s.mats = ext.mats /\ s.heap = heap /\ mat = 0
  <2>1. b = 0
    <3> HIDE DEF b
    <3> QED
      BY <1>4, <1>8
  <2>2. QED
    <3> HIDE DEF b
    <3> QED
      BY <2>1
<1> HIDE DEF b, s, mat
<1>9. /\ ext' = [light |-> ext.light, mats |-> s.mats]
      /\ ext'.light = ext.light /\ ext'.mats = s.mats
  BY <1>1, <1>5
<1>10. heap' \in [1 .. MaxBuf -> Values]
  BY <1>1, <1>2, <1>7, <1>8
<1>11. mat \in 0 .. MaxBuf
  BY <1>3, <1>7, <1>8
<1>12. FeatsType'
  <2>1. feats' \in [DOMAIN feats' -> 0 .. MaxBuf]
    BY <1>1, <1>5, <1>11 DEF FeatsType
  <2>2. DOMAIN feats' \subseteq Names(file)
    BY <1>1, <1>5 DEF FeatsType
  <2>3. Names(file') = Names(file)
    BY <1>1
  <2>4. QED
    BY <2>1, <2>2, <2>3 DEF FeatsType
<1>13. "data" \in DOMAIN feats' /\ feats' # << >>
  BY <1>1, <1>5
<1>14. \A x \in DOMAIN feats : feats[x] # 0 => s.heap[feats[x]] = Meaning[x]
  BY <1>2, <1>7, <1>8 DEF Extracting, Right
<1>15. \A x \in DOMAIN feats' : feats'[x] # 0 => heap'[feats'[x]] = Meaning'[x]
  BY <1>1, <1>6, <1>7, <1>8, <1>14
<1>16. ASSUME Loadable(file)
       PROVE  /\ ext'.mats \in [Slots' -> 0 .. MaxBuf]
              /\ Right(ext.mats, heap)' /\ Avail(ext.mats)'
              /\ \A x \in DOMAIN feats' : feats'[x] # 0
  <2>1. \A x \in DOMAIN feats : feats[x] # 0
    BY <1>2, <1>16 DEF Extracting
  <2>2. \A x \in DOMAIN feats' : feats'[x] # 0
    BY <1>1, <1>7, <1>16, <2>1
  <2>3. \A c \in Slots : s.mats[c] # 0 => s.heap[s.mats[c]] = Meant(c)
    BY <1>7, <1>16 DEF Right
  <2>4. Right(ext.mats, heap)'
    BY <1>1, <1>6, <1>9, <1>15, <2>3 DEF Right
  <2>5. PICK A \in SUBSET Slots : AvailIn(A, s.mats)
    BY <1>7, <1>16 DEF Avail
  <2>6. AvailIn(A, ext.mats)'
    BY <1>1, <1>6, <1>9, <2>5 DEF AvailIn
  <2>7. Avail(ext.mats)'
    BY <1>6, <2>6 DEF Avail
  <2>8. QED
    BY <1>6, <1>7, <1>9, <1>16, <2>2, <2>4, <2>7
<1>17. Extracting'
  <2>1. ext' = [light |-> ext'.light, mats |-> ext'.mats]
    BY <1>9
  <2>2. QED
    BY <1>1, <1>12, <1>13, <1>15, <1>16, <2>1 DEF Extracting, Loadable
<1>18. NetLoaded'
  BY <1>1, <1>2 DEF NetLoaded, How
<1>19. QED
  BY <1>1, <1>2, <1>10, <1>13, <1>17, <1>18 DEF NetInv

LEMMA ExtractCrashesKeeps ==
  ASSUME NetInv, NEW name, ExtractCrashes(name)
  PROVE  NetInv'
<1>1. /\ form' = "gone" /\ net' = NoNet(0) /\ trained' = 1 /\ ext' = NoExtractor
      /\ heap' = [k \in 1 .. MaxBuf |-> <<>>] /\ feats' = << >> /\ file' = file
  BY DEF ExtractCrashes
<1>2. <<>> \in Values
  BY DEF Values
<1>3. heap' \in [1 .. MaxBuf -> Values]
  BY <1>1, <1>2
<1>4. file \in Files
  BY DEF NetInv
<1>5. QED
  BY <1>1, <1>3, <1>4 DEF NetInv, NoNet

LEMMA NetInvStep ==
  ASSUME NetInv, NetNext
  PROVE  NetInv'
BY LoadParamKeeps, LoadModelKeeps, CreateExtractorKeeps, ExtractKeeps, ExtractCrashesKeeps
   DEF NetNext

LEMMA NetInvRests ==
  ASSUME NetInv, UNCHANGED netVars
  PROVE  NetInv'
<1>1. /\ file' = file /\ form' = form /\ net' = net /\ trained' = trained /\ ext' = ext
      /\ heap' = heap /\ feats' = feats
  BY DEF netVars
<1>2. /\ Meaning' = Meaning /\ Slots' = Slots
      /\ \A c : Meant(c)' = Meant(c) /\ Below(c)' = Below(c)
      /\ \A x : Consumed(x)' = Consumed(x)
  BY <1>1, FileKept
<1>3. \A A : AvailIn(A, ext.mats)' = AvailIn(A, ext.mats)
  BY <1>1, <1>2 DEF AvailIn
<1>4. Right(ext.mats, heap)' = Right(ext.mats, heap) /\ Avail(ext.mats)' = Avail(ext.mats)
  <2>1. Right(ext.mats, heap)' = Right(ext.mats, heap)
    BY <1>1, <1>2 DEF Right
  <2>2. Avail(ext.mats)' = Avail(ext.mats)
    BY <1>2, <1>3 DEF Avail
  <2>3. QED
    BY <2>1, <2>2
<1>5. FeatsType' = FeatsType
  BY <1>1 DEF FeatsType, Names
<1>6. Extracting' = Extracting
  BY <1>1, <1>2, <1>4, <1>5 DEF Extracting, Loadable
<1>7. NetLoaded' = NetLoaded /\ How' = How
  BY <1>1 DEF NetLoaded, How
<1>8. QED
  BY <1>1, <1>6, <1>7 DEF NetInv

LEMMA NetInvAgrees == NetInv => ExtractAgrees
<1> SUFFICES ASSUME NetInv, NEW name \in DOMAIN feats
             PROVE  /\ GoodFile(file) => feats[name] # 0
                    /\ feats[name] # 0 => heap[feats[name]] = Meaning[name]
  BY DEF ExtractAgrees
<1>1. feats # << >>
  OBVIOUS
<1>2. Extracting
  BY <1>1 DEF NetInv
<1>3. GoodFile(file) => Loadable(file)
  BY DEF GoodFile, Loadable
<1>4. QED
  BY <1>2, <1>3 DEF Extracting
=============================================================================
