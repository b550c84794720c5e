---------------------------- MODULE Monitors_proofs ----------------------------
(***************************************************************************)
(* What is proved of the monitors, for any routers, sites and retention:   *)
(* that the timeline's last word stands, that an ISP is blamed with        *)
(* company, and that infos drive no warning out.                           *)
(***************************************************************************)
EXTENDS Monitors, FiniteSetTheorems, SequenceTheorems, TLAPS

---------------------------------------------------------------------------------
(***************************************************************************)
(* Enumerations.                                                           *)
(***************************************************************************)
(* A finite set has an enumeration, and SetToSeq is one.                   *)
LEMMA Enumerated ==
  ASSUME NEW S, IsFiniteSet(S)
  PROVE  /\ Cardinality(S) \in Nat
         /\ SetToSeq(S) \in [1..Cardinality(S) -> S]
         /\ SetToSeq(S) \in Seq(S)
         /\ Len(SetToSeq(S)) = Cardinality(S)
         /\ \A i, j \in 1..Cardinality(S) : SetToSeq(S)[i] = SetToSeq(S)[j] => i = j
         /\ \A x \in S : \E i \in 1..Cardinality(S) : SetToSeq(S)[i] = x
<1> DEFINE n == Cardinality(S)
           f == SetToSeq(S)
<1>1. n \in Nat /\ IsFiniteSet(1..n) /\ Cardinality(1..n) = n
  BY FS_CardinalityType, FS_Interval
<1>2. f \in [1..n -> S] /\ IsInjective(f)
  <2>1. ExistsBijection(1..n, S)
    BY FS_NatBijection, FS_CountingElements
  <2> QED
    BY <2>1 DEF SetToSeq, ExistsBijection, Bijection, Injection, IsInjective
<1>3. f \in Injection(1..n, S)
  BY <1>2 DEF Injection, IsInjective
<1>4. f \in Surjection(1..n, S)
  BY <1>1, <1>3, FS_Injection
<1>5. f \in Seq(S) /\ Len(f) = n
  BY <1>1, <1>2, SeqDef, LenProperties
<1> QED
  BY <1>1, <1>2, <1>4, <1>5 DEF IsInjective, Surjection

(* A set of numbers is ranked: what is smaller has fewer elements below.   *)
LEMMA Ranked ==
  ASSUME NEW S \in SUBSET Nat, IsFiniteSet(S)
  PROVE  \E rank \in [S -> 1..Cardinality(S)] :
           /\ \A x, y \in S : x < y => rank[x] < rank[y]
           /\ rank \in Surjection(S, 1..Cardinality(S))
<1> DEFINE n == Cardinality(S)
           below(x) == {y \in S : y <= x}
           rank == [x \in S |-> Cardinality(below(x))]
<1>1. n \in Nat /\ IsFiniteSet(1..n) /\ Cardinality(1..n) = n
  BY FS_CardinalityType, FS_Interval
<1>2. \A x \in S : x \in Nat
  OBVIOUS
<1>3. ASSUME NEW x \in S
      PROVE  /\ below(x) \in SUBSET S /\ x \in below(x) /\ IsFiniteSet(below(x))
             /\ Cardinality(below(x)) \in 1..n
  <2>1. below(x) \in SUBSET S /\ x \in below(x)
    BY <1>2
  <2> HIDE DEF below
  <2>2. IsFiniteSet(below(x)) /\ Cardinality(below(x)) <= n
    BY <2>1, FS_Subset
  <2>3. Cardinality(below(x)) \in Nat /\ Cardinality(below(x)) # 0
    BY <2>1, <2>2, FS_EmptySet, FS_CardinalityType
  <2> HIDE DEF n
  <2>4. Cardinality(below(x)) \in 1..n
    BY <1>1, <2>2, <2>3
  <2> QED
    BY <2>1, <2>2, <2>4
<1>4. ASSUME NEW x \in S, NEW y \in S, x < y
      PROVE  Cardinality(below(x)) < Cardinality(below(y))
  <2>1. x \in Nat /\ y \in Nat
    OBVIOUS
  <2>2. \A z \in S : z <= x => z <= y
    BY <1>4, <2>1, <1>2
  <2>3. below(x) \in SUBSET below(y)
    BY <2>2
  <2>4. y \in below(y) /\ y \notin below(x)
    BY <1>4, <2>1
  <2> HIDE DEF below, n
  <2>5. Cardinality(below(x)) <= Cardinality(below(y)) /\ Cardinality(below(x)) # Cardinality(below(y))
    BY <1>3, <2>3, <2>4, FS_Subset
  <2>6. Cardinality(below(x)) \in Nat /\ Cardinality(below(y)) \in Nat
    BY <1>3, <1>1
  <2> QED
    BY <2>5, <2>6
<1>5. /\ rank \in [S -> 1..n]
      /\ \A x, y \in S : x < y => rank[x] < rank[y]
  <2> HIDE DEF below, n
  <2> QED
    BY <1>3, <1>4
<1> HIDE DEF rank, n
<1>6. rank \in Injection(S, 1..n)
  <2>1. ASSUME NEW x \in S, NEW y \in S, rank[x] = rank[y] PROVE x = y
    <3>1. rank[x] \in Nat /\ rank[y] \in Nat /\ x \in Nat /\ y \in Nat
      BY <1>1, <1>2, <1>5
    <3>2. ~(x < y) /\ ~(y < x)
      BY <1>5, <2>1, <3>1
    <3> QED
      BY <3>1, <3>2
  <2> QED
    BY <1>5, <2>1 DEF Injection, IsInjective
<1>7. rank \in Surjection(S, 1..n)
  BY <1>1, <1>6, FS_Injection DEF n
<1> QED
  BY <1>5, <1>7 DEF n

(* The increasing order exists: it is the inverse of the rank.             *)
LEMMA Increasing ==
  ASSUME NEW S \in SUBSET Nat, IsFiniteSet(S)
  PROVE  LET n == Cardinality(S)
             f == InIncreasingOrder(S)
         IN /\ n \in Nat
            /\ f \in [1..n -> S]
            /\ \A i, j \in 1..n : i < j => f[i] < f[j]
            /\ \A x \in S : \E i \in 1..n : f[i] = x
<1> DEFINE n == Cardinality(S)
           g == InIncreasingOrder(S)
<1>1. n \in Nat /\ IsFiniteSet(1..n) /\ Cardinality(1..n) = n
  BY FS_CardinalityType, FS_Interval
<1>2. \A x \in S : x \in Nat
  OBVIOUS
<1>3. PICK rank \in [S -> 1..n] : /\ \A x, y \in S : x < y => rank[x] < rank[y]
                                  /\ rank \in Surjection(S, 1..n)
  BY Ranked
<1>4. \E f \in [1..n -> S] : \A i, j \in DOMAIN f : i < j => f[i] < f[j]
  <2> DEFINE f == [i \in 1..n |-> CHOOSE x \in S : rank[x] = i]
  <2>1. f \in [1..n -> S] /\ \A i \in 1..n : rank[f[i]] = i
    BY <1>3 DEF Surjection
  <2> HIDE DEF f, n
  <2>2. ASSUME NEW i \in 1..n, NEW j \in 1..n, i < j PROVE f[i] < f[j]
    <3>1. /\ f[i] \in S /\ f[j] \in S /\ rank[f[i]] = i /\ rank[f[j]] = j
      BY <2>1
    <3>2. f[i] \in Nat /\ f[j] \in Nat /\ i \in Nat /\ j \in Nat
      <4>1. i \in Nat /\ j \in Nat
        BY <1>1
      <4>2. f[i] \in Nat /\ f[j] \in Nat
        BY <1>2, <3>1, Zenon
      <4> QED
        BY <4>1, <4>2
    <3>3. f[i] # f[j]
      BY <2>2, <3>1, <3>2
    <3>4. ~(f[j] < f[i])
      BY <1>3, <2>2, <3>1, <3>2
    <3> QED
      BY <3>2, <3>3, <3>4
  <2> QED
    BY <2>1, <2>2
<1>5. g \in [1..n -> S] /\ \A i, j \in 1..n : i < j => g[i] < g[j]
  BY <1>4 DEF InIncreasingOrder
<1> HIDE DEF g, n
<1>6. g \in Injection(1..n, S)
  <2>1. ASSUME NEW i \in 1..n, NEW j \in 1..n, g[i] = g[j] PROVE i = j
    <3> DEFINE a == g[i]
               b == g[j]
    <3>0. a \in S /\ b \in S
      BY <1>5
    <3>1. a \in Nat /\ b \in Nat /\ i \in Nat /\ j \in Nat
      <4>1. i \in Nat /\ j \in Nat
        BY <1>1
      <4>2. a \in Nat /\ b \in Nat
        BY <1>2, <3>0, Zenon
      <4> QED
        BY <4>1, <4>2
    <3>2. ~(i < j) /\ ~(j < i)
      BY <1>5, <2>1, <3>1
    <3> QED
      BY <3>1, <3>2
  <2> QED
    BY <1>5, <2>1 DEF Injection, IsInjective
<1>7. g \in Surjection(1..n, S)
  BY <1>1, <1>6, FS_Injection DEF n
<1> QED
  BY <1>1, <1>5, <1>7 DEF Surjection, g, n

(* A finite set of numbers that is not empty has a least one. *)
LEMMA Least ==
  ASSUME NEW S \in SUBSET Nat, IsFiniteSet(S), S # {}
  PROVE  \E x \in S : \A y \in S : x <= y
<1> DEFINE n == Cardinality(S)
           f == InIncreasingOrder(S)
<1>1. /\ n \in Nat /\ f \in [1..n -> S]
      /\ \A i, j \in 1..n : i < j => f[i] < f[j]
      /\ \A x \in S : \E i \in 1..n : f[i] = x
  BY Increasing
<1> HIDE DEF n, f
<1>2. 1 \in 1..n
  <2>1. PICK y \in S : TRUE
    OBVIOUS
  <2>2. PICK i \in 1..n : f[i] = y
    BY <1>1
  <2> QED
    BY <1>1, <2>2
<1>3. f[1] \in S
  BY <1>1, <1>2
<1>4. ASSUME NEW y \in S PROVE f[1] <= y
  <2>1. PICK i \in 1..n : f[i] = y
    BY <1>1
  <2>2. f[1] \in Nat /\ y \in Nat
    BY <1>3, Zenon
  <2> QED
    BY <1>1, <1>2, <2>1, <2>2
<1> QED
  BY <1>3, <1>4

---------------------------------------------------------------------------------
(***************************************************************************)
(* The retention of a timeline.                                            *)
(***************************************************************************)
(* The newest event always lasts, and so does an important one.            *)
LEMMA LastingIndices ==
  ASSUME setup \in Setups, NEW T, NEW t \in Seq(T), t # <<>>
  PROVE  /\ Lasting(t) \in SUBSET (1..Len(t)) /\ Lasting(t) \in SUBSET Nat
         /\ IsFiniteSet(Lasting(t))
         /\ Len(t) \in Lasting(t)
         /\ Important(t[1]) => 1 \in Lasting(t)
<1> DEFINE n == Len(t)
<1>1. n \in Nat /\ n # 0 /\ DOMAIN t = 1..n /\ IsFiniteSet(1..n)
  BY LenProperties, EmptySeq, FS_Interval
<1>2. Lasting(t) \in SUBSET (1..n) /\ Lasting(t) \in SUBSET Nat
  BY <1>1 DEF Lasting
<1>3. IsFiniteSet(Lasting(t))
  BY <1>1, <1>2, FS_Subset
<1>4. n \in Lasting(t)
  <2>1. InfosAfter(t, n) = {}
    BY <1>1 DEF InfosAfter
  <2>2. Cardinality(InfosAfter(t, n)) < setup.infos
    BY <2>1, FS_EmptySet, SetupsAssumption
  <2> QED
    BY <1>1, <2>2 DEF Lasting
<1> QED
  BY <1>1, <1>2, <1>3, <1>4 DEF Lasting

(* What lasts, before the timeline is cut to its length: a subsequence     *)
(* with at most setup.infos infos at its end, however much of it is taken. *)
LEMMA LastingEvents ==
  ASSUME setup \in Setups, NEW T, NEW t \in Seq(T), t # <<>>
  PROVE  LET f == InIncreasingOrder(Lasting(t))
             k == [i \in DOMAIN f |-> t[f[i]]]
         IN /\ k \in Seq(T) /\ Len(k) \in Nat /\ Len(k) # 0
            /\ k[Len(k)] = t[Len(t)]
            /\ Important(t[1]) => k[1] = t[1]
            /\ \A N \in SUBSET (1..Len(k)) :
                 (\A i \in N : ~Important(k[i])) => Cardinality(N) <= setup.infos
<1> DEFINE I == Lasting(t)
           c == Cardinality(I)
           f == InIncreasingOrder(I)
           k == [i \in DOMAIN f |-> t[f[i]]]
           n == Len(t)
<1>1. /\ I \in SUBSET (1..n) /\ I \in SUBSET Nat /\ IsFiniteSet(I) /\ n \in I
      /\ Important(t[1]) => 1 \in I
  BY LastingIndices
<1>2. n \in Nat /\ DOMAIN t = 1..n /\ \A i \in 1..n : t[i] \in T
  BY LenProperties, ElementOfSeq
<1>3. /\ c \in Nat /\ f \in [1..c -> I]
      /\ \A i, j \in 1..c : i < j => f[i] < f[j]
      /\ \A x \in I : \E i \in 1..c : f[i] = x
  BY <1>1, Increasing
<1> HIDE DEF I, c, f, n
<1>4. \A i \in 1..c : f[i] \in I /\ f[i] \in Nat /\ f[i] \in 1..n
  BY <1>1, <1>3
<1>5. k \in Seq(T) /\ Len(k) = c /\ \A i \in 1..c : k[i] = t[f[i]]
  <2>1. k \in [1..c -> T]
    BY <1>2, <1>3, <1>4
  <2> QED
    BY <1>3, <2>1, SeqDef, LenProperties
<1>6. c # 0 /\ f[c] = n
  <2>1. PICK j \in 1..c : f[j] = n
    BY <1>1, <1>3
  <2>2. c \in 1..c /\ j \in Nat
    BY <1>3, <2>1
  <2>3. ~(j < c)
    <3> SUFFICES ASSUME j < c PROVE FALSE
      OBVIOUS
    <3>1. n < f[c] /\ f[c] \in 1..n
      BY <1>3, <1>4, <2>1, <2>2
    <3> QED
      BY <1>2, <3>1
  <2>4. j = c
    BY <1>3, <2>1, <2>2, <2>3
  <2> QED
    BY <1>3, <2>1, <2>2, <2>4
<1>7. 1 \in I => f[1] = 1
  <2> SUFFICES ASSUME 1 \in I PROVE f[1] = 1
    OBVIOUS
  <2>1. PICK j \in 1..c : f[j] = 1
    BY <1>3
  <2>2. 1 \in 1..c /\ j \in Nat
    BY <1>3, <1>6, <2>1
  <2>3. ~(1 < j)
    <3> SUFFICES ASSUME 1 < j PROVE FALSE
      OBVIOUS
    <3>1. f[1] < 1 /\ f[1] \in 1..n
      BY <1>3, <1>4, <2>1, <2>2
    <3> QED
      BY <1>2, <3>1
  <2> QED
    BY <1>3, <2>1, <2>2, <2>3
<1>8. ASSUME NEW N \in SUBSET (1..c), \A i \in N : ~Important(k[i])
      PROVE  Cardinality(N) <= setup.infos
  <2>1. IsFiniteSet(N) /\ N \in SUBSET Nat /\ Cardinality(N) \in Nat
    <3>1. IsFiniteSet(1..c) /\ N \in SUBSET Nat
      BY <1>3, FS_Interval
    <3> QED
      BY <3>1, FS_Subset, FS_CardinalityType
  <2>2. CASE N = {}
    BY <2>2, FS_EmptySet, SetupsAssumption
  <2>3. CASE N # {}
    <3>1. PICK l \in N : \A i \in N : l <= i
      BY <2>1, <2>3, Least
    <3> DEFINE after == InfosAfter(t, f[l])
               M == N \ {l}
               g == [i \in M |-> f[i]]
    <3>2. IsFiniteSet(after) /\ Cardinality(after) \in Nat /\ Cardinality(after) < setup.infos
      <4>1. after \in SUBSET (1..n)
        BY <1>2 DEF InfosAfter
      <4>2. ~Important(t[f[l]]) /\ f[l] \in I
        BY <1>4, <1>5, <1>8, <3>1
      <4>3. Cardinality(after) < setup.infos
        BY <4>2 DEF I, Lasting
      <4>4. IsFiniteSet(1..n)
        BY <1>2, FS_Interval
      <4> HIDE DEF after
      <4> QED
        BY <4>1, <4>3, <4>4, FS_Subset, FS_CardinalityType
    <3>3. g \in Injection(M, after)
      <4>1. ASSUME NEW i \in M PROVE f[i] \in after
        <5>1. i \in 1..c /\ l \in 1..c /\ l < i
          BY <1>3, <3>1
        <5>2. f[l] < f[i] /\ f[i] \in 1..n /\ ~Important(t[f[i]])
          BY <1>3, <1>4, <1>5, <1>8, <5>1
        <5> QED
          BY <1>2, <5>2 DEF InfosAfter
      <4>2. ASSUME NEW i \in M, NEW j \in M, g[i] = g[j] PROVE i = j
        <5>1. i \in 1..c /\ j \in 1..c /\ f[i] = f[j] /\ f[i] \in Nat
          BY <1>4, <4>2
        <5>2. ~(i < j) /\ ~(j < i)
          BY <1>3, <5>1
        <5> QED
          BY <1>3, <5>1, <5>2
      <4> HIDE DEF after, M
      <4> QED
        BY <4>1, <4>2 DEF Injection, IsInjective
    <3>4. Cardinality(M) <= Cardinality(after)
      BY <3>2, <3>3, FS_Injection
    <3>5. Cardinality(M) = Cardinality(N) - 1
      BY <2>1, <3>1, FS_RemoveElement
    <3> HIDE DEF after, M
    <3> QED
      BY <2>1, <3>2, <3>4, <3>5, SetupsAssumption
  <2> QED
    BY <2>2, <2>3
<1>9. k[Len(k)] = t[n] /\ (Important(t[1]) => k[1] = t[1])
  <2>1. c \in 1..c /\ 1 \in 1..c
    BY <1>3, <1>6
  <2> HIDE DEF k
  <2> QED
    BY <1>1, <1>5, <1>6, <1>7, <2>1
<1>10. /\ k \in Seq(T) /\ Len(k) \in Nat /\ Len(k) # 0
       /\ \A N \in SUBSET (1..Len(k)) :
            (\A i \in N : ~Important(k[i])) => Cardinality(N) <= setup.infos
  <2> HIDE DEF k
  <2> QED
    BY <1>3, <1>5, <1>6, <1>8
<1> QED
  BY <1>9, <1>10 DEF I, f, n

(* What retention leaves ends with the newest event; it begins as before,  *)
(* if that was with an important one, or is full and has few infos.        *)
LEMMA Retained ==
  ASSUME setup \in Setups, NEW T, NEW t \in Seq(T), t # <<>>
  PROVE  LET u == Retain(t)
         IN /\ u \in Seq(T) /\ u # <<>> /\ Last(u) = t[Len(t)]
            /\ Important(t[1]) =>
                 \/ u[1] = t[1]
                 \/ Cardinality({i \in DOMAIN u : Important(u[i])}) >= setup.rows - setup.infos
<1> DEFINE f == InIncreasingOrder(Lasting(t))
           k == [i \in DOMAIN f |-> t[f[i]]]
           c == Len(k)
           u == Newest(k, setup.rows)
<1>1. /\ k \in Seq(T) /\ c \in Nat /\ c # 0
      /\ k[c] = t[Len(t)]
      /\ Important(t[1]) => k[1] = t[1]
      /\ \A N \in SUBSET (1..c) : (\A i \in N : ~Important(k[i])) => Cardinality(N) <= setup.infos
  BY LastingEvents
<1>2. u = Retain(t)
  BY DEF Retain
<1> HIDE DEF k
<1>3. CASE c <= setup.rows
  <2>1. u = k
    BY <1>3 DEF Newest
  <2>2. u # <<>>
    BY <1>1, <2>1, EmptySeq
  <2> HIDE DEF u
  <2> QED
    BY <1>1, <1>2, <2>1, <2>2 DEF Last
<1>4. CASE ~(c <= setup.rows)
  <2> DEFINE r == setup.rows
             m == c - r + 1
  <2>1. r \in Nat /\ r # 0 /\ setup.infos \in Nat
    BY SetupsAssumption
  <2>2. m \in 1..c /\ c - m + 1 = r
    <3>1. c \in Nat /\ r \in Nat /\ r # 0 /\ r < c
      BY <1>1, <1>4, <2>1
    <3> HIDE DEF c, r
    <3> QED
      BY <3>1
  <2>3. u = SubSeq(k, m, c)
    BY <1>4 DEF Newest
  <2> HIDE DEF r, m
  <2>4. \A i \in m..c : k[i] \in T
    BY <1>1, <2>2, ElementOfSeq
  <2>5. /\ u \in Seq(T) /\ Len(u) = r /\ \A i \in 1..r : u[i] = k[m + i - 1]
    <3> HIDE DEF u
    <3> QED
      BY <1>1, <2>2, <2>3, <2>4, SubSeqProperties
  <2> HIDE DEF u
  <2>6. u # <<>> /\ Last(u) = k[c]
    <3>1. r \in 1..r /\ m + r - 1 = c
      BY <1>1, <2>1, <2>2
    <3> QED
      BY <2>1, <2>5, <3>1, EmptySeq DEF Last
  <2>7. Cardinality({i \in DOMAIN u : Important(u[i])}) >= r - setup.infos
    <3> DEFINE A == {i \in 1..r : Important(u[i])}
               B == {i \in 1..r : ~Important(u[i])}
               N == {i \in 1..c : i >= m /\ ~Important(k[i])}
               g == [i \in B |-> m + i - 1]
    <3>1. DOMAIN u = 1..r /\ IsFiniteSet(1..r) /\ Cardinality(1..r) = r
      BY <2>1, <2>5, LenProperties, FS_Interval
    <3>2. N \in SUBSET (1..c) /\ IsFiniteSet(N) /\ Cardinality(N) \in Nat /\ Cardinality(N) <= setup.infos
      <4>1. N \in SUBSET (1..c) /\ IsFiniteSet(1..c) /\ \A i \in N : ~Important(k[i])
        BY <1>1, FS_Interval
      <4> HIDE DEF N
      <4> QED
        BY <1>1, <4>1, FS_Subset, FS_CardinalityType
    <3>3. g \in Injection(B, N)
      <4>1. ASSUME NEW i \in B PROVE m + i - 1 \in N
        BY <1>1, <2>1, <2>2, <2>5
      <4>2. \A i, j \in B : m + i - 1 = m + j - 1 => i = j
        BY <2>1, <2>2
      <4> HIDE DEF B, N
      <4> QED
        BY <4>1, <4>2 DEF Injection, IsInjective
    <3>4. B \in SUBSET (1..r) /\ A = (1..r) \ B
      OBVIOUS
    <3> HIDE DEF A, B, N
    <3>5. Cardinality(B) <= setup.infos /\ Cardinality(B) \in Nat
      <4>1. IsFiniteSet(B) /\ Cardinality(B) <= Cardinality(N)
        BY <3>2, <3>3, FS_Injection
      <4> QED
        BY <2>1, <3>2, <4>1, FS_CardinalityType
    <3>6. Cardinality(A) = r - Cardinality(B)
      <4>1. (1..r) \cap B = B
        BY <3>4
      <4>2. Cardinality((1..r) \ B) = Cardinality(1..r) - Cardinality((1..r) \cap B)
        BY <3>1, FS_Difference
      <4> QED
        BY <3>1, <3>4, <4>1, <4>2
    <3>7. {i \in DOMAIN u : Important(u[i])} = A
      BY <3>1 DEF A
    <3>8. Cardinality(A) >= r - setup.infos
      BY <2>1, <3>5, <3>6
    <3> QED
      BY <3>7, <3>8
  <2> QED
    BY <1>1, <1>2, <2>5, <2>6, <2>7 DEF r
<1> QED
  BY <1>3, <1>4

---------------------------------------------------------------------------------
(***************************************************************************)
(* The timelines.                                                          *)
(***************************************************************************)
Entries(R, V, S) == [row : R, value : V, severity : S, fresh : BOOLEAN, alert : Statuses \union {"none"}]
Timeline(s) == \E R, V, S : s \in Seq(Entries(R, V, S))

LogOK ==
  /\ setup \in Setups
  /\ log = [o \in Routers \union {"router"} |-> log[o]]
  /\ \A o \in Routers \union {"router"} : Timeline(log[o])

(* A timeline that has at most lost events, the older ones.                *)
EndsAs(t, s) ==
  t # <<>> => s # <<>> /\ Last(t).row = Last(s).row /\ Last(t).value = Last(s).value

(* Events may be marked, as old or by the queue, without ceasing to say    *)
(* what they say.                                                          *)
LEMMA Marked ==
  ASSUME NEW R, NEW V, NEW S, NEW s \in Seq(Entries(R, V, S)),
         NEW t \in [DOMAIN s -> Entries(R, V, S)],
         \A i \in DOMAIN s : t[i].row = s[i].row /\ t[i].value = s[i].value
  PROVE  Timeline(t) /\ EndsAs(t, s)
<1>1. DOMAIN s = 1..Len(s) /\ Len(s) \in Nat
  BY LenProperties
<1>2. t \in Seq(Entries(R, V, S)) /\ Len(t) = Len(s)
  <2>1. t \in Seq(Entries(R, V, S))
    BY <1>1, SeqDef
  <2> QED
    BY <1>1, <2>1, LenProperties
<1>3. t # <<>> => s # <<>> /\ Len(s) \in DOMAIN s
  <2> SUFFICES ASSUME t # <<>> PROVE s # <<>> /\ Len(s) \in DOMAIN s
    OBVIOUS
  <2>1. Len(t) # 0
    BY <1>2, EmptySeq
  <2> QED
    BY <1>1, <1>2, <2>1, EmptySeq
<1> QED
  BY <1>2, <1>3 DEF Timeline, EndsAs, Last

(* An event that is recorded becomes the last word, or was it already.     *)
LEMMA RecordedIsLast ==
  ASSUME setup \in Setups, NEW s, Timeline(s), NEW e
  PROVE  LET u == Recorded(s, e)
         IN /\ Timeline(u) /\ u # <<>>
            /\ Last(u).row = e.row /\ Last(u).value = e.value
            /\ s # <<>> /\ Important(Head(s)) =>
                 \/ Head(u) = Head(s)
                 \/ Cardinality({i \in DOMAIN u : Important(u[i])}) >= setup.rows - setup.infos
<1>1. CASE Repeats(s, e)
  BY <1>1 DEF Recorded, Repeats, Same
<1>2. CASE ~Repeats(s, e)
  <2> DEFINE x == [row |-> e.row, value |-> e.value, severity |-> e.severity, fresh |-> TRUE, alert |-> "none"]
             t == Append(s, x)
             u == Retain(t)
  <2>1. PICK R, V, S : s \in Seq(Entries(R, V, S))
    BY DEF Timeline
  <2> DEFINE R2 == R \union {e.row}
             V2 == V \union {e.value}
             S2 == S \union {e.severity}
  <2>2. s \in Seq(Entries(R2, V2, S2)) /\ x \in Entries(R2, V2, S2)
    <3>1. /\ R \subseteq R2 /\ V \subseteq V2 /\ S \subseteq S2
          /\ e.row \in R2 /\ e.value \in V2 /\ e.severity \in S2
      OBVIOUS
    <3> HIDE DEF R2, V2, S2
    <3>2. Entries(R, V, S) \subseteq Entries(R2, V2, S2)
      BY <3>1 DEF Entries
    <3>3. x \in Entries(R2, V2, S2)
      BY <3>1 DEF Entries
    <3> QED
      BY <2>1, <3>2, <3>3, SeqMonotonic
  <2> DEFINE E == Entries(R2, V2, S2)
  <2> HIDE DEF x, E
  <2>3. /\ t \in Seq(E) /\ Len(t) = Len(s) + 1 /\ t[Len(t)] = x /\ t # <<>>
        /\ s # <<>> => t[1] = s[1] /\ Head(s) = s[1]
    <3>1. s \in Seq(E) /\ x \in E
      BY <2>2 DEF E
    <3>2. Len(s) \in Nat /\ (s # <<>> => Len(s) # 0)
      BY <3>1, LenProperties, EmptySeq
    <3>3. t \in Seq(E) /\ Len(t) = Len(s) + 1 /\ t[Len(s) + 1] = x
      BY <3>1, AppendProperties
    <3>4. t # <<>>
      BY <3>2, <3>3, EmptySeq
    <3>5. s # <<>> => t[1] = s[1] /\ Head(s) = s[1]
      BY <3>1, <3>2, AppendProperties
    <3> HIDE DEF t
    <3> QED
      BY <3>3, <3>4, <3>5
  <2> HIDE DEF t
  <2>4. /\ u \in Seq(E) /\ u # <<>> /\ Last(u) = x
        /\ Important(t[1]) =>
             \/ u[1] = t[1]
             \/ Cardinality({i \in DOMAIN u : Important(u[i])}) >= setup.rows - setup.infos
    BY <2>3, Retained
  <2>5. u = Recorded(s, e)
    BY <1>2 DEF Recorded, t, x
  <2> HIDE DEF u
  <2>6. Timeline(u) /\ Head(u) = u[1]
    BY <2>4 DEF Timeline, E
  <2>7. x.row = e.row /\ x.value = e.value
    BY DEF x
  <2> QED
    BY <2>3, <2>4, <2>5, <2>6, <2>7
<1> QED
  BY <1>1, <1>2

(* Every step keeps the timelines, and only Say gives one a new last word. *)
LEMMA LogSteps ==
  ASSUME LogOK, [Next]_vars
  PROVE  /\ LogOK'
         /\ \A o \in Routers \union {"router"} :
              EndsAs(log'[o], log[o]) \/ (Say /\ o = Head(pass.says).owner)
         /\ Say => LET h == Head(pass.says)
                   IN log' = [log EXCEPT ![h.owner] = Recorded(@, h.event)]
<1> DEFINE O == Routers \union {"router"}
<1>1. setup \in Setups /\ log = [o \in O |-> log[o]] /\ \A o \in O : Timeline(log[o])
  BY DEF LogOK
<1>2. setup' = setup
  BY DEF Next, vars, Start, Store, Say, SelfLock, Cut, Sync, Age, Update, Cleanup
<1> HIDE DEF O
<1> DEFINE Goal(o) == Timeline(log'[o]) /\ EndsAs(log'[o], log[o])
<1>3. \A o \in O : EndsAs(log[o], log[o])
  BY DEF EndsAs
<1>4. CASE UNCHANGED log
  BY <1>1, <1>2, <1>3, <1>4 DEF LogOK, O, Say
<1>5. CASE Say
  <2> DEFINE h == Head(pass.says)
  <2>1. log' = [log EXCEPT ![h.owner] = Recorded(@, h.event)]
    BY <1>5 DEF Say
  <2> HIDE DEF h
  <2>2. log' = [o \in O |-> log'[o]]
    BY <1>1, <2>1
  <2>3. \A o \in O : Timeline(log'[o])
    <3> TAKE o \in O
    <3>1. CASE o = h.owner
      <4>1. log'[o] = Recorded(log[o], h.event)
        BY <1>1, <2>1, <3>1
      <4> QED
        BY <1>1, <4>1, RecordedIsLast
    <3>2. CASE o # h.owner
      BY <1>1, <2>1, <3>2
    <3> QED
      BY <3>1, <3>2
  <2>4. \A o \in O : o # h.owner => log'[o] = log[o]
    BY <1>1, <2>1
  <2> QED
    BY <1>2, <1>3, <1>5, <2>1, <2>2, <2>3, <2>4 DEF LogOK, O, h
<1>6. ASSUME Sync \/ Age \/ \E o \in DOMAIN log : Update(o) \/ Cleanup(o)
      PROVE  log' = [o \in O |-> log'[o]] /\ \A o \in O : Goal(o)
  <2>1. CASE Sync
    <3>1. log' = [o \in O |-> [i \in DOMAIN log[o] |-> Queued(log[o][i])]]
      BY <1>1, <2>1 DEF Sync
    <3>2. ASSUME NEW o \in O PROVE Goal(o)
      <4>1. PICK R, V, S : log[o] \in Seq(Entries(R, V, S))
        BY <1>1 DEF Timeline
      <4>2. \A i \in DOMAIN log[o] : log[o][i] \in Entries(R, V, S)
        BY <4>1, LenProperties, ElementOfSeq
      <4>3. /\ log'[o] \in [DOMAIN log[o] -> Entries(R, V, S)]
            /\ \A i \in DOMAIN log[o] : log'[o][i].row = log[o][i].row /\ log'[o][i].value = log[o][i].value
        <5>1. ASSUME NEW i \in DOMAIN log[o]
              PROVE  LET e == log[o][i]
                     IN Queued(e) \in Entries(R, V, S) /\ Queued(e).row = e.row /\ Queued(e).value = e.value
          <6>1. log[o][i] \in Entries(R, V, S)
            BY <4>2
          <6> HIDE DEF O
          <6>2. "new" \in Statuses
            BY DEF Statuses
          <6> QED
            BY <6>1, <6>2 DEF Entries, Queued
        <5> QED
          BY <3>1, <5>1
      <4> QED
        BY <4>1, <4>3, Marked
    <3> QED
      BY <3>1, <3>2
  <2>2. CASE Age
    <3>1. log' = [o \in O |-> [i \in DOMAIN log[o] |-> [log[o][i] EXCEPT !.fresh = FALSE]]]
      BY <1>1, <2>2 DEF Age
    <3>2. ASSUME NEW o \in O PROVE Goal(o)
      <4>1. PICK R, V, S : log[o] \in Seq(Entries(R, V, S))
        BY <1>1 DEF Timeline
      <4>2. \A i \in DOMAIN log[o] : log[o][i] \in Entries(R, V, S)
        BY <4>1, LenProperties, ElementOfSeq
      <4>3. /\ log'[o] \in [DOMAIN log[o] -> Entries(R, V, S)]
            /\ \A i \in DOMAIN log[o] : log'[o][i].row = log[o][i].row /\ log'[o][i].value = log[o][i].value
        BY <3>1, <4>2 DEF Entries
      <4> QED
        BY <4>1, <4>3, Marked
    <3> QED
      BY <3>1, <3>2
  <2>3. ASSUME NEW p \in O, Update(p) PROVE log' = [o \in O |-> log'[o]] /\ \A o \in O : Goal(o)
    <3>1. CASE UNCHANGED log
      BY <1>1, <1>3, <3>1
    <3>2. ASSUME NEW j \in DOMAIN log[p], NEW s \in Statuses, log' = [log EXCEPT ![p][j].alert = s]
          PROVE  log' = [o \in O |-> log'[o]] /\ \A o \in O : Goal(o)
      <4>1. PICK R, V, S : log[p] \in Seq(Entries(R, V, S))
        BY <1>1 DEF Timeline
      <4>2. /\ log[p] \in [DOMAIN log[p] -> Entries(R, V, S)]
            /\ \A i \in DOMAIN log[p] : log[p][i] \in Entries(R, V, S)
        BY <4>1, LenProperties, ElementOfSeq
      <4>3. log' = [o \in O |-> log'[o]] /\ \A o \in O : o # p => log'[o] = log[o]
        BY <1>1, <3>2
      <4>4. log'[p] = [log[p] EXCEPT ![j].alert = s]
        BY <1>1, <3>2
      <4>6. /\ log'[p] \in [DOMAIN log[p] -> Entries(R, V, S)]
            /\ \A i \in DOMAIN log[p] : log'[p][i].row = log[p][i].row /\ log'[p][i].value = log[p][i].value
        BY <4>2, <4>4 DEF Entries
      <4>7. Goal(p)
        BY <4>1, <4>6, Marked
      <4> QED
        BY <1>1, <1>3, <4>3, <4>7
    <3> QED
      BY <2>3, <3>1, <3>2 DEF Update
  <2>4. ASSUME NEW p \in O, Cleanup(p) PROVE log' = [o \in O |-> log'[o]] /\ \A o \in O : Goal(o)
    <3>1. log[p] # <<>> /\ log' = [log EXCEPT ![p] = Tail(@)]
      BY <2>4 DEF Cleanup
    <3>2. PICK R, V, S : log[p] \in Seq(Entries(R, V, S))
      BY <1>1 DEF Timeline
    <3> DEFINE s == log[p]
               t == Tail(s)
    <3>3. /\ t \in Seq(Entries(R, V, S)) /\ Len(t) = Len(s) - 1 /\ Len(s) \in Nat
          /\ \A i \in 1..Len(t) : t[i] = s[i + 1]
      BY <3>1, <3>2, HeadTailProperties, LenProperties
    <3>4. log'[p] = t /\ log' = [o \in O |-> log'[o]] /\ \A o \in O : o # p => log'[o] = log[o]
      BY <1>1, <3>1
    <3>5. EndsAs(t, s)
      <4> SUFFICES ASSUME t # <<>> PROVE Last(t) = Last(s)
        BY <3>1 DEF EndsAs
      <4>1. Len(t) # 0
        BY <3>3, EmptySeq
      <4> HIDE DEF s, t
      <4>2. Len(t) \in 1..Len(t) /\ Len(t) + 1 = Len(s)
        BY <3>3, <4>1
      <4> QED
        BY <3>3, <4>2 DEF Last
    <3>6. Goal(p)
      BY <3>3, <3>4, <3>5 DEF Timeline
    <3> QED
      BY <1>1, <1>3, <3>4, <3>6
  <2> QED
    BY <1>1, <1>6, <2>1, <2>2, <2>3, <2>4
<1>7. CASE Sync \/ Age \/ \E o \in DOMAIN log : Update(o) \/ Cleanup(o)
  BY <1>1, <1>2, <1>4, <1>5, <1>6, <1>7 DEF LogOK, O
<1>8. CASE Start \/ Store \/ SelfLock \/ Cut \/ UNCHANGED vars
  BY <1>4, <1>8 DEF Start, Store, SelfLock, Cut, vars
<1> QED
  BY <1>5, <1>7, <1>8 DEF Next

(* The first timelines are well formed. *)
LEMMA InitLog == Init => LogOK
<1> SUFFICES ASSUME Init PROVE LogOK
  OBVIOUS
<1>1. Timeline(<<>>)
  BY EmptySeq DEF Timeline
<1> QED
  BY <1>1 DEF Init, LogOK

(* The timelines are sequences of events, whatever the monitors found.     *)
THEOREM TypeCorrect == Spec => []LogOK
<1> QED
  BY InitLog, LogSteps, PTL DEF Spec

(* An info that is recorded never drives an important event out of the     *)
(* timeline unless the timeline is full of important ones but for the      *)
(* infos that are kept, for any limits.                                    *)
THEOREM ImportantEventsSurvive == Spec => ImportantSurvive
<1> DEFINE Survives ==
      \A o \in DOMAIN log :
        Say /\ log[o] # <<>> /\ Important(Head(log[o])) /\ log'[o] # log[o] =>
          \/ log'[o] # <<>> /\ Head(log'[o]) = Head(log[o])
          \/ Cardinality({i \in DOMAIN log'[o] : Important(log'[o][i])}) >= setup.rows - setup.infos
<1>1. ASSUME LogOK, [Next]_vars PROVE Survives
  <2> SUFFICES ASSUME NEW o \in DOMAIN log, Say, log[o] # <<>>, Important(Head(log[o])), log'[o] # log[o]
               PROVE  \/ log'[o] # <<>> /\ Head(log'[o]) = Head(log[o])
                      \/ Cardinality({i \in DOMAIN log'[o] : Important(log'[o][i])}) >= setup.rows - setup.infos
    OBVIOUS
  <2> DEFINE h == Head(pass.says)
  <2>1. setup \in Setups /\ Timeline(log[o])
    BY <1>1 DEF LogOK
  <2>2. log' = [log EXCEPT ![h.owner] = Recorded(@, h.event)]
    BY <1>1, LogSteps
  <2> HIDE DEF h
  <2>3. log'[o] = Recorded(log[o], h.event)
    BY <2>2
  <2> QED
    BY <2>1, <2>3, RecordedIsLast
<1>2. LogOK /\ [Next]_vars => [Survives]_vars
  BY <1>1
<1> QED
  BY <1>2, TypeCorrect, PTL DEF Spec, ImportantSurvive

---------------------------------------------------------------------------------
(***************************************************************************)
(* The invariant of the monitors of Turning.                               *)
(***************************************************************************)
OwnerOf(row) == IF family = "outage_classification" THEN row ELSE "router"

(* The verdicts and rows of the monitors of Turning.                       *)
Judged(row, v) ==
  /\ family \in Graded => v # Absent
  /\ family = "cross-site" => v \in BOOLEAN
  /\ family = "outage_classification" => row \in Routers /\ v \in Domains
Kept(row, v) ==
  /\ v # Absent
  /\ family = "resource" => v \in BOOLEAN
  /\ family = "outage_classification" => row \in Routers /\ v \in Domains

(* What is stored has been told of, rightly or not. *)
Held ==
  /\ DOMAIN told = DOMAIN stored
  /\ \A row \in DOMAIN stored : Kept(row, stored[row])

(* What a pass is about to write, and what it is about to say. *)
ToWrite ==
  /\ \A i \in 1..Len(pass.writes) :
       /\ IsFiniteSet(DOMAIN pass.writes[i])
       /\ \A row \in DOMAIN pass.writes[i] : Judged(row, pass.writes[i][row])
  /\ family = "capacity" =>
       Len(pass.writes) <= 1 /\ (pass.writes # <<>> => pass.before = stored)
Says(h) ==
  /\ h.event.row \in DOMAIN stored
  /\ h.event.value = stored[h.event.row]
  /\ h.owner = OwnerOf(h.event.row)
ToSay == \A i \in 1..Len(pass.says) : Says(pass.says[i])

(* An assessment of a fleet: the rows up to k are its own, the others are left. *)
Order(fleet) == SetToSeq(fleet)
Assessing(fleet, f, k) ==
  /\ Len(pass.writes) = Cardinality(fleet) - k + 1
  /\ \A i \in 1..Len(pass.writes) :
       pass.writes[i] = Reading(Order(fleet)[k + i - 1], OutageDomain(f, Order(fleet)[k + i - 1]))
  /\ \A i \in 1..(k - 1) :
       Order(fleet)[i] \in DOMAIN stored /\ stored[Order(fleet)[i]] = OutageDomain(f, Order(fleet)[i])
  /\ \A i \in k..Cardinality(fleet) :
       OutageDomain(f, Order(fleet)[i]) = "unknown" => Stored(stored, Order(fleet)[i]) \in {Absent, "unknown"}
  /\ assessed = {Order(fleet)[i] : i \in 1..(k - 1)}
Assessment == \E fleet \in SUBSET Routers : \E f \in OutageSamples(fleet), k \in 1..Cardinality(fleet) :
                Assessing(fleet, f, k)
Outages ==
  family = "outage_classification" =>
    /\ pass.writes # <<>> => Assessment
    /\ pass.writes = <<>> /\ assessed # {} =>
         /\ assessed \subseteq Routers \intersect DOMAIN stored
         /\ \E f \in OutageSamples(assessed) : \A r \in assessed : stored[r] = OutageDomain(f, r)

(* The last event of a timeline is the last word about its row. *)
LastWord(o) ==
  log[o] # <<>> =>
    LET e == Last(log[o])
    IN e.row \in DOMAIN told /\ told[e.row] = e.value /\ OwnerOf(e.row) = o

Words ==
  /\ \A row \in DOMAIN stored \ unsaid :
       Agree(row) \/ \E i \in 1..Len(pass.says) : pass.says[i].event.row = row
  /\ \A o \in Routers \union {"router"} : LastWord(o)

PassTyped ==
  /\ pass = [writes |-> pass.writes, before |-> pass.before, says |-> pass.says]
  /\ \E T : pass.writes \in Seq(T)
  /\ \E T : pass.says \in Seq(T)

Consistent == PassTyped /\ Held /\ ToWrite /\ ToSay /\ Outages /\ Words
MonitorInv == family \in Turning => Consistent

(* The reading of a monitor that has one row.                              *)
LEMMA AloneIsOne ==
  ASSUME NEW V, NEW w \in Alone(V), Present(Alone(V))
  PROVE  /\ \E T : w \in Seq(T)
         /\ Len(w) = 1
         /\ \A i \in 1..Len(w) : /\ IsFiniteSet(DOMAIN w[i])
                                 /\ \A row \in DOMAIN w[i] : w[i][row] # Absent
<1>1. PICK v \in V : w = <<Reading("router", v)>>
  BY DEF Alone
<1> DEFINE x == Reading("router", v)
<1>2. DOMAIN x = {"router"} /\ x["router"] = v
  BY DEF Reading
<1> HIDE DEF x
<1>3. w \in Seq({x}) /\ Len(w) = 1 /\ w[1] = x /\ DOMAIN w = {1}
  BY <1>1 DEF x
<1>4. IsFiniteSet(DOMAIN w[1])
  BY <1>2, <1>3, FS_Singleton
<1>5. \A row \in DOMAIN w[1] : w[1][row] # Absent
  BY <1>2, <1>3 DEF Present, Range
<1> QED
  BY <1>3, <1>4, <1>5

(* A set given by its elements is finite.                                  *)
LEMMA Few ==
  ASSUME NEW a, NEW b, NEW c
  PROVE  IsFiniteSet({a, b, c})
<1>1. IsFiniteSet({a})
  BY FS_Singleton
<1>2. IsFiniteSet({a} \union {b})
  BY <1>1, FS_AddElement
<1>3. IsFiniteSet(({a} \union {b}) \union {c})
  BY <1>2, FS_AddElement
<1>4. {a, b, c} = ({a} \union {b}) \union {c}
  OBVIOUS
<1> QED
  BY <1>3, <1>4

(* An assessed router is put in one of the domains.                        *)
LEMMA DomainOfOutage ==
  ASSUME NEW fleet, NEW f \in OutageSamples(fleet), NEW r \in fleet
  PROVE  OutageDomain(f, r) \in Domains
<1>1. f[r].management \in {"none", "ok", "failing", "failed_long_ago"} /\ DOMAIN f = fleet
  BY DEF OutageSamples
<1>2. f[r].management = "failing" <=> r \in Degraded(f)
  BY <1>1 DEF Degraded
<1> QED
  BY <1>1, <1>2 DEF OutageDomain, Domains

(* A fleet in the order of its identifiers.                                *)
LEMMA FleetOrder ==
  ASSUME NEW fleet \in SUBSET Routers
  PROVE  LET n == Cardinality(fleet)
             order == Order(fleet)
         IN /\ IsFiniteSet(fleet) /\ n \in Nat
            /\ order \in [1..n -> fleet] /\ order \in Seq(fleet)
            /\ DOMAIN order = 1..n /\ \A i \in 1..n : order[i] \in fleet
            /\ \A i, j \in 1..n : order[i] = order[j] => i = j
            /\ \A r \in fleet : \E i \in 1..n : order[i] = r
<1>1. IsFiniteSet(fleet)
  BY RoutersAssumption, FS_Subset
<1> QED
  BY <1>1, Enumerated DEF Order

(* What a pass may set out to write.                                       *)
LEMMA Shape ==
  ASSUME family \in Turning, NEW w \in Readings
  PROVE  /\ \E T : w \in Seq(T)
         /\ \A i \in 1..Len(w) : /\ IsFiniteSet(DOMAIN w[i])
                                 /\ \A row \in DOMAIN w[i] : Judged(row, w[i][row])
         /\ family = "capacity" => Len(w) <= 1
         /\ family = "outage_classification" =>
              \E fleet \in SUBSET Routers : \E f \in OutageSamples(fleet) :
                w = OneByOne(Order(fleet), [r \in fleet |-> OutageDomain(f, r)])
<1> DEFINE Goal == /\ \E T : w \in Seq(T)
                   /\ \A i \in 1..Len(w) : /\ IsFiniteSet(DOMAIN w[i])
                                           /\ \A row \in DOMAIN w[i] : Judged(row, w[i][row])
<1>1. CASE family \in Graded \ {"certificate"}
  <2>1. PICK V : Readings = Alone(V) /\ Present(Alone(V))
    <3>1. CASE family = "time-health"
      BY <3>1, AbsentAssumption DEF Readings, TimeReadings
    <3>2. CASE family = "wan-probe"
      BY <3>2, AbsentAssumption DEF Readings, WanReadings
    <3>3. CASE family = "mtu"
      BY <3>3, AbsentAssumption DEF Readings, MtuReadings
    <3>4. CASE family = "compliance"
      BY <3>4, AbsentAssumption DEF Readings, PolicyReadings
    <3>5. CASE family = "desired-state"
      BY <3>5, AbsentAssumption DEF Readings, DesiredReadings
    <3>6. CASE family = "security-audit"
      BY <3>6, AbsentAssumption DEF Readings, AuditReadings
    <3>7. CASE family = "capacity"
      BY <3>7, AbsentAssumption DEF Readings, CapacityReadings
    <3>8. CASE family = "public-ip"
      BY <3>8, AbsentAssumption DEF Readings, ChurnReadings
    <3>9. CASE family = "pppoe"
      BY <3>9, AbsentAssumption DEF Readings
    <3> QED
      BY <1>1, <3>1, <3>2, <3>3, <3>4, <3>5, <3>6, <3>7, <3>8, <3>9 DEF Graded
  <2>2. /\ \E T : w \in Seq(T)
        /\ Len(w) = 1
        /\ \A i \in 1..Len(w) : /\ IsFiniteSet(DOMAIN w[i])
                                /\ \A row \in DOMAIN w[i] : w[i][row] # Absent
    BY <2>1, AloneIsOne
  <2>3. family \notin {"cross-site", "outage_classification"}
    BY <1>1 DEF Graded
  <2> QED
    BY <2>2, <2>3 DEF Judged
<1>2. CASE family = "certificate"
  <2>1. PICK a, b : w = <<[cert1 |-> a, cert2 |-> b]>>
    BY <1>2 DEF Readings, CertificateReadings
  <2> DEFINE x == [cert1 |-> a, cert2 |-> b]
  <2>2. DOMAIN x = {"cert1", "cert2"} /\ IsFiniteSet(DOMAIN x) /\ Range(x) = {x[row] : row \in DOMAIN x}
    <3>1. {"cert1", "cert2"} = {"cert1", "cert2", "cert2"}
      OBVIOUS
    <3>2. IsFiniteSet({"cert1", "cert2"})
      BY <3>1, Few
    <3> QED
      BY <3>2 DEF Range
  <2> HIDE DEF x
  <2>3. w \in Seq({x}) /\ Len(w) = 1 /\ w[1] = x /\ DOMAIN w = {1}
    BY <2>1 DEF x
  <2>4. Absent \notin Range(x)
    BY <1>2, <2>3, AbsentAssumption DEF Present, Readings
  <2>5. \A row \in DOMAIN x : x[row] # Absent
    BY <2>2, <2>4
  <2> QED
    BY <1>2, <2>2, <2>3, <2>5 DEF Judged
<1>3. CASE family = "resource"
  <2>1. PICK c, m : w \in {<<Reading("cpu", c)>>, <<Reading("cpu", c), Reading("memory", m)>>}
    BY <1>3 DEF Readings, ResourceReadings
  <2> DEFINE x == Reading("cpu", c)
             y == Reading("memory", m)
  <2>2. IsFiniteSet(DOMAIN x) /\ IsFiniteSet(DOMAIN y)
    BY FS_Singleton DEF Reading
  <2> HIDE DEF x, y
  <2>3. w \in Seq({x, y}) /\ \A i \in 1..Len(w) : w[i] \in {x, y}
    <3>1. CASE w = <<x>>
      BY <3>1
    <3>2. CASE w = <<x, y>>
      BY <3>2
    <3> QED
      BY <2>1, <3>1, <3>2 DEF x, y
  <2> QED
    BY <1>3, <2>2, <2>3 DEF Judged, Graded
<1>4. CASE family = "cross-site"
  <2>1. PICK f : w = <<[k \in {"isp1", "isp2", "fleet"} |-> k \in Anomalies(f)]>>
    BY <1>4 DEF Readings, AnomalyReadings
  <2> DEFINE x == [k \in {"isp1", "isp2", "fleet"} |-> k \in Anomalies(f)]
  <2>2. IsFiniteSet(DOMAIN x) /\ \A row \in DOMAIN x : x[row] \in BOOLEAN
    <3>1. IsFiniteSet({"isp1", "isp2", "fleet"})
      BY Few
    <3>2. DOMAIN x = {"isp1", "isp2", "fleet"}
      OBVIOUS
    <3>3. ASSUME NEW row \in DOMAIN x PROVE x[row] \in BOOLEAN
      <4>1. x[row] = (row \in Anomalies(f))
        BY <3>2
      <4>2. (row \in Anomalies(f)) \in BOOLEAN
        OBVIOUS
      <4> QED
        BY <4>1, <4>2
    <3> QED
      BY <3>1, <3>2, <3>3
  <2> HIDE DEF x
  <2>3. w \in Seq({x}) /\ Len(w) = 1 /\ w[1] = x
    BY <2>1 DEF x
  <2> QED
    BY <1>4, <2>2, <2>3 DEF Judged, Graded
<1>5. CASE family = "outage_classification"
  <2>0. PICK fleet \in SUBSET Routers : \E f \in OutageSamples(fleet) :
          w = OneByOne(Order(fleet), [r \in fleet |-> OutageDomain(f, r)])
    BY <1>5 DEF Readings, OutageReadings, Order
  <2>1. PICK f \in OutageSamples(fleet) :
          w = OneByOne(Order(fleet), [r \in fleet |-> OutageDomain(f, r)])
    BY <2>0
  <2> DEFINE n == Cardinality(fleet)
             at(i) == Order(fleet)[i]
  <2>2. /\ n \in Nat /\ Order(fleet) \in [1..n -> fleet] /\ Order(fleet) \in Seq(fleet)
        /\ DOMAIN Order(fleet) = 1..n /\ \A i \in 1..n : at(i) \in fleet
    BY FleetOrder
  <2>3. w = [i \in 1..n |-> Reading(at(i), OutageDomain(f, at(i)))]
    BY <2>1, <2>2 DEF OneByOne
  <2> HIDE DEF n
  <2> DEFINE T == {w[i] : i \in 1..n}
  <2>4. w \in [1..n -> T]
    BY <2>3
  <2>5. w \in Seq(T) /\ Len(w) = n
    BY <2>2, <2>4, SeqDef, LenProperties
  <2>6. ASSUME NEW i \in 1..n
        PROVE  IsFiniteSet(DOMAIN w[i]) /\ \A row \in DOMAIN w[i] : Judged(row, w[i][row])
    <3>1. DOMAIN w[i] = {at(i)} /\ w[i][at(i)] = OutageDomain(f, at(i))
      BY <2>3 DEF Reading
    <3>2. at(i) \in Routers /\ OutageDomain(f, at(i)) \in Domains
      BY <2>1, <2>2, DomainOfOutage
    <3> QED
      BY <1>5, <3>1, <3>2, FS_Singleton DEF Judged, Graded
  <2> QED
    BY <1>5, <2>1, <2>5, <2>6
<1> QED
  BY <1>1, <1>2, <1>3, <1>4, <1>5 DEF Turning

(* A verdict that is stored and not announced is the one that was stored,  *)
(* but for the outage domains that are no outage.                          *)
LEMMA Verdict ==
  ASSUME family \in Turning, NEW row, NEW old, NEW reading,
         old = Absent \/ Kept(row, old),
         Judged(row, reading),
         family = "outage_classification" /\ reading = "unknown" => old \in {Absent, "unknown"}
  PROVE  LET new == Value(old, reading)
         IN /\ old # Absent => new # Absent
            /\ new # Absent => Kept(row, new)
            /\ Announced(old, new, reading) => new # Absent
            /\ ~Announced(old, new, reading) /\ old # Absent =>
                 new = old \/ (family = "outage_classification" /\ {old, new} \subseteq Quiet)
<1> DEFINE new == Value(old, reading)
<1>1. CASE family \in Graded
  <2>1. new = reading
    BY <1>1 DEF Value, Graded
  <2>2. Announced(old, new, reading) <=> old \notin {Absent, new}
    BY <1>1 DEF Announced, Graded
  <2>3. reading # Absent
    BY <1>1 DEF Judged
  <2>4. family \notin {"resource", "cross-site", "outage_classification"}
    BY <1>1 DEF Graded
  <2> HIDE DEF new
  <2> QED
    BY <2>1, <2>2, <2>3, <2>4 DEF Kept, new
<1>2. CASE family = "resource"
  <2>1. new = (reading # "normal")
    BY <1>2 DEF Value
  <2>2. Announced(old, new, reading) <=> new # (old = TRUE)
    BY <1>2 DEF Announced, Graded
  <2>3. new \in BOOLEAN
    <3>1. (reading # "normal") \in BOOLEAN
      OBVIOUS
    <3> QED
      BY <2>1, <3>1
  <2>4. new # Absent
    BY <2>3, AbsentAssumption
  <2>5. old # Absent => old \in BOOLEAN
    BY <1>2 DEF Kept
  <2> HIDE DEF new
  <2>6. old \in BOOLEAN /\ new \in BOOLEAN /\ new = (old = TRUE) => new = old
    <3>1. CASE old = TRUE
      BY <3>1
    <3>2. CASE old = FALSE
      BY <3>2
    <3> QED
      BY <3>1, <3>2
  <2> QED
    BY <1>2, <2>2, <2>3, <2>4, <2>5, <2>6 DEF Kept, new
<1>3. CASE family = "cross-site"
  <2>1. reading \in BOOLEAN /\ new = (IF reading THEN "active" ELSE IF old = "active" THEN "resolved" ELSE old)
    BY <1>3 DEF Value, Judged
  <2>2. Announced(old, new, reading) <=> new # old
    BY <1>3 DEF Announced, Graded
  <2>3. Absent \notin {"active", "resolved"}
    BY AbsentAssumption
  <2>4. family \notin {"resource", "outage_classification"}
    BY <1>3
  <2> HIDE DEF new
  <2> QED
    BY <2>1, <2>2, <2>3, <2>4 DEF Kept, new
<1>4. CASE family = "outage_classification"
  <2>1. new = reading
    BY <1>4 DEF Value
  <2>2. Announced(old, new, reading) <=>
          new # old /\ (new \notin Quiet \/ (old \notin Quiet /\ new = "healthy"))
    BY <1>4 DEF Announced, Graded
  <2>3. row \in Routers /\ reading \in Domains /\ reading # Absent
    BY <1>4, AbsentAssumption DEF Judged
  <2> HIDE DEF new
  <2> QED
    BY <1>4, <2>1, <2>2, <2>3 DEF Kept, Quiet, new
<1> QED
  BY <1>1, <1>2, <1>3, <1>4 DEF Turning

(* The table after a transaction: no row is lost, and those that were read *)
(* have their verdict.                                                     *)
LEMMA AfterStore ==
  ASSUME family \in Turning, \A row \in DOMAIN stored : stored[row] # Absent,
         \A row \in DOMAIN stored \intersect DOMAIN readings :
            Value(Stored(stored, row), readings[row]) # Absent
  PROVE  /\ DOMAIN Written =
              DOMAIN stored \union
                {row \in DOMAIN readings : Value(Stored(stored, row), readings[row]) # Absent}
         /\ \A row \in DOMAIN Written :
              Written[row] = IF row \in DOMAIN readings THEN Value(Stored(stored, row), readings[row])
                             ELSE stored[row]
<1>1. family # "dns-health"
  BY DEF Turning, Graded
<1> DEFINE new(row) == Value(Stored(stored, row), readings[row])
           all == [row \in DOMAIN readings \union DOMAIN stored |->
                     IF row \in DOMAIN readings THEN new(row) ELSE stored[row]]
<1>2. Written = Restrict(all, {row \in DOMAIN all : all[row] # Absent})
  BY <1>1 DEF Written
<1> HIDE DEF new
<1>3. /\ DOMAIN Written = {row \in DOMAIN all : all[row] # Absent}
      /\ \A row \in DOMAIN Written : Written[row] = all[row]
  <2> HIDE DEF all
  <2> QED
    BY <1>2 DEF Restrict
<1>4. \A row \in DOMAIN stored \intersect DOMAIN readings : new(row) # Absent
  BY DEF new
<1> QED
  BY <1>3, <1>4 DEF new

(* What a transaction has to say: one event for every row that it changed  *)
(* and that is announced, for the owner of the row.                        *)
LEMMA Announcements ==
  ASSUME family \in Turning, NEW table, NEW reads, IsFiniteSet(DOMAIN reads)
  PROVE  LET said == EventsOf(table, reads)
             new(row) == Value(Stored(table, row), reads[row])
             rows == {row \in DOMAIN reads : Announced(Stored(table, row), new(row), reads[row])}
         IN /\ \E T : said \in Seq(T)
            /\ \A i \in 1..Len(said) :
                 \E row \in rows : /\ said[i].event.row = row
                                   /\ said[i].event.value = new(row)
                                   /\ said[i].owner = OwnerOf(row)
            /\ \A row \in rows : \E i \in 1..Len(said) : said[i].event.row = row
<1> DEFINE new(row) == Value(Stored(table, row), reads[row])
           rows == {row \in DOMAIN reads : Announced(Stored(table, row), new(row), reads[row])}
           about(row) == [row |-> row, value |-> new(row),
                          severity |-> Severity(Stored(table, row), new(row), reads[row])]
           ev(row) == [owner |-> OwnerOf(row), event |-> about(row)]
           E == UNION {{[owner |-> o, event |-> about(row)] : o \in Owners(row, reads[row])} : row \in rows}
<1>1. EventsOf(table, reads) = SetToSeq(E)
  BY DEF EventsOf
<1>2. \A row \in rows : Owners(row, reads[row]) = {OwnerOf(row)}
  <2> HIDE DEF rows
  <2>1. family # "identity-collision"
    BY DEF Turning, Graded
  <2> QED
    BY <2>1 DEF Owners, OwnerOf
<1>3. \A row : /\ ev(row).owner = OwnerOf(row) /\ ev(row).event.row = row
               /\ ev(row).event.value = new(row)
  <2> HIDE DEF new
  <2> QED
    OBVIOUS
<1>4. IsFiniteSet(rows)
  <2>1. rows \in SUBSET DOMAIN reads
    OBVIOUS
  <2> HIDE DEF rows
  <2> QED
    BY <2>1, FS_Subset
<1> HIDE DEF rows, about, new
<1>5. E = {ev(row) : row \in rows}
  BY <1>2
<1> HIDE DEF E, ev
<1>6. IsFiniteSet(E)
  <2> DEFINE f == [row \in rows |-> ev(row)]
  <2>1. f \in Surjection(rows, E)
    BY <1>5 DEF Surjection
  <2> QED
    BY <1>4, <2>1, FS_Surjection
<1> DEFINE said == SetToSeq(E)
           n == Cardinality(E)
<1>7. /\ said \in Seq(E) /\ Len(said) = n
      /\ said \in [1..n -> E]
      /\ \A e \in E : \E i \in 1..n : said[i] = e
  BY <1>6, Enumerated
<1> HIDE DEF said, n
<1>8. ASSUME NEW i \in 1..Len(said)
      PROVE  \E row \in rows : /\ said[i].event.row = row
                               /\ said[i].event.value = new(row)
                               /\ said[i].owner = OwnerOf(row)
  <2>1. PICK row \in rows : said[i] = ev(row)
    BY <1>5, <1>7
  <2> QED
    BY <1>3, <2>1
<1>9. ASSUME NEW row \in rows PROVE \E i \in 1..Len(said) : said[i].event.row = row
  <2>1. ev(row) \in E
    BY <1>5
  <2>2. PICK i \in 1..n : said[i] = ev(row)
    BY <1>7, <2>1
  <2> QED
    BY <1>3, <1>7, <2>2
<1> QED
  BY <1>1, <1>7, <1>8, <1>9 DEF said, rows, new

---------------------------------------------------------------------------------
(***************************************************************************)
(* Every step of such a monitor keeps the invariant.                       *)
(***************************************************************************)
(* Before the first pass there is nothing to write or to say, and nothing was told. *)
LEMMA InitConsistent == Init => Consistent
<1> SUFFICES ASSUME Init PROVE Consistent
  OBVIOUS
<1>1. /\ stored = <<>> /\ told = <<>> /\ pass = Idle /\ unsaid = {} /\ assessed = {}
      /\ log = [o \in Routers \union {"router"} |-> <<>>]
  BY DEF Init
<1>2. <<>> \in Seq({}) /\ Len(<<>>) = 0 /\ DOMAIN <<>> = {}
  BY EmptySeq
<1>3. /\ pass.writes = <<>> /\ pass.says = <<>>
      /\ pass = [writes |-> pass.writes, before |-> pass.before, says |-> pass.says]
  BY <1>1 DEF Idle
<1>4. PassTyped
  BY <1>2, <1>3 DEF PassTyped
<1>5. Held
  BY <1>1, <1>2 DEF Held
<1>6. ToWrite /\ ToSay
  BY <1>2, <1>3 DEF ToWrite, ToSay
<1>7. Outages
  BY <1>1, <1>2, <1>3 DEF Outages
<1>8. Words
  BY <1>1, <1>2, <1>3 DEF Words, LastWord
<1> QED
  BY <1>4, <1>5, <1>6, <1>7, <1>8 DEF Consistent

(* A pass that begins: nothing is said before something is written.        *)
LEMMA StartStep ==
  ASSUME family \in Turning, Consistent, Start
  PROVE  Consistent'
<1>1. /\ pass = Idle
      /\ UNCHANGED <<setup, stored, told, log, unsaid>> /\ assessed' = {} /\ family' = family
  BY DEF Start, Resting, family
<1>2. PICK w \in Readings :
        /\ Possible(w)
        /\ pass' = [writes |-> w, before |-> IF ReadsFirst THEN stored ELSE <<>>, says |-> <<>>]
  <2>1. family # "others"
    BY DEF Turning, Graded
  <2> QED
    BY <2>1 DEF Start
<1>3. /\ pass'.writes = w /\ pass'.says = <<>>
      /\ pass'.before = IF ReadsFirst THEN stored ELSE <<>>
      /\ pass' = [writes |-> pass'.writes, before |-> pass'.before, says |-> pass'.says]
      /\ pass.writes = <<>> /\ pass.says = <<>>
  BY <1>1, <1>2 DEF Idle
<1>4. <<>> \in Seq({}) /\ Len(<<>>) = 0
  BY EmptySeq
<1>5. /\ \E T : w \in Seq(T)
      /\ \A i \in 1..Len(w) : /\ IsFiniteSet(DOMAIN w[i])
                              /\ \A row \in DOMAIN w[i] : Judged(row, w[i][row])
      /\ family = "capacity" => Len(w) <= 1
      /\ family = "outage_classification" =>
           \E fleet \in SUBSET Routers : \E f \in OutageSamples(fleet) :
             w = OneByOne(Order(fleet), [r \in fleet |-> OutageDomain(f, r)])
  BY Shape
<1>6. PassTyped'
  BY <1>3, <1>4, <1>5 DEF PassTyped
<1>7. Held'
  BY <1>1 DEF Consistent, Held, Kept
<1>8. ToWrite'
  BY <1>1, <1>3, <1>5 DEF ToWrite, Judged, ReadsFirst
<1>9. ToSay'
  BY <1>3, <1>4 DEF ToSay
<1>10. Outages'
  <2> SUFFICES ASSUME family = "outage_classification" PROVE Outages'
    BY <1>1 DEF Outages
  <2>0. PICK fleet \in SUBSET Routers : \E f \in OutageSamples(fleet) :
          w = OneByOne(Order(fleet), [r \in fleet |-> OutageDomain(f, r)])
    BY <1>5
  <2>1. PICK f \in OutageSamples(fleet) :
          w = OneByOne(Order(fleet), [r \in fleet |-> OutageDomain(f, r)])
    BY <2>0
  <2> DEFINE n == Cardinality(fleet)
             at(i) == Order(fleet)[i]
  <2>2. /\ n \in Nat /\ Order(fleet) \in [1..n -> fleet]
        /\ DOMAIN Order(fleet) = 1..n /\ \A i \in 1..n : at(i) \in fleet
    BY FleetOrder
  <2>3. w = [i \in 1..n |-> Reading(at(i), OutageDomain(f, at(i)))]
    BY <2>1, <2>2 DEF OneByOne
  <2>4. Len(w) = n /\ DOMAIN w = 1..n
    BY <2>2, <2>3, <1>5, LenProperties
  <2> HIDE DEF n
  <2>5. \A i \in 1..n : OutageDomain(f, at(i)) = "unknown" => Stored(stored, at(i)) \in {Absent, "unknown"}
    <3> SUFFICES ASSUME NEW i \in 1..n, OutageDomain(f, at(i)) = "unknown"
                 PROVE  Stored(stored, at(i)) \in {Absent, "unknown"}
      OBVIOUS
    <3>1. DOMAIN w[i] = {at(i)} /\ w[i][at(i)] = "unknown"
      BY <2>3 DEF Reading
    <3> QED
      BY <1>2, <2>4, <3>1 DEF Possible
  <2>6. ASSUME w # <<>> PROVE Assessment'
    <3>1. n # 0
      BY <2>4, <2>6, <1>5, EmptySeq
    <3>2. 1 \in 1..n /\ 1..(1 - 1) = {}
      BY <2>2, <3>1
    <3>3. Len(pass'.writes) = n - 1 + 1
      BY <1>3, <2>2, <2>4
    <3>4. \A i \in 1..Len(pass'.writes) :
            pass'.writes[i] = Reading(at(1 + i - 1), OutageDomain(f, at(1 + i - 1)))
      <4>1. \A i \in 1..n : 1 + i - 1 = i
        BY <2>2
      <4> QED
        BY <1>3, <2>3, <2>4, <4>1
    <3>5. \A i \in 1..n : OutageDomain(f, at(i)) = "unknown" => Stored(stored', at(i)) \in {Absent, "unknown"}
      BY <1>1, <2>5
    <3>6. assessed' = {at(i) : i \in 1..(1 - 1)}
      BY <1>1, <3>2
    <3>7. Assessing(fleet, f, 1)'
      BY <3>2, <3>3, <3>4, <3>5, <3>6 DEF Assessing, n, Stored
    <3> QED
      BY <3>2, <3>7 DEF Assessment, n
  <2> QED
    BY <1>1, <1>3, <2>6 DEF Outages
<1>11. Words'
  BY <1>1, <1>3 DEF Consistent, Words, LastWord, Agree, OwnerOf
<1> QED
  BY <1>6, <1>7, <1>8, <1>9, <1>10, <1>11 DEF Consistent

(* What is forgotten when a pass is cut is left unsaid.                    *)
LEMMA CutStep ==
  ASSUME family \in Turning, Consistent, Cut
  PROVE  Consistent'
<1>1. /\ pass' = Idle
      /\ unsaid' = unsaid \union {pass.says[i].event.row : i \in DOMAIN pass.says}
      /\ assessed' = IF pass.writes = <<>> THEN assessed ELSE {}
      /\ UNCHANGED <<setup, stored, told, log>> /\ family' = family
  BY DEF Cut, family
<1>2. <<>> \in Seq({}) /\ Len(<<>>) = 0
  BY EmptySeq
<1>3. /\ pass'.writes = <<>> /\ pass'.says = <<>>
      /\ pass' = [writes |-> pass'.writes, before |-> pass'.before, says |-> pass'.says]
  BY <1>1 DEF Idle
<1>4. PassTyped'
  BY <1>2, <1>3 DEF PassTyped
<1>5. Held'
  BY <1>1 DEF Consistent, Held, Kept
<1>6. ToWrite' /\ ToSay'
  BY <1>2, <1>3 DEF ToWrite, ToSay
<1>7. Outages'
  BY <1>1, <1>3 DEF Consistent, Outages
<1>8. Words'
  <2>1. DOMAIN pass.says = 1..Len(pass.says)
    BY LenProperties DEF Consistent, PassTyped
  <2>2. \A row \in DOMAIN stored' \ unsaid' : Agree(row)'
    BY <1>1, <2>1 DEF Consistent, Words, Agree
  <2>3. \A o \in Routers \union {"router"} : LastWord(o)'
    BY <1>1 DEF Consistent, Words, LastWord, OwnerOf
  <2> QED
    BY <2>2, <2>3 DEF Words
<1> QED
  BY <1>4, <1>5, <1>6, <1>7, <1>8 DEF Consistent

(* A pass goes on to its next event.                                       *)
LEMMA Saying ==
  ASSUME PassTyped, Say
  PROVE  /\ pass'.writes = pass.writes /\ pass'.says = Tail(pass.says)
         /\ pass.writes # <<>> => pass'.before = pass.before
         /\ pass' = [writes |-> pass'.writes, before |-> pass'.before, says |-> pass'.says]
         /\ pass' # pass
<1> DEFINE p == [pass EXCEPT !.says = Tail(@)]
<1>1. pass.says # <<>> /\ pass' = Rest(p)
  BY DEF Say
<1>2. PICK a, b, c : pass = [writes |-> a, before |-> b, says |-> c]
  BY DEF PassTyped
<1>3. p = [writes |-> pass.writes, before |-> pass.before, says |-> Tail(pass.says)]
  <2>1. \A d : [[writes |-> a, before |-> b, says |-> c] EXCEPT !.says = d] = [writes |-> a, before |-> b, says |-> d]
    OBVIOUS
  <2>2. p = [writes |-> a, before |-> b, says |-> Tail(c)]
    BY <1>2, <2>1
  <2> QED
    BY <1>2, <2>2
<1> HIDE DEF p
<1>4. /\ pass'.writes = pass.writes /\ pass'.says = Tail(pass.says)
      /\ pass.writes # <<>> => pass'.before = pass.before
      /\ pass' = [writes |-> pass'.writes, before |-> pass'.before, says |-> pass'.says]
  <2>1. CASE p.writes = <<>> /\ p.says = <<>>
    BY <1>1, <1>3, <2>1 DEF Rest, Idle
  <2>2. CASE ~(p.writes = <<>> /\ p.says = <<>>)
    BY <1>1, <1>3, <2>2 DEF Rest
  <2> QED
    BY <2>1, <2>2
<1>5. Tail(pass.says) # pass.says
  <2>1. PICK T : pass.says \in Seq(T)
    BY DEF PassTyped
  <2>2. Len(Tail(pass.says)) = Len(pass.says) - 1 /\ Len(pass.says) \in Nat
    BY <1>1, <2>1, HeadTailProperties, LenProperties
  <2>3. \A n \in Nat : n - 1 # n
    OBVIOUS
  <2> QED
    BY <2>2, <2>3
<1> QED
  BY <1>4, <1>5

(* An assessment does not move while its rows stay as they are.            *)
LEMMA OutagesStay ==
  ASSUME Outages, pass'.writes = pass.writes, stored' = stored, assessed' = assessed, family' = family
  PROVE  Outages'
<1>1. ASSUME NEW fleet, NEW f, NEW k, Assessing(fleet, f, k) PROVE Assessing(fleet, f, k)'
  BY <1>1 DEF Assessing, Stored
<1>2. Assessment => Assessment'
  BY <1>1 DEF Assessment
<1> QED
  BY <1>2 DEF Outages

(* An event that is recorded, or dropped as a repetition, is the last word *)
(* about its row.                                                          *)
LEMMA SayStep ==
  ASSUME family \in Turning, Consistent, LogOK, Say
  PROVE  Consistent'
<1> DEFINE h == Head(pass.says)
           e == h.event
<1>1. PICK T : pass.says \in Seq(T)
  BY DEF Consistent, PassTyped
<1>2. /\ pass.says # <<>>
      /\ log' = [log EXCEPT ![h.owner] = Recorded(@, e)]
      /\ told' = IF e.row \in DOMAIN told /\ ~Repeats(log[h.owner], e)
                 THEN [told EXCEPT ![e.row] = e.value] ELSE told
      /\ unsaid' = unsaid \ {e.row}
      /\ UNCHANGED <<setup, stored, assessed>> /\ family' = family
  BY DEF Say, family
<1>3. /\ Len(pass.says) \in Nat \ {0} /\ h = pass.says[1]
      /\ Tail(pass.says) \in Seq(T) /\ Len(Tail(pass.says)) = Len(pass.says) - 1
      /\ \A i \in 1..Len(Tail(pass.says)) : Tail(pass.says)[i] = pass.says[i + 1]
  BY <1>1, <1>2, HeadTailProperties, LenProperties, EmptySeq
<1>4. /\ pass'.writes = pass.writes /\ pass'.says = Tail(pass.says)
      /\ pass.writes # <<>> => pass'.before = pass.before
      /\ pass' = [writes |-> pass'.writes, before |-> pass'.before, says |-> pass'.says]
  BY Saying DEF Consistent
<1> HIDE DEF h
<1>5. /\ e.row \in DOMAIN stored /\ e.value = stored[e.row] /\ h.owner = OwnerOf(e.row)
      /\ DOMAIN told = DOMAIN stored /\ h.owner \in Routers \union {"router"}
  <2>1. Says(h)
    BY <1>3 DEF Consistent, ToSay
  <2>2. DOMAIN told = DOMAIN stored /\ Kept(e.row, stored[e.row])
    BY <2>1 DEF Consistent, Held, Says
  <2> QED
    BY <2>1, <2>2 DEF Says, OwnerOf, Kept
<1>6. /\ DOMAIN told' = DOMAIN told /\ told'[e.row] = e.value
      /\ \A row \in DOMAIN told : row # e.row => told'[row] = told[row]
  <2>1. CASE Repeats(log[h.owner], e)
    <3>1. LastWord(h.owner)
      BY <1>5 DEF Consistent, Words
    <3>2. told[e.row] = e.value
      BY <2>1, <3>1 DEF LastWord, Repeats, Same
    <3> QED
      BY <1>2, <2>1, <3>2
  <2>2. CASE ~Repeats(log[h.owner], e)
    BY <1>2, <1>5, <2>2
  <2> QED
    BY <2>1, <2>2
<1>7. /\ Last(log'[h.owner]).row = e.row /\ Last(log'[h.owner]).value = e.value
      /\ \A o \in Routers \union {"router"} : o # h.owner => log'[o] = log[o]
  <2>1. setup \in Setups /\ Timeline(log[h.owner]) /\ log = [o \in Routers \union {"router"} |-> log[o]]
    BY <1>5 DEF LogOK
  <2>2. log'[h.owner] = Recorded(log[h.owner], e)
    BY <1>2, <1>5, <2>1
  <2>3. \A o \in Routers \union {"router"} : o # h.owner => log'[o] = log[o]
    BY <1>2, <2>1
  <2> HIDE DEF e
  <2>4. /\ Last(Recorded(log[h.owner], e)).row = e.row
        /\ Last(Recorded(log[h.owner], e)).value = e.value
    BY <2>1, RecordedIsLast
  <2> QED
    BY <2>2, <2>3, <2>4
<1>8. PassTyped'
  BY <1>3, <1>4 DEF Consistent, PassTyped
<1>9. Held'
  BY <1>2, <1>6 DEF Consistent, Held, Kept
<1>10. ToWrite'
  <2>1. ToWrite /\ (pass.writes # <<>> => pass'.before = pass.before)
    BY <1>4 DEF Consistent
  <2>2. pass'.writes = pass.writes /\ stored' = stored /\ family' = family
    BY <1>2, <1>4
  <2> QED
    BY <2>1, <2>2 DEF ToWrite, Judged
<1>11. ToSay'
  <2> SUFFICES ASSUME NEW i \in 1..Len(pass'.says) PROVE Says(pass.says[i])'
    BY DEF ToSay
  <2>1. i + 1 \in 1..Len(pass.says) /\ pass'.says[i] = pass.says[i + 1]
    BY <1>3, <1>4
  <2>2. Says(pass.says[i + 1])
    BY <2>1 DEF Consistent, ToSay
  <2> QED
    BY <1>2, <2>1, <2>2 DEF Says, OwnerOf
<1>12. Outages'
  BY <1>2, <1>4, OutagesStay DEF Consistent
<1>13. Words'
  <2>1. ASSUME NEW row \in DOMAIN stored' \ unsaid'
        PROVE  Agree(row)' \/ \E i \in 1..Len(pass'.says) : pass'.says[i].event.row = row
    <3>1. CASE row = e.row
      BY <1>2, <1>5, <1>6, <3>1 DEF Agree
    <3>2. CASE row # e.row
      <4>1. row \in DOMAIN stored \ unsaid /\ told'[row] = told[row] /\ stored'[row] = stored[row]
        BY <1>2, <1>5, <1>6, <2>1, <3>2
      <4>2. CASE Agree(row)
        BY <1>2, <4>1, <4>2 DEF Agree
      <4>3. ASSUME NEW i \in 1..Len(pass.says), pass.says[i].event.row = row
            PROVE  \E j \in 1..Len(pass'.says) : pass'.says[j].event.row = row
        <5>1. i # 1
          BY <1>3, <3>2, <4>3
        <5>2. i - 1 \in 1..Len(Tail(pass.says)) /\ (i - 1) + 1 = i
          BY <1>3, <4>3, <5>1
        <5> QED
          BY <1>3, <1>4, <4>3, <5>2
      <4> QED
        BY <4>1, <4>2, <4>3 DEF Consistent, Words
    <3> QED
      BY <3>1, <3>2
  <2>2. ASSUME NEW o \in Routers \union {"router"} PROVE LastWord(o)'
    <3>1. CASE o = h.owner
      BY <1>2, <1>5, <1>6, <1>7, <3>1 DEF LastWord, OwnerOf
    <3>2. CASE o # h.owner
      <4>1. LastWord(o) /\ log'[o] = log[o]
        BY <1>7, <3>2 DEF Consistent, Words
      <4>2. log[o] # <<>> => Last(log[o]).row # e.row
        BY <1>5, <3>2, <4>1 DEF LastWord
      <4> QED
        BY <1>2, <1>6, <4>1, <4>2 DEF LastWord, OwnerOf
    <3> QED
      BY <3>1, <3>2
  <2> QED
    BY <2>1, <2>2 DEF Words
<1> QED
  BY <1>8, <1>9, <1>10, <1>11, <1>12, <1>13 DEF Consistent

(* The queue, the operators and time change no last word, and the lock a   *)
(* pass holds against its own event concerns another monitor.              *)
LEMMA OtherSteps ==
  ASSUME family \in Turning, Consistent, LogOK,
         Sync \/ Age \/ (\E o \in DOMAIN log : Update(o) \/ Cleanup(o)) \/ SelfLock \/ UNCHANGED vars
  PROVE  Consistent'
<1>1. ~SelfLock
  BY DEF SelfLock, LocksItself, Turning, Graded
<1>2. UNCHANGED <<setup, stored, told, pass, unsaid, assessed>> /\ family' = family
  BY <1>1 DEF Sync, Age, Update, Cleanup, vars, family
<1>3. ASSUME NEW o \in Routers \union {"router"} PROVE EndsAs(log'[o], log[o])
  <2>1. ~Say
    BY <1>2, Saying DEF Consistent
  <2> QED
    BY <2>1, LogSteps DEF Next, EndsAs
<1>4. PassTyped' /\ Held' /\ ToWrite' /\ ToSay'
  BY <1>2 DEF Consistent, PassTyped, Held, Kept, ToWrite, Judged, ToSay, Says, OwnerOf
<1>5. Outages'
  BY <1>2, OutagesStay DEF Consistent
<1>6. Words'
  BY <1>2, <1>3 DEF Consistent, Words, Agree, LastWord, EndsAs, OwnerOf
<1> QED
  BY <1>4, <1>5, <1>6 DEF Consistent

(* A pass goes on to its next transaction.                                 *)
LEMMA Storing ==
  ASSUME family \in Turning, PassTyped, ToWrite, Store
  PROVE  /\ \E T : pass.writes \in Seq(T) /\ Tail(pass.writes) \in Seq(T)
         /\ Len(pass.writes) \in Nat \ {0} /\ readings = pass.writes[1]
         /\ Len(Tail(pass.writes)) = Len(pass.writes) - 1
         /\ \A i \in 1..Len(Tail(pass.writes)) : Tail(pass.writes)[i] = pass.writes[i + 1]
         /\ pass'.writes = Tail(pass.writes) /\ pass'.says = EventsOf(stored, readings)
         /\ pass' = [writes |-> pass'.writes, before |-> pass'.before, says |-> pass'.says]
<1> DEFINE p == [pass EXCEPT !.writes = Tail(@), !.says = EventsToSay]
<1>1. pass.writes # <<>> /\ pass' = Rest(p)
  BY DEF Store
<1>2. PICK T : pass.writes \in Seq(T)
  BY DEF PassTyped
<1>3. /\ Tail(pass.writes) \in Seq(T) /\ Len(pass.writes) \in Nat \ {0} /\ Head(pass.writes) = pass.writes[1]
      /\ Len(Tail(pass.writes)) = Len(pass.writes) - 1
      /\ \A i \in 1..Len(Tail(pass.writes)) : Tail(pass.writes)[i] = pass.writes[i + 1]
  BY <1>1, <1>2, HeadTailProperties, LenProperties, EmptySeq
<1>4. EventsToSay = EventsOf(stored, readings)
  <2>1. family # "dns-health"
    BY DEF Turning, Graded
  <2>2. Before = stored
    BY <1>1, <2>1 DEF Before, ReadsFirst, ToWrite
  <2> QED
    BY <2>1, <2>2 DEF EventsToSay
<1>5. p = [writes |-> Tail(pass.writes), before |-> pass.before, says |-> EventsToSay]
  <2>1. PICK a, b, c : pass = [writes |-> a, before |-> b, says |-> c]
    BY DEF PassTyped
  <2>2. \A d, t : [[writes |-> a, before |-> b, says |-> c] EXCEPT !.writes = d, !.says = t]
                  = [writes |-> d, before |-> b, says |-> t]
    <3>1. \A d : [[writes |-> a, before |-> b, says |-> c] EXCEPT !.writes = d] = [writes |-> d, before |-> b, says |-> c]
      OBVIOUS
    <3>2. \A d, t : [[writes |-> d, before |-> b, says |-> c] EXCEPT !.says = t] = [writes |-> d, before |-> b, says |-> t]
      OBVIOUS
    <3> QED
      BY <3>1, <3>2
  <2>3. p = [writes |-> Tail(a), before |-> b, says |-> EventsToSay]
    BY <2>1, <2>2
  <2> QED
    BY <2>1, <2>3
<1> HIDE DEF p
<1>6. /\ pass'.writes = Tail(pass.writes) /\ pass'.says = EventsToSay
      /\ pass' = [writes |-> pass'.writes, before |-> pass'.before, says |-> pass'.says]
  <2>1. CASE p.writes = <<>> /\ p.says = <<>>
    BY <1>1, <1>5, <2>1 DEF Rest, Idle
  <2>2. CASE ~(p.writes = <<>> /\ p.says = <<>>)
    BY <1>1, <1>5, <2>2 DEF Rest
  <2> QED
    BY <2>1, <2>2
<1> QED
  BY <1>2, <1>3, <1>4, <1>6 DEF readings

(* What a transaction makes of the table, and what it leaves to be said.   *)
LEMMA Changes ==
  ASSUME family \in Turning, Consistent, Store
  PROVE  LET new(row) == Value(Stored(stored, row), readings[row])
             announced(row) == Announced(Stored(stored, row), new(row), readings[row])
         IN /\ DOMAIN Written = DOMAIN stored \union {row \in DOMAIN readings : new(row) # Absent}
            /\ \A row \in DOMAIN Written :
                 /\ Written[row] = IF row \in DOMAIN readings THEN new(row) ELSE stored[row]
                 /\ Kept(row, Written[row])
            /\ \A row \in DOMAIN readings :
                 /\ announced(row) => new(row) # Absent
                 /\ ~announced(row) /\ row \in DOMAIN stored =>
                      \/ new(row) = stored[row]
                      \/ family = "outage_classification" /\ {stored[row], new(row)} \subseteq Quiet
<1> DEFINE new(row) == Value(Stored(stored, row), readings[row])
           announced(row) == Announced(Stored(stored, row), new(row), readings[row])
<1>1. /\ PassTyped /\ Held /\ ToWrite /\ Outages
      /\ pass.writes # <<>> /\ Len(pass.writes) \in Nat \ {0} /\ readings = pass.writes[1]
  BY Storing DEF Consistent, Store
<1>2. \A row \in DOMAIN readings : Judged(row, readings[row])
  <2>1. 1 \in 1..Len(pass.writes)
    BY <1>1
  <2> QED
    BY <1>1, <2>1 DEF ToWrite
<1>3. \A row : /\ row \in DOMAIN stored => Stored(stored, row) = stored[row]
               /\ Stored(stored, row) = Absent \/ Kept(row, Stored(stored, row))
               /\ row \in DOMAIN stored => stored[row] # Absent /\ Kept(row, stored[row])
  BY <1>1 DEF Held, Kept, Stored
<1>4. ASSUME NEW row \in DOMAIN readings, family = "outage_classification", readings[row] = "unknown"
      PROVE  Stored(stored, row) \in {Absent, "unknown"}
  <2>0. PICK fleet \in SUBSET Routers :
          \E f \in OutageSamples(fleet), k \in 1..Cardinality(fleet) : Assessing(fleet, f, k)
    BY <1>1, <1>4 DEF Outages, Assessment
  <2>1. PICK f \in OutageSamples(fleet), k \in 1..Cardinality(fleet) : Assessing(fleet, f, k)
    BY <2>0
  <2>2. Cardinality(fleet) \in Nat
    BY FleetOrder
  <2>3. 1 \in 1..Len(pass.writes) /\ k + 1 - 1 = k /\ k \in k..Cardinality(fleet)
    BY <1>1, <2>2
  <2>4. readings = Reading(Order(fleet)[k], OutageDomain(f, Order(fleet)[k]))
    BY <1>1, <2>1, <2>3 DEF Assessing
  <2>5. row = Order(fleet)[k] /\ OutageDomain(f, Order(fleet)[k]) = "unknown"
    BY <1>4, <2>4 DEF Reading
  <2> QED
    BY <2>1, <2>3, <2>5 DEF Assessing
<1>5. ASSUME NEW row \in DOMAIN readings
      PROVE  /\ row \in DOMAIN stored => new(row) # Absent
             /\ new(row) # Absent => Kept(row, new(row))
             /\ announced(row) => new(row) # Absent
             /\ ~announced(row) /\ row \in DOMAIN stored =>
                  \/ new(row) = stored[row]
                  \/ family = "outage_classification" /\ {stored[row], new(row)} \subseteq Quiet
  <2> DEFINE old == Stored(stored, row)
             reading == readings[row]
  <2>1. /\ old = Absent \/ Kept(row, old)
        /\ Judged(row, reading)
        /\ family = "outage_classification" /\ reading = "unknown" => old \in {Absent, "unknown"}
    BY <1>2, <1>3, <1>4
  <2>2. row \in DOMAIN stored => old = stored[row] /\ old # Absent
    BY <1>3
  <2> HIDE DEF old, reading
  <2>3. /\ old # Absent => Value(old, reading) # Absent
        /\ Value(old, reading) # Absent => Kept(row, Value(old, reading))
        /\ Announced(old, Value(old, reading), reading) => Value(old, reading) # Absent
        /\ ~Announced(old, Value(old, reading), reading) /\ old # Absent =>
             \/ Value(old, reading) = old
             \/ family = "outage_classification" /\ {old, Value(old, reading)} \subseteq Quiet
    BY <2>1, Verdict
  <2> QED
    BY <2>2, <2>3 DEF old, reading
<1>6. /\ DOMAIN Written = DOMAIN stored \union {row \in DOMAIN readings : new(row) # Absent}
      /\ \A row \in DOMAIN Written :
           Written[row] = IF row \in DOMAIN readings THEN new(row) ELSE stored[row]
  BY <1>3, <1>5, AfterStore
<1> HIDE DEF new, announced
<1>7. \A row \in DOMAIN Written : Kept(row, Written[row])
  BY <1>3, <1>5, <1>6
<1> QED
  BY <1>5, <1>6, <1>7 DEF new, announced

(* A transaction and the events it leaves to be said.                      *)
LEMMA StoreStep ==
  ASSUME family \in Turning, Consistent, Store
  PROVE  Consistent'
<1> DEFINE new(row) == Value(Stored(stored, row), readings[row])
           announced(row) == Announced(Stored(stored, row), new(row), readings[row])
<1>1. /\ stored' = Written /\ told' = FirstSaid /\ assessed' = assessed \union DOMAIN readings
      /\ pass.says = <<>> /\ Len(pass.says) = 0
      /\ UNCHANGED <<setup, log, unsaid>> /\ family' = family
  BY EmptySeq DEF Store, family
<1>2. /\ PassTyped /\ Held /\ ToWrite /\ Outages /\ Words
  BY DEF Consistent
<1>3. PICK T : pass.writes \in Seq(T) /\ Tail(pass.writes) \in Seq(T)
  BY <1>2, Storing
<1>4. /\ Len(pass.writes) \in Nat \ {0} /\ readings = pass.writes[1]
      /\ Len(Tail(pass.writes)) = Len(pass.writes) - 1
      /\ \A i \in 1..Len(Tail(pass.writes)) : Tail(pass.writes)[i] = pass.writes[i + 1]
      /\ pass'.writes = Tail(pass.writes) /\ pass'.says = EventsOf(stored, readings)
      /\ pass' = [writes |-> pass'.writes, before |-> pass'.before, says |-> pass'.says]
  BY <1>2, Storing
<1>5. /\ DOMAIN Written = DOMAIN stored \union {row \in DOMAIN readings : new(row) # Absent}
      /\ \A row \in DOMAIN Written :
           /\ Written[row] = IF row \in DOMAIN readings THEN new(row) ELSE stored[row]
           /\ Kept(row, Written[row])
      /\ \A row \in DOMAIN readings :
           /\ announced(row) => new(row) # Absent
           /\ ~announced(row) /\ row \in DOMAIN stored =>
                \/ new(row) = stored[row]
                \/ family = "outage_classification" /\ {stored[row], new(row)} \subseteq Quiet
  BY Changes
<1>6. /\ \E U : pass'.says \in Seq(U)
      /\ \A i \in 1..Len(pass'.says) :
           \E row \in DOMAIN readings : /\ announced(row)
                                        /\ pass'.says[i].event.row = row
                                        /\ pass'.says[i].event.value = new(row)
                                        /\ pass'.says[i].owner = OwnerOf(row)
      /\ \A row \in DOMAIN readings :
           announced(row) => \E i \in 1..Len(pass'.says) : pass'.says[i].event.row = row
  <2>1. 1 \in 1..Len(pass.writes)
    BY <1>4
  <2>2. IsFiniteSet(DOMAIN readings)
    BY <1>2, <1>4, <2>1 DEF ToWrite
  <2> DEFINE said == EventsOf(stored, readings)
             rows == {row \in DOMAIN readings : announced(row)}
  <2>3. /\ \E U : said \in Seq(U)
        /\ \A i \in 1..Len(said) :
             \E row \in rows : /\ said[i].event.row = row
                               /\ said[i].event.value = new(row)
                               /\ said[i].owner = OwnerOf(row)
        /\ \A row \in rows : \E i \in 1..Len(said) : said[i].event.row = row
    BY <2>2, Announcements
  <2> HIDE DEF said, announced, new
  <2>4. pass'.says = said
    BY <1>4 DEF said
  <2> QED
    BY <2>3, <2>4
<1> HIDE DEF new, announced
<1>7. /\ DOMAIN told' = DOMAIN Written /\ DOMAIN stored \subseteq DOMAIN Written
      /\ \A row \in DOMAIN Written :
           told'[row] = IF row \in DOMAIN stored THEN told[row] ELSE Written[row]
  <2>1. DOMAIN told = DOMAIN stored /\ DOMAIN stored \subseteq DOMAIN Written
    BY <1>2, <1>5 DEF Held
  <2> QED
    BY <1>1, <2>1 DEF FirstSaid
<1>8. PassTyped'
  BY <1>3, <1>4, <1>6 DEF PassTyped
<1>9. Held'
  BY <1>1, <1>5, <1>7 DEF Held, Kept
<1>10. ToWrite'
  <2>1. \A i \in 1..Len(Tail(pass.writes)) : i + 1 \in 1..Len(pass.writes)
    BY <1>4
  <2>2. \A i \in 1..Len(pass'.writes) :
           /\ IsFiniteSet(DOMAIN pass'.writes[i])
           /\ \A row \in DOMAIN pass'.writes[i] : Judged(row, pass'.writes[i][row])
    BY <1>2, <1>4, <2>1 DEF ToWrite
  <2>3. family = "capacity" => Len(pass'.writes) <= 1 /\ pass'.writes = <<>>
    <3> SUFFICES ASSUME family = "capacity" PROVE Len(pass'.writes) <= 1 /\ pass'.writes = <<>>
      OBVIOUS
    <3>1. Len(Tail(pass.writes)) = 0
      <4>1. Len(pass.writes) <= 1
        BY <1>2 DEF ToWrite
      <4>2. Len(pass.writes) \in Nat \ {0} /\ Len(Tail(pass.writes)) = Len(pass.writes) - 1
        BY <1>4
      <4>3. \A m \in Nat \ {0} : m <= 1 => m = 1
        OBVIOUS
      <4>4. Len(pass.writes) = 1
        BY <4>1, <4>2, <4>3
      <4> QED
        BY <4>2, <4>4
    <3> QED
      BY <1>3, <1>4, <3>1, EmptySeq
  <2> QED
    BY <1>1, <2>2, <2>3 DEF ToWrite, Judged
<1>11. ToSay'
  <2> SUFFICES ASSUME NEW i \in 1..Len(pass'.says) PROVE Says(pass.says[i])'
    BY DEF ToSay
  <2>1. PICK row \in DOMAIN readings : /\ announced(row)
                                       /\ pass'.says[i].event.row = row
                                       /\ pass'.says[i].event.value = new(row)
                                       /\ pass'.says[i].owner = OwnerOf(row)
    BY <1>6
  <2>2. row \in DOMAIN Written /\ Written[row] = new(row)
    BY <1>5, <2>1
  <2> QED
    BY <1>1, <2>1, <2>2 DEF Says, OwnerOf
<1>12. Words'
  <2>1. ASSUME NEW row \in DOMAIN Written, row \notin unsaid
        PROVE  Agree(row)' \/ \E i \in 1..Len(pass'.says) : pass'.says[i].event.row = row
    <3>1. CASE row \notin DOMAIN stored
      BY <1>1, <1>7, <3>1 DEF Agree
    <3>2. CASE row \in DOMAIN stored
      <4>1. Agree(row) /\ told'[row] = told[row]
        BY <1>1, <1>2, <1>7, <2>1, <3>2 DEF Words
      <4>2. CASE row \notin DOMAIN readings
        BY <1>1, <1>5, <4>1, <4>2 DEF Agree
      <4>3. CASE row \in DOMAIN readings /\ ~announced(row)
        BY <1>1, <1>5, <3>2, <4>1, <4>3 DEF Agree
      <4>4. CASE row \in DOMAIN readings /\ announced(row)
        BY <1>6, <4>4
      <4> QED
        BY <4>2, <4>3, <4>4
    <3> QED
      BY <3>1, <3>2
  <2>2. ASSUME NEW o \in Routers \union {"router"} PROVE LastWord(o)'
    <3>1. LastWord(o) /\ DOMAIN told = DOMAIN stored
      BY <1>2 DEF Words, Held
    <3> QED
      BY <1>1, <1>7, <3>1 DEF LastWord, OwnerOf
  <2> QED
    BY <1>1, <2>1, <2>2 DEF Words
<1>13. Outages'
  <2> SUFFICES ASSUME family = "outage_classification" PROVE Outages'
    BY <1>1 DEF Outages
  <2>0. PICK fleet \in SUBSET Routers :
          \E f \in OutageSamples(fleet), k \in 1..Cardinality(fleet) : Assessing(fleet, f, k)
    <3>1. pass.writes # <<>>
      BY DEF Store
    <3> QED
      BY <1>2, <3>1 DEF Outages, Assessment
  <2>1. PICK f \in OutageSamples(fleet), k \in 1..Cardinality(fleet) : Assessing(fleet, f, k)
    BY <2>0
  <2> DEFINE n == Cardinality(fleet)
             at(i) == Order(fleet)[i]
             of(i) == OutageDomain(f, at(i))
  <2>2. /\ n \in Nat /\ \A i \in 1..n : at(i) \in fleet
        /\ \A i, j \in 1..n : at(i) = at(j) => i = j
        /\ \A r \in fleet : \E i \in 1..n : at(i) = r
    BY FleetOrder
  <2>3. /\ Len(pass.writes) = n - k + 1
        /\ \A i \in 1..Len(pass.writes) : pass.writes[i] = Reading(at(k + i - 1), of(k + i - 1))
        /\ \A i \in 1..(k - 1) : at(i) \in DOMAIN stored /\ stored[at(i)] = of(i)
        /\ \A i \in k..n : of(i) = "unknown" => Stored(stored, at(i)) \in {Absent, "unknown"}
        /\ assessed = {at(i) : i \in 1..(k - 1)}
    BY <2>1 DEF Assessing
  <2>4. \A i \in 1..n : of(i) \in Domains /\ of(i) # Absent
    BY <2>2, DomainOfOutage, AbsentAssumption
  <2> HIDE DEF n, at, of
  <2>5. k \in 1..n /\ k + 1 - 1 = k /\ 1 \in 1..Len(pass.writes)
    BY <1>4, <2>1, <2>2 DEF n
  <2>6. DOMAIN readings = {at(k)} /\ new(at(k)) = of(k)
    <3>1. DOMAIN readings = {at(k)} /\ readings[at(k)] = of(k)
      <4>1. pass.writes[1] = Reading(at(k), of(k))
        BY <2>3, <2>5
      <4>2. readings = Reading(at(k), of(k))
        BY <1>4, <4>1
      <4> QED
        BY <4>2 DEF Reading
    <3> QED
      BY <3>1 DEF new, Value
  <2>7. /\ DOMAIN Written = DOMAIN stored \union {at(k)}
        /\ Written[at(k)] = of(k)
        /\ \A row \in DOMAIN stored : row # at(k) => Written[row] = stored[row]
    BY <1>5, <2>4, <2>5, <2>6
  <2>8. ASSUME NEW i \in 1..k PROVE at(i) \in DOMAIN Written /\ Written[at(i)] = of(i)
    <3>1. CASE i = k
      BY <2>7, <3>1
    <3>2. CASE i # k
      <4>1. i \in 1..(k - 1) /\ i \in 1..n
        BY <2>2, <2>5, <2>8, <3>2
      <4>2. at(i) # at(k)
        BY <2>2, <2>5, <3>2, <4>1
      <4> QED
        BY <2>3, <2>7, <4>1, <4>2
    <3> QED
      BY <3>1, <3>2
  <2>9. assessed' = {at(i) : i \in 1..k}
    <3>1. 1..k = 1..(k - 1) \union {k}
      BY <2>2, <2>5
    <3> QED
      BY <1>1, <2>3, <2>6, <3>1
  <2>10. CASE LastWrite
    <3>1. k = n /\ pass'.writes = <<>>
      <4>1. Len(pass.writes) = 1 /\ Len(Tail(pass.writes)) = 0
        BY <1>4, <2>10 DEF LastWrite
      <4>2. k = n
        <5>1. n - k + 1 = 1 /\ n \in Nat /\ k \in 1..n
          BY <2>2, <2>3, <2>5, <4>1
        <5> QED
          BY <5>1
      <4> QED
        BY <1>3, <1>4, <4>1, <4>2, EmptySeq
    <3>2. fleet \subseteq DOMAIN Written /\ \A r \in fleet : Written[r] = OutageDomain(f, r)
      BY <2>2, <2>8, <3>1 DEF of
    <3>3. assessed' = fleet
      BY <2>2, <2>9, <3>1
    <3> QED
      BY <1>1, <3>1, <3>2, <3>3 DEF Outages
  <2>11. CASE ~LastWrite
    <3>1. Len(pass.writes) > 1 /\ k < n /\ k + 1 \in 1..n
      BY <1>4, <2>2, <2>3, <2>5, <2>11 DEF LastWrite
    <3>2. Len(pass'.writes) = n - (k + 1) + 1
      BY <1>4, <2>2, <2>3, <2>5
    <3>3. ASSUME NEW i \in 1..Len(pass'.writes)
          PROVE  pass'.writes[i] = Reading(at((k + 1) + i - 1), of((k + 1) + i - 1))
      <4>1. i + 1 \in 1..Len(pass.writes) /\ k + (i + 1) - 1 = (k + 1) + i - 1
        BY <1>4, <2>5
      <4>2. pass'.writes[i] = pass.writes[i + 1]
        BY <1>4
      <4>3. pass.writes[i + 1] = Reading(at(k + (i + 1) - 1), of(k + (i + 1) - 1))
        BY <2>3, <4>1
      <4> QED
        BY <4>1, <4>2, <4>3
    <3>4. \A i \in 1..((k + 1) - 1) : at(i) \in DOMAIN stored' /\ stored'[at(i)] = of(i)
      BY <1>1, <2>5, <2>8
    <3>5. ASSUME NEW i \in (k + 1)..n, of(i) = "unknown"
          PROVE  Stored(stored', at(i)) \in {Absent, "unknown"}
      <4>1. i \in k..n /\ i \in 1..n /\ i # k
        BY <2>2, <2>5
      <4>2. at(i) # at(k)
        BY <2>2, <2>5, <4>1
      <4>3. Stored(stored', at(i)) = Stored(stored, at(i))
        BY <1>1, <2>7, <4>2 DEF Stored
      <4> QED
        BY <2>3, <3>5, <4>1, <4>3
    <3>6. assessed' = {at(i) : i \in 1..((k + 1) - 1)}
      BY <2>5, <2>9
    <3>7. Assessing(fleet, f, k + 1)'
      BY <3>2, <3>3, <3>4, <3>5, <3>6 DEF Assessing, at, of, n, Stored
    <3>8. pass'.writes # <<>>
      <4>1. Len(pass'.writes) # 0
        BY <2>2, <3>1, <3>2
      <4> QED
        BY <4>1, EmptySeq
    <3> QED
      BY <3>1, <3>7, <3>8 DEF Outages, Assessment, n
  <2> QED
    BY <2>10, <2>11
<1> QED
  BY <1>8, <1>9, <1>10, <1>11, <1>12, <1>13 DEF Consistent

---------------------------------------------------------------------------------
(***************************************************************************)
(* What it comes to.                                                       *)
(***************************************************************************)
(* What is stored, what is still to be said and what the timelines say     *)
(* last fit together for every monitor of Turning.                         *)
THEOREM Invariance == Spec => []MonitorInv
<1>1. Init => LogOK /\ MonitorInv
  BY InitLog, InitConsistent DEF MonitorInv
<1>2. ASSUME LogOK, MonitorInv, [Next]_vars PROVE LogOK' /\ MonitorInv'
  <2>1. LogOK'
    BY <1>2, LogSteps
  <2>2. family' = family
    BY <1>2 DEF Next, vars, family, Start, Store, Say, SelfLock, Cut, Sync, Age, Update, Cleanup
  <2>3. ASSUME family \in Turning PROVE Consistent'
    <3>1. Consistent
      BY <1>2, <2>3 DEF MonitorInv
    <3>2. CASE Start
      BY <2>3, <3>1, <3>2, StartStep
    <3>3. CASE Store
      BY <2>3, <3>1, <3>3, StoreStep
    <3>4. CASE Say
      BY <1>2, <2>3, <3>1, <3>4, SayStep
    <3>5. CASE Cut
      BY <2>3, <3>1, <3>5, CutStep
    <3>6. CASE Sync \/ Age \/ (\E o \in DOMAIN log : Update(o) \/ Cleanup(o)) \/ SelfLock \/ UNCHANGED vars
      BY <1>2, <2>3, <3>1, <3>6, OtherSteps
    <3> QED
      BY <1>2, <3>2, <3>3, <3>4, <3>5, <3>6 DEF Next
  <2> QED
    BY <2>1, <2>2, <2>3 DEF MonitorInv
<1> QED
  BY <1>1, <1>2, PTL DEF Spec

(* Between passes the timeline's last word about a row is the verdict that *)
(* is stored for it, but for what a cut pass left unsaid.                  *)
THEOREM TheLastWordStands == Spec => []LastWordStands
<1>1. MonitorInv => LastWordStands
  <2> SUFFICES ASSUME MonitorInv, family \in Turning, Resting, NEW row \in DOMAIN stored \ unsaid
               PROVE  Agree(row)
    BY DEF LastWordStands
  <2>1. pass.says = <<>>
    BY DEF Resting, Idle
  <2>2. 1..Len(pass.says) = {}
    BY <2>1, EmptySeq
  <2> QED
    BY <2>2 DEF MonitorInv, Consistent, Words
<1> QED
  BY <1>1, Invariance, PTL

(* An assessment blames a router's ISP only with another router of it.     *)
LEMMA Accomplice ==
  ASSUME NEW fleet \in SUBSET Routers, NEW f \in OutageSamples(fleet), NEW r \in fleet,
         OutageDomain(f, r) = "likely_isp"
  PROVE  \E q \in fleet \ {r} : OutageDomain(f, q) = "likely_isp"
<1> DEFINE mates == {q \in Degraded(f) : f[q].isp = f[r].isp}
<1>1. DOMAIN f = fleet /\ \A q \in fleet : f[q].management \in {"none", "ok", "failing", "failed_long_ago"}
  BY DEF OutageSamples
<1>2. \A q : q \in Degraded(f) <=> q \in fleet /\ f[q].management = "failing"
  BY <1>1 DEF Degraded
<1>3. f[r].management = "failing" /\ ~ManyIsps(f) /\ SharedIsp(f, r)
  BY <1>1, <1>2 DEF OutageDomain
<1>4. f[r].isp # "unknown" /\ Cardinality(mates) >= 2
  BY <1>3 DEF SharedIsp
<1>5. IsFiniteSet(mates)
  <2>1. mates \in SUBSET Routers
    BY <1>2
  <2> QED
    BY <2>1, RoutersAssumption, FS_Subset
<1>6. PICK q \in mates : q # r
  <2> SUFFICES ASSUME mates \subseteq {r} PROVE FALSE
    OBVIOUS
  <2> HIDE DEF mates
  <2>1. IsFiniteSet({r}) /\ Cardinality({r}) = 1
    BY FS_Singleton
  <2>2. Cardinality(mates) <= 1 /\ Cardinality(mates) \in Nat
    BY <1>5, <2>1, FS_Subset, FS_CardinalityType
  <2> QED
    BY <1>4, <2>2
<1>7. SharedIsp(f, q)
  BY <1>4, <1>6 DEF SharedIsp
<1>8. OutageDomain(f, q) = "likely_isp"
  BY <1>2, <1>3, <1>6, <1>7 DEF OutageDomain
<1> QED
  BY <1>2, <1>6, <1>8

(* Among the rows an assessment wrote none blames its ISP alone.           *)
THEOREM TheBlameIsShared == Spec => []BlameIsShared
<1>1. MonitorInv => BlameIsShared
  <2> DEFINE blaming == {r \in assessed : stored[r] = "likely_isp"}
  <2> SUFFICES ASSUME MonitorInv, family = "outage_classification", Resting,
                      Cardinality(blaming) = 1
               PROVE  FALSE
    BY DEF BlameIsShared
  <2>1. family \in Turning /\ pass.writes = <<>>
    BY DEF Turning, Resting, Idle
  <2>2. assessed # {}
    <3> SUFFICES ASSUME assessed = {} PROVE FALSE
      OBVIOUS
    <3>1. blaming = {}
      OBVIOUS
    <3> QED
      BY <3>1, FS_EmptySet
  <2>3. assessed \in SUBSET Routers
    BY <2>1, <2>2 DEF MonitorInv, Consistent, Outages
  <2>4. PICK f \in OutageSamples(assessed) : \A r \in assessed : stored[r] = OutageDomain(f, r)
    BY <2>1, <2>2 DEF MonitorInv, Consistent, Outages
  <2>5. \A r \in assessed : r \in blaming <=> OutageDomain(f, r) = "likely_isp"
    BY <2>4
  <2>6. IsFiniteSet(blaming)
    BY <2>3, RoutersAssumption, FS_Subset
  <2>7. blaming \subseteq assessed
    OBVIOUS
  <2> HIDE DEF blaming
  <2>8. PICK r : blaming = {r}
    BY <2>6, FS_Singleton
  <2>9. PICK q \in assessed \ {r} : OutageDomain(f, q) = "likely_isp"
    BY <2>3, <2>5, <2>7, <2>8, Accomplice
  <2> QED
    BY <2>5, <2>8, <2>9
<1> QED
  BY <1>1, Invariance, PTL
===============================================================================
