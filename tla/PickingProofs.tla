---------------------------- MODULE PickingProofs ----------------------------
(***************************************************************************)
(* What filtering a sequence by place keeps; that some of the numbers up   *)
(* to a bound have a largest and a smallest one; and from this, induction  *)
(* over those numbers, of sets instead of predicates, which the provers    *)
(* can apply: that a recursive function over the places of a sequence      *)
(* exists, and what each of its values satisfies.                          *)
(***************************************************************************)
EXTENDS Picking, FiniteSetTheorems, TLAPS

(* The numbers to n. *)

\* Some of them have a largest.
LEMMA HasLargest ==
  ASSUME NEW n \in Nat, NEW K \in SUBSET (0..n), K # {}
  PROVE  \E k \in K : \A j \in K : k >= j
<1> DEFINE Above(k) == {j \in K : j > k}
           F == {Above(k) : k \in K}
<1>1. IsFiniteSet(K) /\ \A k \in K : k \in Int
  <2>1. IsFiniteSet(0..n)
    BY FS_Interval
  <2>2. IsFiniteSet(K)
    BY <2>1, FS_Subset
  <2>3. \A k \in K : k \in Int
    OBVIOUS
  <2> QED
    BY <2>2, <2>3
<1>2. IsWellFoundedOn(StrictSubsetOrdering(K), SUBSET K)
  BY <1>1, FS_StrictSubsetOrderingWellFounded, FS_FiniteSubsetsOfFinite
<1>3. F \in SUBSET (SUBSET K) /\ F # {}
  OBVIOUS
<1> HIDE DEF F
<1>4. \E A \in F : \A B \in F : ~ (<<B, A>> \in StrictSubsetOrdering(K))
  BY <1>2, <1>3, WFMin
<1> USE DEF F
<1>5. PICK k \in K : \A B \in F : ~ (<<B, Above(k)>> \in StrictSubsetOrdering(K))
  BY <1>4
<1>6. ASSUME NEW j \in K, j > k
      PROVE  FALSE
  <2>1. Above(j) \in F /\ j \in Above(k) /\ j \notin Above(j)
    BY <1>1, <1>6
  <2>0. j \in Int /\ k \in Int /\ \A i \in K : i > j => i > k
    BY <1>1, <1>6
  <2>2. Above(j) \subseteq Above(k)
    BY <2>0
  <2>3. <<Above(j), Above(k)>> \in StrictSubsetOrdering(K)
    BY <2>1, <2>2 DEF StrictSubsetOrdering
  <2> QED
    BY <1>5, <2>1, <2>3
<1>7. \A j \in K : k >= j
  BY <1>1, <1>6
<1> QED
  BY <1>7

\* Some of them have a smallest.
LEMMA HasSmallest ==
  ASSUME NEW n \in Nat, NEW K \in SUBSET (0..n), K # {}
  PROVE  \E k \in K : \A j \in K : k <= j
<1> DEFINE L == {n - k : k \in K}
<1>1. L \in SUBSET (0..n) /\ L # {} /\ \A k \in K : k \in Int /\ n - k \in L
  <2>1. \A k \in K : k \in Int /\ n - k \in 0..n /\ n - k \in L
    OBVIOUS
  <2> QED
    BY <2>1
<1>2. PICK l \in L : \A i \in L : l >= i
  BY <1>1, HasLargest
<1>3. PICK k \in K : l = n - k
  BY <1>2
<1> HIDE DEF L
<1>4. \A j \in K : n - k >= n - j
  BY <1>1, <1>2, <1>3
<1> QED
  BY <1>1, <1>4

\* What holds of 0 and of each number after one it holds of, holds of all.
LEMMA Induction ==
  ASSUME NEW n \in Nat, NEW P \in SUBSET (0..n), 0 \in P,
         \A k \in 1..n : k - 1 \in P => k \in P
  PROVE  P = 0..n
<1> DEFINE K == (0..n) \ P
<1>1. ASSUME K # {}
      PROVE  FALSE
  <2>1. PICK k \in K : \A j \in K : k <= j
    BY <1>1, HasSmallest
  <2>2. k \in 1..n /\ k - 1 \in 0..n /\ ~(k <= k - 1)
    OBVIOUS
  <2>3. k - 1 \in P
    BY <2>1, <2>2
  <2> QED
    BY <2>2, <2>3
<1> QED
  BY <1>1

\* What g makes of b, step by step, is a function of the steps.
RunOf(n, S, b, g) ==
  CHOOSE f \in [0..n -> S] : f[0] = b /\ \A k \in 1..n : f[k] = g[k][f[k - 1]]

\* There is such a function.
LEMMA RunIs ==
  ASSUME NEW n \in Nat, NEW S, NEW b \in S, NEW g \in [1..n -> [S -> S]]
  PROVE  LET f == RunOf(n, S, b, g)
         IN f \in [0..n -> S] /\ f[0] = b /\ \A k \in 1..n : f[k] = g[k][f[k - 1]]
<1> DEFINE Goes(f, m) == f[0] = b /\ \A k \in 1..m : f[k] = g[k][f[k - 1]]
           P == {m \in 0..n : \E f \in [0..m -> S] : Goes(f, m)}
<1>1. 0 \in P
  <2> DEFINE f == [i \in 0..0 |-> b]
  <2>1. f \in [0..0 -> S] /\ Goes(f, 0)
    OBVIOUS
  <2> HIDE DEF f, Goes
  <2>2. 0 \in 0..n
    OBVIOUS
  <2> QED
    BY <2>1, <2>2
<1>2. ASSUME NEW m \in 1..n, m - 1 \in P
      PROVE  m \in P
  <2>1. PICK f \in [0..(m - 1) -> S] : Goes(f, m - 1)
    BY <1>2
  <2> DEFINE h == [i \in 0..m |-> IF i = m THEN g[m][f[m - 1]] ELSE f[i]]
  <2>2. m - 1 \in 0..(m - 1) /\ \A i \in 0..m : i = m \/ i \in 0..(m - 1)
    OBVIOUS
  <2>3. g[m][f[m - 1]] \in S
    BY <2>2
  <2>4. h \in [0..m -> S]
    BY <2>2, <2>3
  <2>5. h[0] = b
    BY <2>1
  <2>6. ASSUME NEW k \in 1..m
        PROVE  h[k] = g[k][h[k - 1]]
    <3>1. k \in 0..m /\ k - 1 \in 0..m /\ k - 1 # m
      OBVIOUS
    <3>2. h[k - 1] = f[k - 1]
      BY <3>1
    <3>3. CASE k = m
      BY <3>1, <3>2, <3>3
    <3>4. CASE k # m
      <4>1. k \in 1..(m - 1)
        BY <3>4
      <4>2. f[k] = g[k][f[k - 1]]
        BY <2>1, <4>1
      <4> QED
        BY <3>1, <3>2, <3>4, <4>2
    <3> QED
      BY <3>3, <3>4
  <2>7. Goes(h, m)
    BY <2>5, <2>6
  <2>8. m \in 0..n
    OBVIOUS
  <2> HIDE DEF h, Goes
  <2> QED
    BY <2>4, <2>7, <2>8
<1> HIDE DEF Goes
<1>3. P = 0..n
  <2> HIDE DEF P
  <2>1. P \in SUBSET (0..n)
    BY DEF P
  <2> QED
    BY <1>1, <1>2, <2>1, Induction
<1>4. \E f \in [0..n -> S] : Goes(f, n)
  BY <1>3
<1>5. RunOf(n, S, b, g) = CHOOSE f \in [0..n -> S] : Goes(f, n)
  BY DEF RunOf, Goes
<1>6. RunOf(n, S, b, g) \in [0..n -> S] /\ Goes(RunOf(n, S, b, g), n)
  BY <1>4, <1>5
<1> QED
  BY <1>6 DEF Goes

(* Picking elements of a sequence. *)

\* A set of places is counted through: a place by how many are not after it.
LEMMA Counted ==
  ASSUME NEW n \in Nat, NEW K \in SUBSET (1..n)
  PROVE  /\ Cardinality(K) \in Nat
         /\ \A i \in 1..Cardinality(K) :
              \E k \in K : Cardinality({j \in K : j <= k}) = i
         /\ \A k \in K : Cardinality({j \in K : j <= k}) \in 1..Cardinality(K)
         /\ \A k, l \in K : k # l => Cardinality({j \in K : j <= k}) # Cardinality({j \in K : j <= l})
<1> DEFINE Upto(k) == {j \in K : j <= k}
           N == Cardinality(K)
           rank == [k \in K |-> Cardinality(Upto(k))]
<1>0. \A x \in K : x \in Int
  OBVIOUS
<1>1. IsFiniteSet(K) /\ N \in Nat
  <2>1. IsFiniteSet(1..n)
    BY FS_Interval
  <2>2. IsFiniteSet(K)
    BY <2>1, FS_Subset
  <2> QED
    BY <2>2, FS_CardinalityType
<1>2. ASSUME NEW k \in K
      PROVE  IsFiniteSet(Upto(k)) /\ Cardinality(Upto(k)) \in 1..N
  <2>1. IsFiniteSet(Upto(k)) /\ Cardinality(Upto(k)) <= N /\ Cardinality(Upto(k)) \in Nat
    BY <1>1, FS_Subset, FS_CardinalityType
  <2>2. k \in Upto(k)
    OBVIOUS
  <2>3. Cardinality(Upto(k)) # 0
    BY <2>1, <2>2, FS_EmptySet
  <2> QED
    BY <2>1, <2>3, <1>1
<1>3. ASSUME NEW k \in K, NEW l \in K, k < l
      PROVE  Cardinality(Upto(k)) # Cardinality(Upto(l))
  <2>0. k \in Int /\ l \in Int /\ (\A j \in K : j <= k => j <= l) /\ l <= l /\ ~(l <= k)
    BY <1>3, <1>0
  <2>1. Upto(k) \in SUBSET Upto(l) /\ l \in Upto(l) /\ l \notin Upto(k)
    BY <2>0
  <2> QED
    BY <2>1, <1>2, FS_Subset
<1>4. \A k, l \in K : k # l => Cardinality(Upto(k)) # Cardinality(Upto(l))
  <2>1. \A k, l \in K : k = l \/ k < l \/ l < k
    OBVIOUS
  <2> QED
    BY <2>1, <1>3
<1>5. rank \in Injection(K, 1..N)
  BY <1>2, <1>4 DEF Injection, IsInjective
<1>6. IsFiniteSet(1..N) /\ Cardinality(1..N) = N
  BY <1>1, FS_Interval
<1>7. rank \in Surjection(K, 1..N)
  BY <1>1, <1>5, <1>6, FS_Injection
<1>8. \A i \in 1..N : \E k \in K : rank[k] = i
  BY <1>7 DEF Surjection
<1> QED
  BY <1>1, <1>2, <1>4, <1>8

\* Picked keeps exactly the elements at the places it is given.
LEMMA PickedIs ==
  ASSUME NEW T, NEW s \in Seq(T), NEW K \in SUBSET DOMAIN s
  PROVE  /\ Picked(s, K) \in Seq(T)
         /\ \A i \in DOMAIN Picked(s, K) : \E k \in K : Picked(s, K)[i] = s[k]
         /\ \A k \in K : \E i \in DOMAIN Picked(s, K) : Picked(s, K)[i] = s[k]
<1> DEFINE N == Cardinality(K)
           at(i) == CHOOSE k \in K : Cardinality({j \in K : j <= k}) = i
           p == [i \in 1..N |-> s[at(i)]]
<1>1. Picked(s, K) = p
  BY DEF Picked
<1>2. Len(s) \in Nat /\ DOMAIN s = 1..Len(s) /\ \A k \in 1..Len(s) : s[k] \in T
  OBVIOUS
<1>3. /\ N \in Nat
      /\ \A i \in 1..N : \E k \in K : Cardinality({j \in K : j <= k}) = i
      /\ \A k \in K : Cardinality({j \in K : j <= k}) \in 1..N
      /\ \A k, l \in K : k # l => Cardinality({j \in K : j <= k}) # Cardinality({j \in K : j <= l})
  <2>1. K \in SUBSET (1..Len(s))
    BY <1>2
  <2> QED
    BY <1>2, <2>1, Counted
<1>4. \A i \in 1..N : at(i) \in K /\ Cardinality({j \in K : j <= at(i)}) = i
  BY <1>3
<1>5. \A k \in K : at(Cardinality({j \in K : j <= k})) = k
  BY <1>3, <1>4
<1> HIDE DEF at, N
<1>6. DOMAIN p = 1..N /\ p \in Seq(T)
  <2>1. \A i \in 1..N : s[at(i)] \in T
    BY <1>2, <1>4
  <2>2. p \in [1..N -> T]
    BY <2>1
  <2> QED
    BY <2>2, <1>3 DEF N
<1>7. \A i \in 1..N : \E k \in K : p[i] = s[k]
  BY <1>4
<1>8. \A k \in K : \E i \in 1..N : p[i] = s[k]
  BY <1>3, <1>5 DEF N
<1> HIDE DEF p
<1> QED
  BY <1>1, <1>6, <1>7, <1>8

\* The last element is the last one kept, when its place is picked.
LEMMA PickedLast ==
  ASSUME NEW T, NEW s \in Seq(T), NEW K \in SUBSET DOMAIN s, Len(s) \in K
  PROVE  Picked(s, K) # << >> /\ Picked(s, K)[Len(Picked(s, K))] = s[Len(s)]
<1> DEFINE N == Cardinality(K)
           rank(k) == Cardinality({j \in K : j <= k})
           at(i) == CHOOSE k \in K : rank(k) = i
           p == [i \in 1..N |-> s[at(i)]]
<1>1. Picked(s, K) = p
  BY DEF Picked
<1>2. Len(s) \in Nat /\ K \in SUBSET (1..Len(s))
  OBVIOUS
<1>3. /\ N \in Nat
      /\ \A k \in K : rank(k) \in 1..N
      /\ \A k, l \in K : k # l => rank(k) # rank(l)
  BY <1>2, Counted
<1>4. {j \in K : j <= Len(s)} = K
  BY <1>2
<1>5. rank(Len(s)) = N
  BY <1>4
<1>6. N \in 1..N
  BY <1>3, <1>5
<1>7. at(N) = Len(s)
  BY <1>3, <1>5
<1> HIDE DEF at, N, rank
<1>8. DOMAIN p = 1..N /\ p[N] = s[Len(s)]
  BY <1>6, <1>7
<1>9. Len(p) = N
  BY <1>3, <1>8
<1>10. p # << >>
  BY <1>6, <1>8
<1> QED
  BY <1>1, <1>8, <1>9, <1>10

\* What is picked comes from different places.
LEMMA PickedPlaces ==
  ASSUME NEW T, NEW s \in Seq(T), NEW K \in SUBSET DOMAIN s
  PROVE  LET p == Picked(s, K)
         IN /\ Len(p) \in Nat /\ Len(p) <= Len(s)
            /\ \E at \in [DOMAIN p -> K] :
                 /\ \A i \in DOMAIN p : p[i] = s[at[i]]
                 /\ \A i, j \in DOMAIN p : i # j => at[i] # at[j]
<1> DEFINE N == Cardinality(K)
           rank(k) == Cardinality({j \in K : j <= k})
           pick(i) == CHOOSE k \in K : rank(k) = i
           p == [i \in 1..N |-> s[pick(i)]]
           at == [i \in 1..N |-> pick(i)]
<1>1. Picked(s, K) = p
  BY DEF Picked
<1>2. Len(s) \in Nat /\ K \in SUBSET (1..Len(s))
  OBVIOUS
<1>3. N \in Nat /\ \A i \in 1..N : \E k \in K : rank(k) = i
  BY <1>2, Counted
<1>4. N <= Len(s)
  <2> DEFINE m == Len(s)
  <2>0. m \in Nat /\ 1 \in Int /\ m \in Int /\ m - 1 + 1 = m /\ (m = 0 => ~(1 <= m))
    BY <1>2
  <2> HIDE DEF m
  <2>2. IsFiniteSet(1..m) /\ Cardinality(1..m) = IF 1 > m THEN 0 ELSE m - 1 + 1
    BY <2>0, FS_Interval
  <2>1. IsFiniteSet(1..Len(s)) /\ Cardinality(1..Len(s)) = Len(s)
    BY <2>0, <2>2 DEF m
  <2> QED
    BY <1>2, <2>1, FS_Subset
<1>5. \A i \in 1..N : pick(i) \in K /\ rank(pick(i)) = i
  BY <1>3
<1> HIDE DEF pick, rank, N
<1>6. Len(p) = N /\ DOMAIN p = 1..N
  BY <1>3
<1>7. at \in [1..N -> K]
  BY <1>5
<1>8. \A i \in 1..N : p[i] = s[at[i]]
  OBVIOUS
<1>9. \A i, j \in 1..N : i # j => at[i] # at[j]
  BY <1>5
<1> HIDE DEF p, at
<1> QED
  BY <1>1, <1>3, <1>4, <1>6, <1>7, <1>8, <1>9

\* Who picks all keeps all.
LEMMA PickedAll ==
  ASSUME NEW T, NEW s \in Seq(T)
  PROVE  Picked(s, DOMAIN s) = s
<1> DEFINE n == Len(s)
           K == 1..n
           rank(k) == Cardinality({j \in K : j <= k})
<1>1. n \in Nat /\ DOMAIN s = K /\ s = [i \in K |-> s[i]]
  OBVIOUS
<1> HIDE DEF n
<1>2. ASSUME NEW k \in K
      PROVE  rank(k) = k
  <2>1. {j \in K : j <= k} = 1..k
    BY <1>1
  <2>2. 1 \in Int /\ k \in Int /\ ~(1 > k) /\ k - 1 + 1 = k
    BY <1>1
  <2>3. Cardinality(1..k) = IF 1 > k THEN 0 ELSE k - 1 + 1
    BY <2>2, FS_Interval
  <2> QED
    BY <2>1, <2>2, <2>3
<1>3. Cardinality(K) = n
  <2>1. 1 \in Int /\ n \in Int /\ (IF 1 > n THEN 0 ELSE n - 1 + 1) = n
    BY <1>1
  <2> QED
    BY <2>1, FS_Interval
<1>4. \A i \in K : (CHOOSE k \in K : rank(k) = i) = i
  BY <1>2
<1>5. Picked(s, K) = [i \in 1..Cardinality(K) |-> s[CHOOSE k \in K : rank(k) = i]]
  BY DEF Picked
<1> HIDE DEF rank
<1>6. Picked(s, K) = [i \in K |-> s[i]]
  BY <1>3, <1>4, <1>5
<1> QED
  BY <1>1, <1>6
=============================================================================
