------------------------ MODULE AccessControlProofs ------------------------
(***************************************************************************)
(* The theorems about AccessControl, for every set of accounts,            *)
(* workspaces, links and sessions, for all limits and every behaviour that *)
(* starts from a consistent database.                                      *)
(*                                                                         *)
(* First the statements it is built from: what UsageLimits counts and      *)
(* chooses (the bytes of snapshots, the latest sessions, how long a        *)
(* refused allocation has to wait), which columns each statement leaves    *)
(* alone and what it makes of the others, what requests range over, and    *)
(* that the revisions move on with what they guard.  Then the invariant    *)
(* (Sound), with one part per property: each statement keeps it but for    *)
(* the account or the workspace that a batch is in the middle of changing. *)
(* Then every operation keeps the invariant and moves the revisions on,    *)
(* and so does every step.  At the end, what a step may never do: lose the *)
(* last administrator, let somebody in who was not invited, give an        *)
(* identity away, or create what a circuit pauses.  Most batches give      *)
(* nobody anything (Modest); the seven that do are treated one by one.     *)
(***************************************************************************)
EXTENDS AccessControl, FiniteSetTheorems, TLAPS

(* Smallest elements, and the latest of finitely many. *)

\* Of finitely many sets one contains no other.
LEMMA SmallestSet ==
  ASSUME NEW S, IsFiniteSet(S), NEW F \in SUBSET (SUBSET S), F # {}
  PROVE  \E A \in F : \A B \in F : B \subseteq A => B = A
<1> DEFINE R == StrictSubsetOrdering(S)
<1>1. IsWellFoundedOn(R, SUBSET S)
  BY FS_StrictSubsetOrderingWellFounded, FS_FiniteSubsetsOfFinite
<1>2. \E A \in F : \A B \in F : ~ (<<B, A>> \in R)
  BY <1>1, WFMin
<1> QED
  BY <1>2 DEF StrictSubsetOrdering

\* Finitely many times have an earliest.
LEMMA Earliest ==
  ASSUME NEW S, IsFiniteSet(S), S # {}, NEW time, \A x \in S : time[x] \in Int
  PROVE  \E x \in S : \A y \in S : time[x] <= time[y]
<1> DEFINE Before(x) == {y \in S : time[y] < time[x]}
           F == {Before(x) : x \in S}
<1>1. F \in SUBSET (SUBSET S) /\ F # {}
  OBVIOUS
<1> HIDE DEF F
<1>2. PICK A \in F : \A B \in F : B \subseteq A => B = A
  BY <1>1, SmallestSet
<1> USE DEF F
<1>3. PICK x \in S : A = Before(x)
  BY <1>2
<1>4. ASSUME NEW y \in S, time[y] < time[x]
      PROVE  FALSE
  <2>1. Before(y) \in F /\ Before(y) \subseteq A
    BY <1>3, <1>4
  <2>2. Before(y) = A
    BY <1>2, <2>1
  <2>3. y \in A /\ y \notin Before(y)
    BY <1>3, <1>4
  <2> QED
    BY <2>2, <2>3
<1> QED
  BY <1>4

\* The smaller of two numbers.
LEMMA SmallerIs ==
  ASSUME NEW m \in Int, NEW n \in Int
  PROVE  Min({m, n}) = IF m <= n THEN m ELSE n
<1> DEFINE k == IF m <= n THEN m ELSE n
<1>1. k \in {m, n} /\ \A y \in {m, n} : k <= y
  OBVIOUS
<1>2. \A x \in {m, n} : (\A y \in {m, n} : x <= y) => x = k
  OBVIOUS
<1> QED
  BY <1>1, <1>2 DEF Min

\* There are latest n of finitely many sessions, so that Latest is that many.
LEMMA LatestIs ==
  ASSUME NEW X, IsFiniteSet(X), NEW n \in Nat, NEW time, \A x \in X : time[x] \in Int
  PROVE  /\ Latest(X, n, time) \in SUBSET X
         /\ Cardinality(Latest(X, n, time)) <= n
<1> DEFINE m == Min({n, Cardinality(X)})
           Later(K) == \A x \in K, y \in X \ K : time[x] >= time[y]
           F == {K \in SUBSET X : Cardinality(K) >= m /\ Later(K)}
<1>1. Cardinality(X) \in Nat
  BY FS_CardinalityType
<1>2. m \in Nat /\ m <= n /\ m <= Cardinality(X)
  BY <1>1, SmallerIs
<1> HIDE DEF m
<1>3. X \in F /\ F \in SUBSET (SUBSET X)
  BY <1>1, <1>2
<1> HIDE DEF F
<1>4. PICK K \in F : \A B \in F : B \subseteq K => B = K
  BY <1>3, SmallestSet
<1> USE DEF F
<1>5. IsFiniteSet(K) /\ Cardinality(K) \in Nat
  BY <1>4, FS_Subset, FS_CardinalityType
<1>6. Cardinality(K) = m
  <2>1. SUFFICES ASSUME Cardinality(K) > m
                 PROVE  FALSE
    BY <1>2, <1>4, <1>5
  <2>2. K # {}
    BY <1>2, <2>1, FS_EmptySet
  <2>3. PICK x \in K : \A y \in K : time[x] <= time[y]
    BY <1>4, <1>5, <2>2, Earliest
  <2>4. Cardinality(K \ {x}) = Cardinality(K) - 1
    BY <1>5, <2>3, FS_RemoveElement
  <2>5. Cardinality(K \ {x}) >= m
    BY <1>2, <1>5, <2>1, <2>4
  <2>6. Later(K \ {x})
    BY <1>4, <2>3
  <2>7. K \ {x} \in F
    BY <1>4, <2>5, <2>6
  <2> QED
    BY <1>4, <2>3, <2>7
<1>7. \E L \in SUBSET X : Cardinality(L) = m /\ Later(L)
  BY <1>4, <1>6
<1> DEFINE L == CHOOSE L \in SUBSET X : Cardinality(L) = m /\ Later(L)
<1>8. L \in SUBSET X /\ Cardinality(L) = m
  BY <1>7
<1>9. Latest(X, n, time) = L
  BY DEF Latest, m
<1> HIDE DEF L
<1> QED
  BY <1>2, <1>8, <1>9

-----------------------------------------------------------------------------
(* The bytes of the snapshots of a set of workspaces. *)

BytesIn(d, W) == UNION {{w} \X (1..d.bytes[w]) : w \in W}

\* They are finitely many.
LEMMA BytesFinite ==
  ASSUME NEW d, d.bytes \in [Workspace -> Nat], NEW W \in SUBSET Workspace
  PROVE  /\ IsFiniteSet(BytesIn(d, W))
         /\ BytesOf(d, W) = Cardinality(BytesIn(d, W))
         /\ BytesOf(d, W) \in Nat
<1> DEFINE S == {{w} \X (1..d.bytes[w]) : w \in W}
           f == [w \in W |-> {w} \X (1..d.bytes[w])]
<1>1. IsFiniteSet(W)
  BY FiniteAssumption, FS_Subset
<1>2. f \in Surjection(W, S)
  BY DEF Surjection
<1>3. IsFiniteSet(S)
  BY <1>1, <1>2, FS_Surjection
<1>4. \A T \in S : IsFiniteSet(T)
  <2>1. ASSUME NEW w \in W PROVE IsFiniteSet({w} \X (1..d.bytes[w]))
    <3>1. d.bytes[w] \in Int
      OBVIOUS
    <3>2. IsFiniteSet(1..d.bytes[w])
      BY <3>1, FS_Interval
    <3>3. IsFiniteSet({w})
      BY FS_Singleton
    <3> QED
      BY <3>2, <3>3, FS_Product
  <2> QED
    BY <2>1
<1>5. IsFiniteSet(UNION S)
  BY <1>3, <1>4, FS_UNION
<1> QED
  BY <1>5, FS_CardinalityType DEF BytesIn, BytesOf

\* The bytes of two sets that share no workspace add up.
LEMMA BytesAdd ==
  ASSUME NEW d, d.bytes \in [Workspace -> Nat],
         NEW V \in SUBSET Workspace, NEW W \in SUBSET Workspace, V \cap W = {}
  PROVE  BytesOf(d, V \cup W) = BytesOf(d, V) + BytesOf(d, W)
<1>1. BytesIn(d, V \cup W) = BytesIn(d, V) \cup BytesIn(d, W)
  BY DEF BytesIn
<1>2. BytesIn(d, V) \cap BytesIn(d, W) = {}
  BY DEF BytesIn
<1>3. /\ IsFiniteSet(BytesIn(d, V)) /\ IsFiniteSet(BytesIn(d, W))
      /\ BytesOf(d, V) = Cardinality(BytesIn(d, V))
      /\ BytesOf(d, W) = Cardinality(BytesIn(d, W))
      /\ BytesOf(d, V) \in Nat /\ BytesOf(d, W) \in Nat
  BY BytesFinite
<1>4. BytesOf(d, V \cup W) = Cardinality(BytesIn(d, V) \cup BytesIn(d, W))
  BY <1>1, BytesFinite
<1>5. Cardinality(BytesIn(d, V) \cap BytesIn(d, W)) = 0
  BY <1>2, FS_EmptySet
<1>6. Cardinality(BytesIn(d, V) \cup BytesIn(d, W))
        = Cardinality(BytesIn(d, V)) + Cardinality(BytesIn(d, W))
            - Cardinality(BytesIn(d, V) \cap BytesIn(d, W))
  BY <1>3, FS_Union
<1> QED
  BY <1>3, <1>4, <1>5, <1>6

\* One workspace has the bytes of its snapshot.
LEMMA BytesOfOne ==
  ASSUME NEW d, d.bytes \in [Workspace -> Nat], NEW w \in Workspace
  PROVE  BytesOf(d, {w}) = d.bytes[w]
<1>1. BytesIn(d, {w}) = {w} \X (1..d.bytes[w])
  BY DEF BytesIn
<1>2. IsFiniteSet({w}) /\ Cardinality({w}) = 1
  BY FS_Singleton
<1>3. IsFiniteSet(1..d.bytes[w]) /\ Cardinality(1..d.bytes[w]) = d.bytes[w]
  BY FS_Interval, SMTT(30)
<1>4. Cardinality({w} \X (1..d.bytes[w])) = d.bytes[w]
  <2> DEFINE one == {w}
             bytes == 1..d.bytes[w]
  <2> HIDE DEF one, bytes
  <2>1. Cardinality(one \X bytes) = Cardinality(one) * Cardinality(bytes)
    <3>1. IsFiniteSet(one) /\ IsFiniteSet(bytes)
      BY <1>2, <1>3 DEF one, bytes
    <3> QED BY <3>1, FS_Product, Zenon
  <2>2. Cardinality(one) = 1 /\ Cardinality(bytes) = d.bytes[w] /\ d.bytes[w] \in Nat
    BY <1>2, <1>3 DEF one, bytes
  <2>3. Cardinality(one \X bytes) = d.bytes[w]
    BY <2>1, <2>2
  <2> QED BY <2>3 DEF one, bytes
<1>5. BytesOf(d, {w}) = Cardinality(BytesIn(d, {w}))
  BY BytesFinite
<1> QED
  BY <1>1, <1>4, <1>5

\* Fewer workspaces have fewer bytes.
LEMMA BytesFewer ==
  ASSUME NEW d, d.bytes \in [Workspace -> Nat],
         NEW W \in SUBSET Workspace, NEW V \in SUBSET W
  PROVE  BytesOf(d, V) <= BytesOf(d, W)
<1>1. BytesIn(d, V) \subseteq BytesIn(d, W)
  BY DEF BytesIn
<1>2. /\ IsFiniteSet(BytesIn(d, W)) /\ BytesOf(d, V) = Cardinality(BytesIn(d, V))
      /\ BytesOf(d, W) = Cardinality(BytesIn(d, W))
  BY BytesFinite
<1> QED
  BY <1>1, <1>2, FS_Subset

\* Workspaces whose snapshots are the same have the same bytes.
LEMMA BytesSame ==
  ASSUME NEW d, NEW e, NEW W, \A w \in W : e.bytes[w] = d.bytes[w]
  PROVE  BytesOf(e, W) = BytesOf(d, W)
<1>1. {{w} \X (1..e.bytes[w]) : w \in W} = {{w} \X (1..d.bytes[w]) : w \in W}
  OBVIOUS
<1> QED
  BY <1>1 DEF BytesOf
-----------------------------------------------------------------------------
(* Days, and what is counted of the rows that are kept. *)

\* Two times of one day are less than a day apart; a later time is not of an
\* earlier day; a day begins with a time of its own.
LEMMA DaysAre ==
  /\ \A s \in Int, t \in Int : DayOf(s) = DayOf(t) => s > t - DayTicks
  /\ \A s \in Int, t \in Int : s <= t => DayOf(s) <= DayOf(t)
  /\ \A t \in Int : /\ DayOf(t) \in Int
                    /\ DayOf((DayOf(t) + 1) * DayTicks) = DayOf(t) + 1
<1>1. DayTicks \in Nat \ {0}
  BY LimitsAssumption
<1>2. ASSUME NEW t \in Int
      PROVE  /\ t \div DayTicks \in Int
             /\ DayTicks * (t \div DayTicks) <= t
             /\ t < DayTicks * (t \div DayTicks) + DayTicks
  BY <1>1
<1>3. ASSUME NEW s \in Int, NEW t \in Int, s <= t
      PROVE  s \div DayTicks <= t \div DayTicks
  BY <1>1, <1>3
<1>4. ASSUME NEW n \in Int PROVE (n * DayTicks) \div DayTicks = n
  BY <1>1
<1>5. ASSUME NEW s \in Int, NEW t \in Int, s \div DayTicks = t \div DayTicks
      PROVE  s > t - DayTicks
  <2> DEFINE q == DayTicks * (s \div DayTicks)
  <2>1. q <= s /\ t < q + DayTicks
    BY <1>2, <1>5
  <2>2. q \in Int
    BY <1>1, <1>2
  <2> HIDE DEF q
  <2> QED
    BY <1>1, <2>1, <2>2
<1>6. ASSUME NEW t \in Int
      PROVE  ((t \div DayTicks + 1) * DayTicks) \div DayTicks = t \div DayTicks + 1
  <2>1. t \div DayTicks + 1 \in Int
    BY <1>2
  <2> QED
    BY <1>4, <2>1
<1> QED
  BY <1>2, <1>3, <1>5, <1>6 DEF DayOf

\* What is kept of the rows of u.
RowsOf(d, what, u) ==
  LET rows == d.ledger[what][u] IN
  rows.at \in Seq(Int) /\ rows.kept \subseteq DOMAIN rows.at

\* The rows that are counted are finitely many, each with its time.
LEMMA CountedRows ==
  ASSUME NEW d, NEW what, NEW u, RowsOf(d, what, u)
  PROVE  /\ IsFiniteSet(Created(d, what, u))
         /\ \A n \in Created(d, what, u) : TimeOf(d, what, u, n) \in Int
         /\ \A S \in SUBSET Created(d, what, u) :
              IsFiniteSet(S) /\ Cardinality(S) \in Nat
<1> DEFINE times == d.ledger[what][u].at
<1>1. times \in Seq(Int) /\ Created(d, what, u) \subseteq DOMAIN times
  BY DEF RowsOf, Created
<1>2. DOMAIN times = 1..Len(times) /\ Len(times) \in Nat
  BY <1>1, SMTT(30)
<1>3. IsFiniteSet(1..Len(times))
  BY <1>2, FS_Interval
<1>4. IsFiniteSet(Created(d, what, u))
  BY <1>1, <1>2, <1>3, FS_Subset
<1>5. \A n \in DOMAIN times : times[n] \in Int
  BY <1>1, <1>2
<1> QED
  BY <1>1, <1>4, <1>5, FS_Subset, FS_CardinalityType DEF TimeOf

-----------------------------------------------------------------------------
(* The wait of a refused allocation. *)

\* When there are at least as many rows as the limit, one is the last to leave.
LEMMA OneLeavesLast ==
  ASSUME NEW d, NEW u, RowsOf(d, "workspace", u),
         NEW S \in SUBSET Created(d, "workspace", u),
         Cardinality(S) >= WindowLimit["workspace"]
  PROVE  LastToLeave(d, u, S) # {}
<1> DEFINE time(n) == TimeOf(d, "workspace", u, n)
           From(n) == {k \in S : time(k) >= time(n)}
           After(n) == {k \in S : time(k) > time(n)}
           limit == WindowLimit["workspace"]
           F == {From(n) : n \in {k \in S : Cardinality(From(k)) >= limit}}
<1>1. IsFiniteSet(S) /\ \A n \in S : time(n) \in Int
  BY CountedRows
<1>2. limit \in Nat \ {0}
  BY LimitsAssumption
<1>3. S # {}
  BY <1>1, <1>2, FS_EmptySet
<1>4. PICK x \in S : \A y \in S : time(x) <= time(y)
  <2> DEFINE f == [n \in S |-> time(n)]
  <2>1. \A n \in S : f[n] \in Int
    BY <1>1
  <2>2. \E x \in S : \A y \in S : f[x] <= f[y]
    BY <1>1, <1>3, <2>1, Earliest
  <2> QED
    BY <2>2
<1>5. From(x) = S
  BY <1>1, <1>4
<1>6. From(x) \in F /\ F \in SUBSET (SUBSET S)
  BY <1>5
<1> HIDE DEF F
<1>7. PICK A \in F : \A B \in F : B \subseteq A => B = A
  BY <1>1, <1>6, SmallestSet
<1> USE DEF F
<1>8. PICK n \in S : A = From(n) /\ Cardinality(From(n)) >= limit
  BY <1>7
<1>9. Cardinality(After(n)) < limit
  <2>1. SUFFICES ASSUME Cardinality(After(n)) >= limit
                 PROVE  FALSE
    <3>1. Cardinality(After(n)) \in Nat
      BY CountedRows
    <3> QED
      BY <1>2, <3>1
  <2>2. IsFiniteSet(After(n)) /\ After(n) # {}
    BY <1>1, <1>2, <2>1, FS_Subset, FS_EmptySet
  <2>3. PICK m \in After(n) : \A y \in After(n) : time(m) <= time(y)
    <3> DEFINE f == [k \in After(n) |-> time(k)]
    <3>1. \A k \in After(n) : f[k] \in Int
      BY <1>1
    <3> HIDE DEF After
    <3>2. \E z \in After(n) : \A y \in After(n) : f[z] <= f[y]
      BY <2>2, <3>1, Earliest
    <3> QED
      BY <3>2
  <2>4. From(m) = After(n)
    BY <1>1, <1>8, <2>3
  <2>5. From(m) \in F /\ From(m) \subseteq A
    <3>1. Cardinality(From(m)) >= limit /\ m \in S
      BY <2>1, <2>3, <2>4
    <3>2. After(n) \subseteq From(n)
      BY <1>1
    <3> QED
      BY <1>8, <2>4, <3>1, <3>2
  <2>6. n \in A /\ n \notin From(m)
    BY <1>1, <1>8, <2>4
  <2> QED
    BY <1>7, <2>5, <2>6
<1>10. n \in LastToLeave(d, u, S)
  BY <1>8, <1>9 DEF LastToLeave
<1> QED
  BY <1>10

\* The last to leave have one time.
LEMMA OneTime ==
  ASSUME NEW d, NEW u, RowsOf(d, "workspace", u),
         NEW S \in SUBSET Created(d, "workspace", u),
         NEW m \in LastToLeave(d, u, S), NEW n \in LastToLeave(d, u, S)
  PROVE  TimeOf(d, "workspace", u, m) = TimeOf(d, "workspace", u, n)
<1> DEFINE time(k) == TimeOf(d, "workspace", u, k)
           From(k) == {l \in S : time(l) >= time(k)}
           After(k) == {l \in S : time(l) > time(k)}
           limit == WindowLimit["workspace"]
<1>1. ASSUME NEW j \in LastToLeave(d, u, S), NEW k \in LastToLeave(d, u, S)
      PROVE  ~ (time(j) < time(k))
  <2>1. SUFFICES ASSUME time(j) < time(k)
                 PROVE  FALSE
    OBVIOUS
  <2>2. /\ j \in S /\ k \in S
        /\ Cardinality(After(j)) < limit /\ Cardinality(From(k)) >= limit
    BY DEF LastToLeave
  <2>3. \A l \in S : time(l) \in Int
    BY CountedRows
  <2>4. From(k) \subseteq After(j)
    BY <2>1, <2>2, <2>3
  <2>5. IsFiniteSet(After(j)) /\ Cardinality(After(j)) \in Nat
        /\ Cardinality(From(k)) \in Nat
    BY CountedRows
  <2>6. Cardinality(From(k)) <= Cardinality(After(j))
    BY <2>4, <2>5, FS_Subset
  <2>7. limit \in Nat
    BY LimitsAssumption
  <2> QED
    BY <2>2, <2>5, <2>6, <2>7
<1>2. time(m) \in Int /\ time(n) \in Int
  BY CountedRows DEF LastToLeave
<1> QED
  BY <1>1, <1>2

\* The longest of the waits is one of them, if there is any, and none is longer.
LEMMA LongestWait ==
  ASSUME NEW d, NEW u, RowsOf(d, "workspace", u), NEW at \in Int
  PROVE  LET waits == DayWait(d, u, at) \cup RollingWait(d, u, at) IN
         RetryAfter(d, u, at) \in Nat /\ \A t \in waits : RetryAfter(d, u, at) >= t
<1> DEFINE recent == CreatedSince(d, "workspace", u, at)
           waits == DayWait(d, u, at) \cup RollingWait(d, u, at)
           a == (DayOf(at) + 1) * DayTicks - at
<1>1. recent \in SUBSET Created(d, "workspace", u)
  BY DEF CreatedSince
<1>2. a \in Nat
  <2> DEFINE next == (DayOf(at) + 1) * DayTicks
  <2>1. DayTicks \in Nat
    BY LimitsAssumption
  <2>2. next \in Int /\ DayOf(next) = DayOf(at) + 1 /\ DayOf(at) \in Int
    BY <2>1, DaysAre
  <2> HIDE DEF next
  <2>3. next - at \in Nat
    BY <2>2, DaysAre
  <2> QED
    BY <2>3 DEF next
<1>3. DayWait(d, u, at) \in {{}, {a}}
  BY DEF DayWait
<1>4. \E b \in Nat : RollingWait(d, u, at) \in {{}, {b}}
  <2>1. CASE LastToLeave(d, u, recent) = {}
    <3>1. RollingWait(d, u, at) = {}
      BY <2>1 DEF RollingWait
    <3> QED
      BY <3>1
  <2>2. CASE LastToLeave(d, u, recent) # {}
    <3>1. PICK m \in LastToLeave(d, u, recent) : TRUE
      BY <2>2
    <3> DEFINE b == TimeOf(d, "workspace", u, m) + WindowTicks - at
    <3>2. /\ TimeOf(d, "workspace", u, m) \in Int
          /\ TimeOf(d, "workspace", u, m) > at - WindowTicks
      BY <1>1, CountedRows DEF LastToLeave, CreatedSince
    <3>3. b \in Nat
      BY <3>2, LimitsAssumption
    <3>4. \A n \in LastToLeave(d, u, recent) :
            TimeOf(d, "workspace", u, n) + WindowTicks - at = b
      BY <1>1, <3>1, OneTime
    <3>5. RollingWait(d, u, at) = {b}
      BY <3>1, <3>4 DEF RollingWait
    <3> QED
      BY <3>3, <3>5
  <2> QED
    BY <2>1, <2>2
<1>5. PICK b \in Nat : RollingWait(d, u, at) \in {{}, {b}}
  BY <1>4
<1> HIDE DEF a
<1>6. waits # {} => \E x \in waits : \A y \in waits : x >= y
  BY <1>2, <1>3, <1>5
<1>7. waits \subseteq Nat
  BY <1>2, <1>3, <1>5
<1>8. RetryAfter(d, u, at) = IF waits = {} THEN 0 ELSE Max(waits)
  BY DEF RetryAfter
<1> HIDE DEF waits
<1>9. ASSUME waits # {}
      PROVE  Max(waits) \in waits /\ \A y \in waits : Max(waits) >= y
  <2>1. \E x \in waits : \A y \in waits : x >= y
    BY <1>6, <1>9
  <2> QED
    BY <2>1 DEF Max
<1>10. RetryAfter(d, u, at) \in Nat /\ \A t \in waits : RetryAfter(d, u, at) >= t
  <2>1. CASE waits = {}
    BY <1>8, <2>1
  <2>2. CASE waits # {}
    BY <1>7, <1>8, <1>9, <2>2
  <2> QED
    BY <2>1, <2>2
<1> QED
  BY <1>10 DEF waits

\* What refuses an allocation now does not when its wait has passed: the rows of
\* the day are of an earlier day, and the last to leave has left the window.
LEMMA WaitIsEnough ==
  ASSUME NEW d, NEW u, RowsOf(d, "workspace", u), NEW at \in Int,
         \A n \in Created(d, "workspace", u) : TimeOf(d, "workspace", u, n) <= at
  PROVE  LET later == at + RetryAfter(d, u, at) IN
         DayWait(d, u, later) = {} /\ RollingWait(d, u, later) = {}
<1> DEFINE rows == Created(d, "workspace", u)
           time(n) == TimeOf(d, "workspace", u, n)
           later == at + RetryAfter(d, u, at)
           waits == DayWait(d, u, at) \cup RollingWait(d, u, at)
           thatDay(t) == CreatedThatDay(d, "workspace", u, t)
           since(t) == CreatedSince(d, "workspace", u, t)
           limit == WindowLimit["workspace"]
<1>1. later \in Int /\ later >= at /\ \A t \in waits : later >= at + t
  <2>1. waits \subseteq Int
    <3>1. \A n \in LastToLeave(d, u, since(at)) : time(n) \in Int
      BY CountedRows DEF LastToLeave, CreatedSince
    <3>2. (DayOf(at) + 1) * DayTicks - at \in Int
      <4>1. DayOf(at) \in Int
        BY DaysAre
      <4>2. DayTicks \in Int
        BY LimitsAssumption
      <4> QED
        BY <4>1, <4>2
    <3> QED
      BY <3>1, <3>2, LimitsAssumption DEF DayWait, RollingWait
  <2>2. RetryAfter(d, u, at) \in Nat /\ \A t \in waits : RetryAfter(d, u, at) >= t
    BY LongestWait
  <2> HIDE DEF waits
  <2> QED
    BY <2>1, <2>2
<1>2. \A n \in rows : time(n) \in Int /\ time(n) <= at
  BY CountedRows
<1>3. DayLimit["workspace"] \in Nat \ {0} /\ limit \in Nat \ {0}
      /\ WindowTicks \in Nat /\ DayTicks \in Nat
  BY LimitsAssumption
<1>4. thatDay(at) \subseteq rows /\ thatDay(later) \subseteq rows
      /\ since(at) \subseteq rows /\ since(later) \subseteq rows
  BY DEF CreatedThatDay, CreatedSince
<1>5. \A S \in SUBSET rows : IsFiniteSet(S) /\ Cardinality(S) \in Nat
  BY CountedRows
<1>6. DayWait(d, u, later) = {}
  <2>1. CASE DayWait(d, u, at) = {}
    <3>1. Cardinality(thatDay(at)) < DayLimit["workspace"]
      BY <1>3, <1>4, <1>5, <2>1 DEF DayWait
    <3>2. Cardinality(thatDay(later)) < DayLimit["workspace"]
      <4>1. CASE DayOf(later) = DayOf(at)
        <5>1. thatDay(later) = thatDay(at)
          BY <4>1 DEF CreatedThatDay
        <5> QED
          BY <3>1, <5>1
      <4>2. CASE DayOf(later) # DayOf(at)
        <5>1. DayOf(at) < DayOf(later)
          BY <1>1, <4>2, DaysAre
        <5>2. \A n \in rows : DayOf(time(n)) # DayOf(later)
          BY <1>1, <1>2, <5>1, DaysAre
        <5>3. thatDay(later) = {}
          BY <5>2 DEF CreatedThatDay
        <5> QED
          BY <1>3, <5>3, FS_EmptySet
      <4> QED
        BY <4>1, <4>2
    <3> QED
      BY <1>3, <1>4, <1>5, <3>2 DEF DayWait
  <2>2. CASE DayWait(d, u, at) # {}
    <3> DEFINE next == (DayOf(at) + 1) * DayTicks
    <3>1. next - at \in DayWait(d, u, at)
      BY <2>2 DEF DayWait
    <3>2. next \in Int /\ DayOf(next) = DayOf(at) + 1 /\ DayOf(at) \in Int
      BY <1>3, DaysAre
    <3> HIDE DEF next
    <3>3. later >= at + (next - at)
      BY <1>1, <3>1
    <3> HIDE DEF later
    <3>4. later >= next
      BY <1>1, <3>2, <3>3
    <3>5. DayOf(later) > DayOf(at)
      BY <1>1, <3>2, <3>4, DaysAre
    <3>6. \A n \in rows : DayOf(time(n)) # DayOf(later)
      BY <1>1, <1>2, <3>5, DaysAre
    <3>7. thatDay(later) = {}
      BY <3>6 DEF CreatedThatDay
    <3>8. ~ (Cardinality(thatDay(later)) >= DayLimit["workspace"])
      BY <1>3, <3>7, FS_EmptySet
    <3> QED
      BY <3>8 DEF DayWait
  <2> QED
    BY <2>1, <2>2
<1>7. RollingWait(d, u, later) = {}
  <2>1. Cardinality(since(later)) < limit
    <3>1. CASE Cardinality(since(at)) < limit
      <4>1. since(later) \subseteq since(at)
        BY <1>1, <1>2, <1>3, <3>1 DEF CreatedSince
      <4>2. Cardinality(since(later)) <= Cardinality(since(at))
        BY <1>4, <1>5, <4>1, FS_Subset
      <4> QED
        BY <1>3, <1>4, <1>5, <3>1, <4>2
    <3>2. CASE Cardinality(since(at)) >= limit
      <4>1. PICK n \in LastToLeave(d, u, since(at)) : TRUE
        BY <1>4, <3>2, OneLeavesLast
      <4>2. n \in rows /\ Cardinality({k \in since(at) : time(k) > time(n)}) < limit
        BY <1>4 DEF LastToLeave
      <4>3. time(n) + WindowTicks - at \in waits
        BY <4>1 DEF RollingWait
      <4>4. later >= time(n) + WindowTicks
        <5>1. later >= at + (time(n) + WindowTicks - at)
          BY <1>1, <4>3
        <5> HIDE DEF later
        <5> QED
          BY <1>1, <1>2, <1>3, <4>2, <5>1
      <4>5. time(n) > at - WindowTicks
        BY <4>1 DEF LastToLeave, CreatedSince
      <4>6. since(later) \subseteq {k \in since(at) : time(k) > time(n)}
        <5> HIDE DEF later
        <5> QED
          BY <1>1, <1>2, <1>3, <4>2, <4>4, <4>5 DEF CreatedSince
      <4>7. {k \in since(at) : time(k) > time(n)} \subseteq rows
        BY <1>4
      <4>8. Cardinality(since(later))
              <= Cardinality({k \in since(at) : time(k) > time(n)})
        BY <1>5, <4>6, <4>7, FS_Subset
      <4> QED
        BY <1>3, <1>4, <1>5, <4>2, <4>7, <4>8
    <3>3. Cardinality(since(at)) \in Nat
      BY <1>4, <1>5
    <3> QED
      BY <1>3, <3>1, <3>2, <3>3
  <2>2. ASSUME NEW n \in LastToLeave(d, u, since(later))
        PROVE  FALSE
    <3>1. {k \in since(later) : time(k) >= time(n)} \subseteq since(later)
      OBVIOUS
    <3>2. Cardinality({k \in since(later) : time(k) >= time(n)})
            <= Cardinality(since(later))
      BY <1>4, <1>5, <3>1, FS_Subset
    <3>3. Cardinality({k \in since(later) : time(k) >= time(n)}) >= limit
      BY DEF LastToLeave
    <3>4. Cardinality({k \in since(later) : time(k) >= time(n)}) \in Nat
      BY <1>4, <1>5
    <3> QED
      BY <1>3, <1>4, <1>5, <2>1, <3>2, <3>3, <3>4
  <2> QED
    BY <2>2 DEF RollingWait
<1> QED
  BY <1>6, <1>7

-----------------------------------------------------------------------------
(* Columns that a statement leaves alone. *)

KeepsAccounts(d, e) ==
  /\ e.status = d.status /\ e.admin = d.admin /\ e.identity = d.identity
  /\ e.accountRevision = d.accountRevision

KeepsMembers(d, e) ==
  e.role = d.role /\ e.membershipRevision = d.membershipRevision

KeepsWorkspaces(d, e) ==
  e.phase = d.phase /\ e.custodian = d.custodian /\ e.bytes = d.bytes

KeepsLinks(d, e) == e.link = d.link /\ e.access = d.access

KeepsSessions(d, e) == e.session = d.session /\ e.clock = d.clock

KeepsUsage(d, e) ==
  /\ e.ledger = d.ledger /\ e.circuit = d.circuit
  /\ e.accountsPerDay = d.accountsPerDay

KeepsSignIns(d, e) == e.oauth = d.oauth /\ e.digest = d.digest

-----------------------------------------------------------------------------
(* Rows are finitely many. *)

\* A set of accounts, workspaces, links, sessions or identities has a size.
LEMMA Counted ==
  /\ \A S \in SUBSET Account : IsFiniteSet(S) /\ Cardinality(S) \in Nat
  /\ \A S \in SUBSET Workspace : IsFiniteSet(S) /\ Cardinality(S) \in Nat
  /\ \A S \in SUBSET Link : IsFiniteSet(S) /\ Cardinality(S) \in Nat
  /\ \A S \in SUBSET Session : IsFiniteSet(S) /\ Cardinality(S) \in Nat
  /\ \A S \in SUBSET Identity : IsFiniteSet(S) /\ Cardinality(S) \in Nat
<1>1. ASSUME NEW T, IsFiniteSet(T), NEW S \in SUBSET T
      PROVE  IsFiniteSet(S) /\ Cardinality(S) \in Nat
  BY <1>1, FS_Subset, FS_CardinalityType
<1> QED
  BY <1>1, FiniteAssumption

\* A finite set that is not empty is not of size 0.
LEMMA SomeCount ==
  ASSUME NEW S, IsFiniteSet(S), S # {}
  PROVE  Cardinality(S) \in Nat /\ Cardinality(S) > 0
<1>1. Cardinality(S) \in Nat /\ Cardinality(S) # 0
  BY FS_EmptySet, FS_CardinalityType
<1> QED
  BY <1>1

-----------------------------------------------------------------------------
(* What the statements leave. *)

RoleSet(d, w, u, r, e) ==
  /\ e \in Database
  /\ KeepsAccounts(d, e) /\ KeepsWorkspaces(d, e) /\ e.link = d.link
  /\ KeepsSessions(d, e) /\ KeepsUsage(d, e) /\ KeepsSignIns(d, e)
  /\ e.role = [d.role EXCEPT ![w] = [@ EXCEPT ![u] = r]]
  /\ e.membershipRevision = [d.membershipRevision EXCEPT ![u] = @ + 1]
  /\ e.access = [d.access EXCEPT ![w] = @ + 1]

\* A change of a role counts once for the member and once for the workspace.
LEMMA WithRoleIs ==
  ASSUME NEW d \in Database, NEW w \in Workspace, NEW u \in Account,
         NEW r \in MemberRole, NEW e, e = WithRole(d, w, u, r)
  PROVE  RoleSet(d, w, u, r, e)
<1> DEFINE R == [d.role EXCEPT ![w] = [@ EXCEPT ![u] = r]]
           M == [d.membershipRevision EXCEPT ![u] = @ + 1]
           A == [d.access EXCEPT ![w] = @ + 1]
<1>1. R \in [Workspace -> [Account -> MemberRole]] /\ M \in [Account -> Nat]
      /\ A \in [Workspace -> Nat]
  BY DEF Database
<1>2. e = [d EXCEPT !.role = R, !.membershipRevision = M, !.access = A]
  BY DEF WithRole
<1> HIDE DEF R, M, A
<1>3. e \in Database /\ e.role = R /\ e.membershipRevision = M /\ e.access = A
  BY <1>1, <1>2 DEF Database
<1>4. /\ KeepsAccounts(d, e) /\ KeepsWorkspaces(d, e) /\ e.link = d.link
      /\ KeepsSessions(d, e) /\ KeepsUsage(d, e) /\ KeepsSignIns(d, e)
  BY <1>2 DEF Database, KeepsAccounts, KeepsWorkspaces, KeepsSessions, KeepsUsage,
              KeepsSignIns
<1> QED
  BY <1>3, <1>4 DEF RoleSet, R, M, A

StatusSet(d, u, s, e) ==
  /\ e \in Database
  /\ e.admin = d.admin /\ e.identity = d.identity /\ e.role = d.role
  /\ KeepsWorkspaces(d, e) /\ e.link = d.link
  /\ KeepsSessions(d, e) /\ KeepsUsage(d, e) /\ KeepsSignIns(d, e)
  /\ e.status = [d.status EXCEPT ![u] = s]
  /\ e.accountRevision = [d.accountRevision EXCEPT ![u] = @ + 1]
  /\ e.membershipRevision = [d.membershipRevision EXCEPT ![u] = @ + 1]
  /\ e.access = [w \in Workspace |->
                   d.access[w] + IF w \in MemberOf(d, u) THEN 1 ELSE 0]

\* A change of status counts for the account and for its workspaces.
LEMMA WithStatusIs ==
  ASSUME NEW d \in Database, NEW u \in Account, NEW s \in Status,
         NEW e, e = WithStatus(d, u, s)
  PROVE  StatusSet(d, u, s, e)
<1> DEFINE S == [d.status EXCEPT ![u] = s]
           R == [d.accountRevision EXCEPT ![u] = @ + 1]
           M == [d.membershipRevision EXCEPT ![u] = @ + 1]
           A == [w \in Workspace |->
                   d.access[w] + IF w \in MemberOf(d, u) THEN 1 ELSE 0]
<1>1. S \in [Account -> Status] /\ R \in [Account -> Nat] /\ M \in [Account -> Nat]
  BY DEF Database
<1>2. A \in [Workspace -> Nat]
  BY DEF Database
<1>3. e = [d EXCEPT !.status = S, !.accountRevision = R, !.membershipRevision = M,
                    !.access = A]
  BY DEF WithStatus
<1> HIDE DEF S, R, M, A
<1>4. /\ e \in Database /\ e.status = S /\ e.accountRevision = R
      /\ e.membershipRevision = M /\ e.access = A
  BY <1>1, <1>2, <1>3, ZenonT(60) DEF Database
<1>5. /\ e.admin = d.admin /\ e.identity = d.identity /\ e.role = d.role
      /\ KeepsWorkspaces(d, e) /\ e.link = d.link
      /\ KeepsSessions(d, e) /\ KeepsUsage(d, e) /\ KeepsSignIns(d, e)
  BY <1>3 DEF Database, KeepsWorkspaces, KeepsSessions, KeepsUsage, KeepsSignIns
<1> QED
  BY <1>4, <1>5 DEF StatusSet, S, R, M, A

AdminSet(d, u, yes, e) ==
  /\ e \in Database
  /\ e.status = d.status /\ e.identity = d.identity
  /\ KeepsMembers(d, e) /\ KeepsWorkspaces(d, e) /\ KeepsLinks(d, e)
  /\ KeepsSessions(d, e) /\ KeepsUsage(d, e) /\ KeepsSignIns(d, e)
  /\ e.admin = [d.admin EXCEPT ![u] = yes]
  /\ e.accountRevision =
       [d.accountRevision EXCEPT ![u] = @ + IF d.admin[u] # yes THEN 1 ELSE 0]

\* A change of the global role counts for the account.
LEMMA WithAdminIs ==
  ASSUME NEW d \in Database, NEW u \in Account, NEW yes \in BOOLEAN,
         NEW e, e = WithAdmin(d, u, yes)
  PROVE  AdminSet(d, u, yes, e)
<1> DEFINE A == [d.admin EXCEPT ![u] = yes]
           R == [d.accountRevision EXCEPT ![u] =
                   @ + IF d.admin[u] # yes THEN 1 ELSE 0]
<1>1. A \in [Account -> BOOLEAN] /\ R \in [Account -> Nat]
  BY DEF Database
<1>2. e = [d EXCEPT !.admin = A, !.accountRevision = R]
  BY DEF WithAdmin
<1> HIDE DEF A, R
<1>3. e \in Database /\ e.admin = A /\ e.accountRevision = R
  BY <1>1, <1>2 DEF Database
<1>4. /\ e.status = d.status /\ e.identity = d.identity
      /\ KeepsMembers(d, e) /\ KeepsWorkspaces(d, e) /\ KeepsLinks(d, e)
      /\ KeepsSessions(d, e) /\ KeepsUsage(d, e) /\ KeepsSignIns(d, e)
  BY <1>2 DEF Database, KeepsMembers, KeepsWorkspaces, KeepsLinks, KeepsSessions,
              KeepsUsage, KeepsSignIns
<1> QED
  BY <1>3, <1>4 DEF AdminSet, A, R

\* WithIdentity, or its reverse, at the account u.
IdentityNow(d, i, v, u) ==
  [d EXCEPT !.identity[i] = v, !.accountRevision[u] = @ + 1]

IdentitySet(d, i, v, u, e) ==
  /\ e \in Database
  /\ e.status = d.status /\ e.admin = d.admin
  /\ KeepsMembers(d, e) /\ KeepsWorkspaces(d, e) /\ KeepsLinks(d, e)
  /\ KeepsSessions(d, e) /\ KeepsUsage(d, e) /\ KeepsSignIns(d, e)
  /\ e.identity = [d.identity EXCEPT ![i] = v]
  /\ e.accountRevision = [d.accountRevision EXCEPT ![u] = @ + 1]

\* An identity is given to, or taken from, one account.
LEMMA IdentityIs ==
  ASSUME NEW d \in Database, NEW i, NEW v \in AccountOrNobody,
         NEW u \in Account, NEW e, e = IdentityNow(d, i, v, u)
  PROVE  IdentitySet(d, i, v, u, e)
<1> DEFINE I == [d.identity EXCEPT ![i] = v]
           R == [d.accountRevision EXCEPT ![u] = @ + 1]
<1>0. d.identity \in [Identity -> AccountOrNobody]
      /\ d.accountRevision \in [Account -> Nat]
  BY DEF Database
<1>1. I \in [Identity -> AccountOrNobody] /\ R \in [Account -> Nat]
  <2>1. R \in [Account -> Nat]
    BY <1>0
  <2>2. CASE i \in Identity
    BY <1>0, <2>1, <2>2
  <2>3. CASE i \notin Identity
    <3>1. I = d.identity
      BY <1>0, <2>3
    <3> QED
      BY <1>0, <2>1, <3>1
  <2> QED
    BY <2>2, <2>3
<1>2. e = [d EXCEPT !.identity = I, !.accountRevision = R]
  BY DEF IdentityNow
<1> HIDE DEF I, R
<1>3. e \in Database /\ e.identity = I /\ e.accountRevision = R
  BY <1>1, <1>2 DEF Database
<1>4. /\ e.status = d.status /\ e.admin = d.admin
      /\ KeepsMembers(d, e) /\ KeepsWorkspaces(d, e) /\ KeepsLinks(d, e)
      /\ KeepsSessions(d, e) /\ KeepsUsage(d, e) /\ KeepsSignIns(d, e)
  BY <1>2 DEF Database, KeepsMembers, KeepsWorkspaces, KeepsLinks, KeepsSessions,
              KeepsUsage, KeepsSignIns
<1> QED
  BY <1>3, <1>4 DEF IdentitySet, I, R

IdentitiesGone(d, u, e) ==
  /\ e \in Database
  /\ e.status = d.status /\ e.admin = d.admin
  /\ KeepsMembers(d, e) /\ KeepsWorkspaces(d, e) /\ KeepsLinks(d, e)
  /\ KeepsSessions(d, e) /\ KeepsUsage(d, e) /\ KeepsSignIns(d, e)
  /\ e.identity = [i \in Identity |-> IF d.identity[i] = u THEN Nobody
                                       ELSE d.identity[i]]
  /\ e.accountRevision =
       [d.accountRevision EXCEPT ![u] = @ + Cardinality(IdentitiesOf(d, u))]

\* An account without its identities; each counts.
LEMMA WithoutIdentitiesIs ==
  ASSUME NEW d \in Database, NEW u \in Account, NEW e,
         e = WithoutIdentities(d, u)
  PROVE  IdentitiesGone(d, u, e)
<1> DEFINE n == Cardinality(IdentitiesOf(d, u))
           I == [i \in Identity |-> IF d.identity[i] = u THEN Nobody
                                    ELSE d.identity[i]]
           R == [d.accountRevision EXCEPT ![u] = @ + n]
<1>1. n \in Nat
  BY Counted DEF IdentitiesOf
<1>2. I \in [Identity -> AccountOrNobody]
  BY DEF Database, AccountOrNobody
<1> HIDE DEF n
<1>3. R \in [Account -> Nat]
  BY <1>1 DEF Database
<1>4. e = [d EXCEPT !.identity = I, !.accountRevision = R]
  BY DEF WithoutIdentities, n
<1> HIDE DEF I, R
<1>5. e \in Database /\ e.identity = I /\ e.accountRevision = R
  BY <1>2, <1>3, <1>4 DEF Database
<1>6. /\ e.status = d.status /\ e.admin = d.admin
      /\ KeepsMembers(d, e) /\ KeepsWorkspaces(d, e) /\ KeepsLinks(d, e)
      /\ KeepsSessions(d, e) /\ KeepsUsage(d, e) /\ KeepsSignIns(d, e)
  BY <1>4 DEF Database, KeepsMembers, KeepsWorkspaces, KeepsLinks, KeepsSessions,
              KeepsUsage, KeepsSignIns
<1> QED
  BY <1>5, <1>6 DEF IdentitiesGone, I, R, n
LinkState == {"absent", "unused", "used", "revoked", "gone"}

LinksSet(d, L, s, e) ==
  /\ e \in Database
  /\ KeepsAccounts(d, e) /\ KeepsMembers(d, e) /\ KeepsWorkspaces(d, e)
  /\ KeepsSessions(d, e) /\ KeepsUsage(d, e) /\ KeepsSignIns(d, e)
  /\ \A l \in Link : e.link[l] = IF l \in L THEN [d.link[l] EXCEPT !.state = s]
                                 ELSE d.link[l]
  /\ \A w \in Workspace :
       e.access[w] = d.access[w] + Cardinality({l \in L : d.link[l].of = w})

\* Links get another state, which counts for their workspaces.
LEMMA WithLinkStateIs ==
  ASSUME NEW d \in Database, NEW L \in SUBSET Link, NEW s \in LinkState,
         NEW e, e = WithLinkState(d, L, s)
  PROVE  LinksSet(d, L, s, e)
<1> DEFINE K == [l \in Link |-> IF l \in L THEN [d.link[l] EXCEPT !.state = s]
                                ELSE d.link[l]]
           n(w) == Cardinality({l \in L : d.link[l].of = w})
           A == [w \in Workspace |-> d.access[w] + n(w)]
<1>1. K \in [Link -> GuestLink]
  <2>1. ASSUME NEW k \in GuestLink
        PROVE  [k EXCEPT !.state = s] \in GuestLink
    BY DEF GuestLink, LinkState
  <2>2. \A l \in Link : d.link[l] \in GuestLink
    BY DEF Database
  <2> QED
    BY <2>1, <2>2
<1>2. \A w \in Workspace : n(w) \in Nat
  BY Counted
<1> HIDE DEF n
<1>3. A \in [Workspace -> Nat]
  BY <1>2 DEF Database
<1>4. e = [d EXCEPT !.link = K, !.access = A]
  BY DEF WithLinkState, n
<1> HIDE DEF K, A
<1>5. e \in Database /\ e.link = K /\ e.access = A
  BY <1>1, <1>3, <1>4 DEF Database
<1>6. /\ KeepsAccounts(d, e) /\ KeepsMembers(d, e) /\ KeepsWorkspaces(d, e)
      /\ KeepsSessions(d, e) /\ KeepsUsage(d, e) /\ KeepsSignIns(d, e)
  BY <1>4 DEF Database, KeepsAccounts, KeepsMembers, KeepsWorkspaces, KeepsSessions,
              KeepsUsage, KeepsSignIns
<1> QED
  BY <1>5, <1>6 DEF LinksSet, K, A, n

SessionsEnd(d, X, e) ==
  /\ e \in Database
  /\ KeepsAccounts(d, e) /\ KeepsMembers(d, e) /\ KeepsWorkspaces(d, e)
  /\ KeepsLinks(d, e) /\ KeepsUsage(d, e) /\ KeepsSignIns(d, e)
  /\ e.clock = d.clock
  /\ \A x \in Session :
       e.session[x] = IF x \in X /\ ~ Ended(d, x, d.clock)
                      THEN [d.session[x] EXCEPT !.live = FALSE, !.end = d.clock]
                      ELSE d.session[x]

\* Sessions that had not ended end.
LEMMA SessionsRevokedIs ==
  ASSUME NEW d \in Database, NEW X \in SUBSET Session,
         NEW e, e = SessionsRevoked(d, X)
  PROVE  SessionsEnd(d, X, e)
<1> DEFINE S == [x \in Session |->
                   IF x \in X /\ ~ Ended(d, x, d.clock)
                   THEN [d.session[x] EXCEPT !.live = FALSE, !.end = d.clock]
                   ELSE d.session[x]]
<1>1. S \in [Session -> SessionRow]
  <2>1. ASSUME NEW row \in SessionRow, NEW t \in Int
        PROVE  [row EXCEPT !.live = FALSE, !.end = t] \in SessionRow
    BY DEF SessionRow
  <2>2. d.clock \in Int /\ \A x \in Session : d.session[x] \in SessionRow
    BY DEF Database
  <2> QED
    BY <2>1, <2>2
<1>2. e = [d EXCEPT !.session = S]
  BY DEF SessionsRevoked
<1> HIDE DEF S
<1>3. e \in Database /\ e.session = S /\ e.clock = d.clock
  BY <1>1, <1>2 DEF Database
<1>4. /\ KeepsAccounts(d, e) /\ KeepsMembers(d, e) /\ KeepsWorkspaces(d, e)
      /\ KeepsLinks(d, e) /\ KeepsUsage(d, e) /\ KeepsSignIns(d, e)
  BY <1>2 DEF Database, KeepsAccounts, KeepsMembers, KeepsWorkspaces, KeepsLinks,
              KeepsUsage, KeepsSignIns
<1> QED
  BY <1>3, <1>4 DEF SessionsEnd, S

MembershipsGone(d, u, e) ==
  /\ e \in Database
  /\ KeepsAccounts(d, e) /\ KeepsWorkspaces(d, e) /\ e.link = d.link
  /\ KeepsSessions(d, e) /\ KeepsUsage(d, e) /\ KeepsSignIns(d, e)
  /\ e.role = [w \in Workspace |-> [d.role[w] EXCEPT ![u] = "none"]]
  /\ e.membershipRevision =
       [d.membershipRevision EXCEPT ![u] = @ + Cardinality(MemberOf(d, u))]
  /\ e.access = [w \in Workspace |->
                   d.access[w] + IF w \in MemberOf(d, u) THEN 1 ELSE 0]

\* An account that is a member of nothing any more.
LEMMA WithoutMembershipsIs ==
  ASSUME NEW d \in Database, NEW u \in Account, NEW e,
         e = WithoutMemberships(d, u)
  PROVE  MembershipsGone(d, u, e)
<1> DEFINE n == Cardinality(MemberOf(d, u))
           R == [w \in Workspace |-> [d.role[w] EXCEPT ![u] = "none"]]
           M == [d.membershipRevision EXCEPT ![u] = @ + n]
           A == [w \in Workspace |->
                   d.access[w] + IF w \in MemberOf(d, u) THEN 1 ELSE 0]
<1>1. n \in Nat
  BY Counted DEF MemberOf
<1> HIDE DEF n
<1>2. M \in [Account -> Nat]
  BY <1>1 DEF Database
<1>3. R \in [Workspace -> [Account -> MemberRole]]
  BY DEF Database, MemberRole
<1>4. A \in [Workspace -> Nat]
  BY DEF Database
<1>5. e = [d EXCEPT !.role = R, !.membershipRevision = M, !.access = A]
  BY DEF WithoutMemberships, n
<1> HIDE DEF R, M, A
<1>6. e \in Database /\ e.role = R /\ e.membershipRevision = M /\ e.access = A
  BY <1>2, <1>3, <1>4, <1>5 DEF Database
<1>7. /\ KeepsAccounts(d, e) /\ KeepsWorkspaces(d, e) /\ e.link = d.link
      /\ KeepsSessions(d, e) /\ KeepsUsage(d, e) /\ KeepsSignIns(d, e)
  BY <1>5 DEF Database, KeepsAccounts, KeepsWorkspaces, KeepsSessions, KeepsUsage,
              KeepsSignIns
<1> QED
  BY <1>6, <1>7 DEF MembershipsGone, R, M, A, n

\* What the ledger knows of what u created, after one more.
MoreCreated(d, what, u, at) ==
  LET times == Append(d.ledger[what][u].at, at)
      rows == Created(d, what, u) \cup {Len(times)}
  IN [at |-> times,
      kept |-> {n \in rows : what \in {"session", "link"} =>
                               times[n] > at - WindowTicks - DayTicks}]

CreationAdded(d, what, u, at, e) ==
  /\ e \in Database
  /\ KeepsAccounts(d, e) /\ KeepsMembers(d, e) /\ KeepsWorkspaces(d, e)
  /\ KeepsLinks(d, e) /\ KeepsSessions(d, e) /\ KeepsSignIns(d, e)
  /\ e.circuit = d.circuit /\ e.accountsPerDay = d.accountsPerDay
  /\ e.ledger = [d.ledger EXCEPT ![what] =
                   [@ EXCEPT ![u] = MoreCreated(d, what, u, at)]]

\* The ledger has one more row, and otherwise what it had.
LEMMA WithCreationIs ==
  ASSUME NEW d \in Database, NEW what \in {"account", "workspace", "link", "session"},
         NEW u \in AccountOrNobody, NEW at \in Int,
         NEW e, e = WithCreation(d, what, u, at)
  PROVE  CreationAdded(d, what, u, at, e)
<1> DEFINE N == MoreCreated(d, what, u, at)
           L == [d.ledger EXCEPT ![what] = [@ EXCEPT ![u] = N]]
<1>1. N \in Creations
  <2> DEFINE old == d.ledger[what][u]
  <2>1. old \in Creations
    BY DEF Database, Ledger
  <2>2. old.at \in Seq(Int) /\ old.kept \in SUBSET Nat
    BY <2>1 DEF Creations
  <2> HIDE DEF old
  <2> DEFINE times == Append(old.at, at)
             rows == old.kept \cup {Len(times)}
             kept == {n \in rows : what \in {"session", "link"} =>
                                     times[n] > at - WindowTicks - DayTicks}
  <2>3. times \in Seq(Int) /\ Len(times) \in Nat
    BY <2>2
  <2>4. N = [at |-> times, kept |-> kept]
    BY DEF MoreCreated, Created, old
  <2> HIDE DEF times
  <2>5. kept \in SUBSET Nat
    BY <2>2, <2>3
  <2> HIDE DEF kept
  <2> QED
    BY <2>3, <2>4, <2>5 DEF Creations
<1>2. e = [d EXCEPT !.ledger = L]
  BY DEF WithCreation, MoreCreated
<1> HIDE DEF N
<1>3. L \in Ledger
  BY <1>1 DEF Database, Ledger
<1> HIDE DEF L
<1>4. e \in Database /\ e.ledger = L
  BY <1>2, <1>3 DEF Database
<1>5. /\ KeepsAccounts(d, e) /\ KeepsMembers(d, e) /\ KeepsWorkspaces(d, e)
      /\ KeepsLinks(d, e) /\ KeepsSessions(d, e) /\ KeepsSignIns(d, e)
      /\ e.circuit = d.circuit /\ e.accountsPerDay = d.accountsPerDay
  BY <1>2 DEF Database, KeepsAccounts, KeepsMembers, KeepsWorkspaces, KeepsLinks,
              KeepsSessions, KeepsSignIns
<1> QED
  BY <1>4, <1>5 DEF CreationAdded, L, N

\* Sessions are kept, end, or are deleted; nothing else changes.
LEMMA SessionsAre ==
  ASSUME NEW d \in Database, NEW S \in [Session -> SessionRow],
         NEW e, e = [d EXCEPT !.session = S]
  PROVE  /\ e \in Database /\ e.session = S /\ e.clock = d.clock
         /\ KeepsAccounts(d, e) /\ KeepsMembers(d, e) /\ KeepsWorkspaces(d, e)
         /\ KeepsLinks(d, e) /\ KeepsUsage(d, e) /\ KeepsSignIns(d, e)
  BY DEF Database, KeepsAccounts, KeepsMembers, KeepsWorkspaces, KeepsLinks,
         KeepsUsage, KeepsSignIns

\* A transaction goes on; nothing else changes.
LEMMA TransactionsAre ==
  ASSUME NEW d \in Database, NEW O \in [SignIn -> OAuth],
         NEW e, e = [d EXCEPT !.oauth = O]
  PROVE  /\ e \in Database /\ e.oauth = O /\ e.digest = d.digest
         /\ KeepsAccounts(d, e) /\ KeepsMembers(d, e) /\ KeepsWorkspaces(d, e)
         /\ KeepsLinks(d, e) /\ KeepsSessions(d, e) /\ KeepsUsage(d, e)
  BY DEF Database, KeepsAccounts, KeepsMembers, KeepsWorkspaces, KeepsLinks,
         KeepsSessions, KeepsUsage

\* The digests of a ban; nothing else changes.
LEMMA DigestsAre ==
  ASSUME NEW d \in Database, NEW D \in [Identity -> Digest],
         NEW e, e = [d EXCEPT !.digest = D]
  PROVE  /\ e \in Database /\ e.oauth = d.oauth
         /\ KeepsAccounts(d, e) /\ KeepsMembers(d, e) /\ KeepsWorkspaces(d, e)
         /\ KeepsLinks(d, e) /\ KeepsSessions(d, e) /\ KeepsUsage(d, e)
  BY DEF Database, KeepsAccounts, KeepsMembers, KeepsWorkspaces, KeepsLinks,
         KeepsSessions, KeepsUsage

-----------------------------------------------------------------------------
(* What is asked. *)

\* A new row gets an identifier of its kind.
LEMMA UnusedIs ==
  ASSUME NEW T, NEW free \in SUBSET T
  PROVE  Unused(free) \in SUBSET T
  BY DEF Unused

MembershipRequest(r) ==
  /\ r.by \in Account /\ r.at \in Workspace
  /\ r.op \in {"initialize", "store"} => r.bytes \in Nat
  /\ r.op \in {"change role", "remove member", "transfer"} => r.of \in Account
  /\ r.op = "change role" => r.role \in {"viewer", "editor", "owner"}
  /\ r.op = "create link" => r.role \in {"viewer", "editor"}
  /\ r.op \in {"create link", "revoke link", "delete link", "redeem"} =>
       r.item \in Link

\* What is asked about a workspace, and about whom.
LEMMA MembershipRequestIs ==
  ASSUME NEW d, NEW r \in MembershipRequests(d)
  PROVE  MembershipRequest(r) /\ r.seen = d
<1>1. /\ Unused({w \in Workspace : d.phase[w] = "absent"}) \subseteq Workspace
      /\ Unused({l \in Link : d.link[l].state = "absent"}) \subseteq Link
  BY UnusedIs
<1>2. Callers(d) \subseteq Account
  BY DEF Callers
<1>3. Sizes \subseteq Nat
  BY ScopesAssumption
<1> QED
  BY <1>1, <1>2, <1>3 DEF MembershipRequests, Ask, MembershipRequest

AccountRequest(r) ==
  /\ r.by \in Account
  /\ r.op \in {"promote", "demote", "disable", "enable", "ban", "lift",
               "revoke session", "unlink"} => r.of \in Account
  /\ r.op = "set circuit" => r.circuit \in scope.circuits
  /\ r.op = "set limit" => r.limit \in {0, 1}
  /\ r.op \in {"recover", "revoke session"} => r.item \in Session
  /\ r.op = "unlink" => r.item \in Identity
  /\ r.op = "delete account" => r.plan \in Prepared(r.seen, r.by)

\* What is asked about an account.
LEMMA AccountRequestIs ==
  ASSUME NEW d, NEW r \in AccountRequests(d)
  PROVE  AccountRequest(r) /\ r.seen = d
<1>1. Callers(d) \subseteq Account
  BY DEF Callers
<1> DEFINE Deletions == UNION {[op : Ask({"delete account"}), by : {u},
                                plan : Prepared(d, u), seen : {d}] :
                                 u \in Callers(d)}
<1>2. CASE r \in Deletions
  <2>1. PICK u \in Callers(d) : r \in [op : Ask({"delete account"}), by : {u},
                                       plan : Prepared(d, u), seen : {d}]
    BY <1>2
  <2> QED
    BY <1>1, <2>1 DEF Ask, AccountRequest
<1> HIDE DEF Deletions
<1>3. CASE r \notin Deletions
  BY <1>1, <1>3 DEF AccountRequests, Ask, AccountRequest, Deletions
<1> QED
  BY <1>2, <1>3

SignInRequest(r) ==
  /\ r.op \in {"bootstrap", "begin"} => r.by \in Account
  /\ r.op = "begin" => r.session \in Session \cup {Nothing}
  /\ r.op = "issue" => r.session \in Session
  /\ r.op # "bootstrap" => r.item \in SignIn
  /\ r.op = "claim" => r.identity \in Identity
  /\ r.op = "enroll" => r.of \in Account

\* What is asked before, or without, a session.
LEMMA SignInRequestIs ==
  ASSUME NEW d, NEW r \in SignInRequests(d)
  PROVE  SignInRequest(r) /\ r.seen = d
<1>1. /\ Unused({t \in SignIn : Stage(db, t) = "absent"}) \subseteq SignIn
      /\ Unused({x \in Session : db.session[x].of = Nobody}) \subseteq Session
  BY UnusedIs
<1> QED
  BY <1>1 DEF SignInRequests, Ask, SignInRequest

-----------------------------------------------------------------------------
(* Revisions: a later database has the same or higher ones, and the same    *)
(* ones only for what has not changed.                                      *)

LaterAccess(d, e, w) ==
  /\ e.access[w] >= d.access[w]
  /\ e.access[w] = d.access[w] => AccessOf(e, w) = AccessOf(d, w)

LaterAccount(d, e, u) ==
  /\ e.accountRevision[u] >= d.accountRevision[u]
  /\ e.accountRevision[u] = d.accountRevision[u] => AccountOf(e, u) = AccountOf(d, u)

LaterMember(d, e, u) ==
  /\ e.membershipRevision[u] >= d.membershipRevision[u]
  /\ e.membershipRevision[u] = d.membershipRevision[u] =>
       \A w \in Workspace : e.role[w][u] = d.role[w][u]

Later(d, e) ==
  /\ \A w \in Workspace : LaterAccess(d, e, w)
  /\ \A u \in Account : LaterAccount(d, e, u) /\ LaterMember(d, e, u)

\* A database is as late as itself.
LEMMA LaterSame ==
  ASSUME NEW d \in Database
  PROVE  Later(d, d)
  BY DEF Later, LaterAccess, LaterAccount, LaterMember, Database

\* What is later than a later database is later.
LEMMA LaterOn ==
  ASSUME NEW d \in Database, NEW e \in Database, NEW f \in Database,
         Later(d, e), Later(e, f)
  PROVE  Later(d, f)
<1>1. ASSUME NEW w \in Workspace PROVE LaterAccess(d, f, w)
  <2>1. d.access[w] \in Nat /\ e.access[w] \in Nat /\ f.access[w] \in Nat
    BY DEF Database
  <2> QED
    BY <2>1 DEF Later, LaterAccess
<1>2. ASSUME NEW u \in Account PROVE LaterAccount(d, f, u)
  <2>1. d.accountRevision[u] \in Nat /\ e.accountRevision[u] \in Nat
        /\ f.accountRevision[u] \in Nat
    BY DEF Database
  <2> QED
    BY <2>1 DEF Later, LaterAccount
<1>3. ASSUME NEW u \in Account PROVE LaterMember(d, f, u)
  <2>1. d.membershipRevision[u] \in Nat /\ e.membershipRevision[u] \in Nat
        /\ f.membershipRevision[u] \in Nat
    BY DEF Database
  <2> QED
    BY <2>1 DEF Later, LaterMember
<1> QED
  BY <1>1, <1>2, <1>3 DEF Later

\* What the access of a workspace consists of.
LEMMA SameAccess ==
  ASSUME NEW d, NEW e, NEW w,
         e.role[w] = d.role[w],
         \A u \in Account : d.role[w][u] # "none" => (Active(e, u) <=> Active(d, u)),
         \A l \in Link : d.link[l].of = w \/ e.link[l].of = w =>
                           \/ e.link[l].of = d.link[l].of
                              /\ e.link[l].state = d.link[l].state
                           \/ {e.link[l].state, d.link[l].state} \subseteq
                                {"absent", "gone"}
  PROVE  AccessOf(e, w) = AccessOf(d, w)
<1>1. Members(e, w) = Members(d, w)
  BY DEF Members
<1>2. {u \in Members(e, w) : Active(e, u)} = {u \in Members(d, w) : Active(d, u)}
  BY <1>1 DEF Members
<1>3. LinksOf(e, w) = LinksOf(d, w)
      /\ \A l \in LinksOf(d, w) : e.link[l].state = d.link[l].state
  BY DEF LinksOf
<1>4. [l \in LinksOf(e, w) |-> e.link[l].state] = [l \in LinksOf(d, w) |-> d.link[l].state]
  BY <1>3
<1> QED
  BY <1>2, <1>4 DEF AccessOf

\* The access of all workspaces, when neither members nor links change.
LEMMA AccessKept ==
  ASSUME NEW d \in Database, NEW e \in Database,
         e.access = d.access, e.role = d.role,
         \A u \in Account : Active(e, u) <=> Active(d, u),
         \A l \in Link : e.link[l].of = d.link[l].of
                            /\ e.link[l].state = d.link[l].state
  PROVE  \A w \in Workspace : LaterAccess(d, e, w)
<1>1. ASSUME NEW w \in Workspace PROVE AccessOf(e, w) = AccessOf(d, w)
  BY SameAccess
<1> QED
  BY <1>1 DEF LaterAccess, Database

\* An account whose columns are the same.
LEMMA SameAccount ==
  ASSUME NEW d, NEW e, NEW u, e.status[u] = d.status[u], e.admin[u] = d.admin[u],
         \A i \in Identity : e.identity[i] = u <=> d.identity[i] = u
  PROVE  AccountOf(e, u) = AccountOf(d, u)
<1>1. IdentitiesOf(e, u) = IdentitiesOf(d, u)
  BY DEF IdentitiesOf
<1> QED
  BY <1>1 DEF AccountOf

\* The accounts, when none changes.
LEMMA AccountsKept ==
  ASSUME NEW d \in Database, NEW e \in Database, KeepsAccounts(d, e)
  PROVE  \A u \in Account : LaterAccount(d, e, u)
<1>1. ASSUME NEW u \in Account PROVE AccountOf(e, u) = AccountOf(d, u)
  BY SameAccount DEF KeepsAccounts
<1> QED
  BY <1>1 DEF KeepsAccounts, LaterAccount, Database

\* The memberships, when none changes.
LEMMA MembersKept ==
  ASSUME NEW d \in Database, NEW e \in Database, KeepsMembers(d, e)
  PROVE  \A u \in Account : LaterMember(d, e, u)
  BY DEF KeepsMembers, LaterMember, Database

\* Where nothing that revisions stand for changes, and the revisions neither.
LEMMA LaterKept ==
  ASSUME NEW d \in Database, NEW e \in Database,
         KeepsAccounts(d, e), KeepsMembers(d, e), e.access = d.access,
         \A l \in Link : e.link[l].of = d.link[l].of
                            /\ e.link[l].state = d.link[l].state
  PROVE  Later(d, e)
<1>1. \A w \in Workspace : LaterAccess(d, e, w)
  BY AccessKept DEF KeepsAccounts, KeepsMembers, Active
<1> QED
  BY <1>1, AccountsKept, MembersKept DEF Later

\* A role changes together with both revisions.
LEMMA RoleLater ==
  ASSUME NEW d \in Database, NEW w \in Workspace, NEW u \in Account, NEW r, NEW e,
         RoleSet(d, w, u, r, e)
  PROVE  Later(d, e)
<1>1. /\ e \in Database /\ KeepsAccounts(d, e) /\ e.link = d.link
      /\ e.role = [d.role EXCEPT ![w] = [@ EXCEPT ![u] = r]]
      /\ e.membershipRevision = [d.membershipRevision EXCEPT ![u] = @ + 1]
      /\ e.access = [d.access EXCEPT ![w] = @ + 1]
  BY DEF RoleSet
<1>2. ASSUME NEW x \in Workspace PROVE LaterAccess(d, e, x)
  <2>1. CASE x = w
    BY <1>1, <2>1 DEF LaterAccess, Database
  <2>2. CASE x # w
    <3>1. e.role[x] = d.role[x] /\ e.access[x] = d.access[x] /\ d.access[x] \in Nat
      BY <1>1, <2>2 DEF Database
    <3>2. \A v \in Account : Active(e, v) <=> Active(d, v)
      BY <1>1 DEF KeepsAccounts, Active
    <3>3. AccessOf(e, x) = AccessOf(d, x)
      BY <1>1, <3>1, <3>2, SameAccess
    <3> QED
      BY <3>1, <3>3 DEF LaterAccess
  <2> QED
    BY <2>1, <2>2
<1>3. ASSUME NEW v \in Account PROVE LaterMember(d, e, v)
  <2>1. d.membershipRevision[v] \in Nat
    BY DEF Database
  <2>2. v # u => \A x \in Workspace : e.role[x][v] = d.role[x][v]
    BY <1>1 DEF Database
  <2> QED
    BY <1>1, <2>1, <2>2 DEF LaterMember, Database
<1> QED
  BY <1>1, <1>2, <1>3, AccountsKept DEF Later

\* A status changes together with the revisions of the account and of the
\* workspaces it is a member of.
LEMMA StatusLater ==
  ASSUME NEW d \in Database, NEW u \in Account, NEW s, NEW e,
         StatusSet(d, u, s, e)
  PROVE  Later(d, e)
<1>1. /\ e \in Database /\ e.admin = d.admin /\ e.identity = d.identity
      /\ e.role = d.role /\ e.link = d.link
      /\ e.status = [d.status EXCEPT ![u] = s]
      /\ e.accountRevision = [d.accountRevision EXCEPT ![u] = @ + 1]
      /\ e.membershipRevision = [d.membershipRevision EXCEPT ![u] = @ + 1]
      /\ e.access = [w \in Workspace |->
                       d.access[w] + IF w \in MemberOf(d, u) THEN 1 ELSE 0]
  BY DEF StatusSet
<1>2. ASSUME NEW w \in Workspace PROVE LaterAccess(d, e, w)
  <2>1. d.access[w] \in Nat
    BY DEF Database
  <2>2. CASE w \in MemberOf(d, u)
    BY <1>1, <2>1, <2>2 DEF LaterAccess
  <2>3. CASE w \notin MemberOf(d, u)
    <3>1. d.role[w][u] = "none"
      BY <2>3 DEF MemberOf
    <3>2. \A v \in Account : v # u => (Active(e, v) <=> Active(d, v))
      BY <1>1 DEF Active, Database
    <3>3. AccessOf(e, w) = AccessOf(d, w)
      BY <1>1, <3>1, <3>2, SameAccess
    <3> QED
      BY <1>1, <2>1, <2>3, <3>3 DEF LaterAccess
  <2> QED
    BY <2>2, <2>3
<1>3. ASSUME NEW v \in Account PROVE LaterAccount(d, e, v)
  <2>1. d.accountRevision[v] \in Nat
    BY DEF Database
  <2>2. CASE v = u
    <3>1. e.accountRevision[v] = d.accountRevision[v] + 1
      BY <1>1, <2>2 DEF Database
    <3> QED
      BY <2>1, <3>1 DEF LaterAccount
  <2>3. CASE v # u
    <3>1. e.accountRevision[v] = d.accountRevision[v] /\ e.status[v] = d.status[v]
      BY <1>1, <2>3 DEF Database
    <3>2. /\ e.status[v] = d.status[v] /\ e.admin[v] = d.admin[v]
          /\ \A i \in Identity : e.identity[i] = v <=> d.identity[i] = v
      BY <1>1, <3>1
    <3>3. AccountOf(e, v) = AccountOf(d, v)
      BY <3>2, SameAccount
    <3> QED
      BY <2>1, <3>1, <3>3 DEF LaterAccount
  <2> QED
    BY <2>2, <2>3
<1>4. ASSUME NEW v \in Account PROVE LaterMember(d, e, v)
  BY <1>1 DEF LaterMember, Database
<1> QED
  BY <1>2, <1>3, <1>4 DEF Later

\* The global role changes together with the revision of the account.
LEMMA AdminLater ==
  ASSUME NEW d \in Database, NEW u \in Account, NEW yes, NEW e,
         AdminSet(d, u, yes, e)
  PROVE  Later(d, e)
<1>1. /\ e \in Database /\ e.status = d.status /\ e.identity = d.identity
      /\ KeepsMembers(d, e) /\ KeepsLinks(d, e)
      /\ e.admin = [d.admin EXCEPT ![u] = yes]
      /\ e.accountRevision =
           [d.accountRevision EXCEPT ![u] = @ + IF d.admin[u] # yes THEN 1 ELSE 0]
  BY DEF AdminSet
<1>2. \A w \in Workspace : LaterAccess(d, e, w)
  BY <1>1, AccessKept DEF KeepsMembers, KeepsLinks, Active
<1>3. ASSUME NEW v \in Account PROVE LaterAccount(d, e, v)
  <2>1. d.accountRevision[v] \in Nat
    BY DEF Database
  <2>2. CASE v = u /\ d.admin[u] # yes
    <3>1. e.accountRevision[v] = d.accountRevision[v] + 1
      BY <1>1, <2>2 DEF Database
    <3> QED
      BY <2>1, <3>1 DEF LaterAccount
  <2>3. CASE ~ (v = u /\ d.admin[u] # yes)
    <3>1. e.accountRevision[v] = d.accountRevision[v] /\ e.admin[v] = d.admin[v]
      BY <1>1, <2>1, <2>3 DEF Database
    <3>2. /\ e.status[v] = d.status[v] /\ e.admin[v] = d.admin[v]
          /\ \A i \in Identity : e.identity[i] = v <=> d.identity[i] = v
      BY <1>1, <3>1
    <3>3. AccountOf(e, v) = AccountOf(d, v)
      BY <3>2, SameAccount
    <3> QED
      BY <2>1, <3>1, <3>3 DEF LaterAccount
  <2> QED
    BY <2>2, <2>3
<1> QED
  BY <1>1, <1>2, <1>3, MembersKept DEF Later

\* An identity that nobody else has comes or goes with the revision.
LEMMA IdentityLater ==
  ASSUME NEW d \in Database, NEW i, NEW v \in AccountOrNobody, NEW u \in Account,
         {d.identity[i], v} \subseteq {u, Nobody}, NEW e, IdentitySet(d, i, v, u, e)
  PROVE  Later(d, e)
<1>1. /\ e \in Database /\ e.status = d.status /\ e.admin = d.admin
      /\ KeepsMembers(d, e) /\ KeepsLinks(d, e)
      /\ e.identity = [d.identity EXCEPT ![i] = v]
      /\ e.accountRevision = [d.accountRevision EXCEPT ![u] = @ + 1]
  BY DEF IdentitySet
<1>2. \A w \in Workspace : LaterAccess(d, e, w)
  BY <1>1, AccessKept DEF KeepsMembers, KeepsLinks, Active
<1>3. ASSUME NEW x \in Account PROVE LaterAccount(d, e, x)
  <2>1. d.accountRevision[x] \in Nat
    BY DEF Database
  <2>2. CASE x = u
    <3>1. e.accountRevision[x] = d.accountRevision[x] + 1
      BY <1>1, <2>2 DEF Database
    <3> QED
      BY <2>1, <3>1 DEF LaterAccount
  <2>3. CASE x # u
    <3>1. x # Nobody
      BY StoreAssumption
    <3>2. \A j \in Identity : e.identity[j] = x <=> d.identity[j] = x
      BY <1>1, <2>3, <3>1 DEF Database
    <3>3. e.status[x] = d.status[x] /\ e.admin[x] = d.admin[x]
      BY <1>1
    <3>4. AccountOf(e, x) = AccountOf(d, x)
      BY <3>2, <3>3, SameAccount
    <3>5. e.accountRevision[x] = d.accountRevision[x]
      BY <1>1, <2>3 DEF Database
    <3> QED
      BY <2>1, <3>4, <3>5 DEF LaterAccount
  <2> QED
    BY <2>2, <2>3
<1> QED
  BY <1>1, <1>2, <1>3, MembersKept DEF Later

\* All identities of an account go with the revision, if it has any.
LEMMA WithoutIdentitiesLater ==
  ASSUME NEW d \in Database, NEW u \in Account, NEW e, IdentitiesGone(d, u, e)
  PROVE  Later(d, e)
<1> DEFINE n == Cardinality(IdentitiesOf(d, u))
<1>1. /\ e \in Database /\ e.status = d.status /\ e.admin = d.admin
      /\ KeepsMembers(d, e) /\ KeepsLinks(d, e)
      /\ e.identity = [i \in Identity |-> IF d.identity[i] = u THEN Nobody
                                           ELSE d.identity[i]]
      /\ e.accountRevision = [d.accountRevision EXCEPT ![u] = @ + n]
  BY DEF IdentitiesGone
<1>2. n \in Nat /\ (IdentitiesOf(d, u) # {} => n > 0)
  BY Counted, SomeCount DEF IdentitiesOf
<1> HIDE DEF n
<1>3. \A w \in Workspace : LaterAccess(d, e, w)
  BY <1>1, AccessKept DEF KeepsMembers, KeepsLinks, Active
<1>4. ASSUME NEW x \in Account PROVE LaterAccount(d, e, x)
  <2>1. d.accountRevision[x] \in Nat
    BY DEF Database
  <2>2. CASE x = u /\ IdentitiesOf(d, u) # {}
    <3>1. e.accountRevision[x] = d.accountRevision[x] + n
      BY <1>1, <2>2 DEF Database
    <3> QED
      BY <1>2, <2>1, <2>2, <3>1 DEF LaterAccount
  <2>3. CASE x # u \/ IdentitiesOf(d, u) = {}
    <3>1. \A j \in Identity : e.identity[j] = x <=> d.identity[j] = x
      BY <1>1, <2>3, StoreAssumption DEF Database, IdentitiesOf
    <3>2. e.status[x] = d.status[x] /\ e.admin[x] = d.admin[x]
      BY <1>1
    <3>3. AccountOf(e, x) = AccountOf(d, x)
      BY <3>1, <3>2, SameAccount
    <3>4. e.accountRevision[x] >= d.accountRevision[x]
      BY <1>1, <1>2, <2>1 DEF Database
    <3> QED
      BY <3>3, <3>4 DEF LaterAccount
  <2> QED
    BY <2>2, <2>3
<1> QED
  BY <1>1, <1>3, <1>4, MembersKept DEF Later

\* The states of links change together with the revisions of their workspaces.
LEMMA LinkStateLater ==
  ASSUME NEW d \in Database, NEW L \in SUBSET Link, NEW s, NEW e,
         LinksSet(d, L, s, e)
  PROVE  Later(d, e)
<1> DEFINE n(w) == Cardinality({l \in L : d.link[l].of = w})
<1>1. /\ e \in Database /\ KeepsAccounts(d, e) /\ KeepsMembers(d, e)
      /\ \A l \in Link : e.link[l] = IF l \in L THEN [d.link[l] EXCEPT !.state = s]
                                      ELSE d.link[l]
      /\ \A w \in Workspace : e.access[w] = d.access[w] + n(w)
  BY DEF LinksSet
<1>2. ASSUME NEW w \in Workspace PROVE LaterAccess(d, e, w)
  <2>1. d.access[w] \in Nat
    BY DEF Database
  <2>2. n(w) \in Nat /\ ({l \in L : d.link[l].of = w} # {} => n(w) > 0)
    BY Counted, SomeCount
  <2> DEFINE m == n(w)
  <2>3. e.access[w] = d.access[w] + m
    BY <1>1
  <2>4. CASE {l \in L : d.link[l].of = w} # {}
    <3>1. m \in Nat /\ m > 0
      BY <2>2, <2>4
    <3> HIDE DEF m
    <3> QED
      BY <2>1, <2>3, <3>1 DEF LaterAccess
  <2>5. CASE {l \in L : d.link[l].of = w} = {}
    <3>1. ASSUME NEW l \in Link
          PROVE  /\ e.link[l].of = d.link[l].of
                 /\ l \notin L => e.link[l].state = d.link[l].state
      <4>1. d.link[l] \in GuestLink
        BY DEF Database
      <4>2. l \in L => e.link[l] = [d.link[l] EXCEPT !.state = s]
        BY <1>1
      <4>3. l \notin L => e.link[l] = d.link[l]
        BY <1>1
      <4> QED
        BY <4>1, <4>2, <4>3 DEF GuestLink
    <3>2. e.role[w] = d.role[w] /\ \A u \in Account : Active(e, u) <=> Active(d, u)
      BY <1>1 DEF KeepsAccounts, KeepsMembers, Active
    <3>3. \A l \in Link : d.link[l].of = w \/ e.link[l].of = w =>
            e.link[l].of = d.link[l].of /\ e.link[l].state = d.link[l].state
      BY <2>5, <3>1
    <3>4. AccessOf(e, w) = AccessOf(d, w)
      BY <3>2, <3>3, SameAccess
    <3>5. m \in Nat
      BY <2>2
    <3> HIDE DEF m
    <3> QED
      BY <2>1, <2>3, <3>4, <3>5 DEF LaterAccess
  <2> QED
    BY <2>4, <2>5
<1> QED
  BY <1>1, <1>2, AccountsKept, MembersKept DEF Later

\* All memberships of an account go with the revisions.
LEMMA WithoutMembershipsLater ==
  ASSUME NEW d \in Database, NEW u \in Account, NEW e, MembershipsGone(d, u, e)
  PROVE  Later(d, e)
<1> DEFINE n == Cardinality(MemberOf(d, u))
<1>1. /\ e \in Database /\ KeepsAccounts(d, e) /\ e.link = d.link
      /\ e.role = [w \in Workspace |-> [d.role[w] EXCEPT ![u] = "none"]]
      /\ e.membershipRevision = [d.membershipRevision EXCEPT ![u] = @ + n]
      /\ e.access = [w \in Workspace |->
                       d.access[w] + IF w \in MemberOf(d, u) THEN 1 ELSE 0]
  BY DEF MembershipsGone
<1>2. n \in Nat /\ (MemberOf(d, u) # {} => n > 0)
  BY Counted, SomeCount DEF MemberOf
<1> HIDE DEF n
<1>3. ASSUME NEW w \in Workspace PROVE LaterAccess(d, e, w)
  <2>1. d.access[w] \in Nat
    BY DEF Database
  <2>2. CASE w \in MemberOf(d, u)
    BY <1>1, <2>1, <2>2 DEF LaterAccess
  <2>3. CASE w \notin MemberOf(d, u)
    <3>1. e.role[w] = d.role[w]
      <4>1. d.role[w] \in [Account -> MemberRole] /\ d.role[w][u] = "none"
        BY <2>3 DEF MemberOf, Database
      <4>2. [d.role[w] EXCEPT ![u] = "none"] = d.role[w]
        BY <4>1
      <4> QED
        BY <1>1, <4>2
    <3>2. \A v \in Account : Active(e, v) <=> Active(d, v)
      BY <1>1 DEF KeepsAccounts, Active
    <3>3. AccessOf(e, w) = AccessOf(d, w)
      BY <1>1, <3>1, <3>2, SameAccess
    <3> QED
      BY <1>1, <2>1, <2>3, <3>3 DEF LaterAccess
  <2> QED
    BY <2>2, <2>3
<1>4. ASSUME NEW v \in Account PROVE LaterMember(d, e, v)
  <2>1. d.membershipRevision[v] \in Nat
    BY DEF Database
  <2>2. CASE v = u /\ MemberOf(d, u) # {}
    <3>1. e.membershipRevision[v] = d.membershipRevision[v] + n
      BY <1>1, <2>2 DEF Database
    <3> QED
      BY <1>2, <2>1, <2>2, <3>1 DEF LaterMember
  <2>3. CASE v # u \/ MemberOf(d, u) = {}
    <3>1. \A x \in Workspace : e.role[x][v] = d.role[x][v]
      BY <1>1, <2>3 DEF MemberOf, Database
    <3>2. e.membershipRevision[v] >= d.membershipRevision[v]
      BY <1>1, <1>2, <2>1 DEF Database
    <3> QED
      BY <3>1, <3>2 DEF LaterMember
  <2> QED
    BY <2>2, <2>3
<1> QED
  BY <1>1, <1>3, <1>4, AccountsKept DEF Later

-----------------------------------------------------------------------------
(* The parts of the invariant.  W and U are the workspaces and accounts left *)
(* out; b is the database where the behaviour started.                       *)

OwnedBut(d, W) == \A w \in Workspace \ W : Live(d, w) => ActiveOwners(d, w) # {}

AccountedBut(d, W) == \A w \in Workspace \ W : AccountedFor(d, w)

InactiveBut(d, U) ==
  \A u \in Account \ U : ~ Active(d, u) => HoldsNothing(d, u)

Limited(d) == \A u \in Account : WithinLimits(d, u)

SessionsFew(d) ==
  \A u \in Account : Cardinality(LiveSessionsOf(d, u)) <= SessionLimit

Budgets == {"workspace", "link", "session"}

Remembers(d) ==
  /\ \A what \in Budgets, u \in Account : Remembered(d, what, u)
  /\ Remembered(d, "account", Nobody)

\* The rows of the day of the k-th, and of the window that ends with it.
DayRows(times, k) == {n \in DOMAIN times : DayOf(times[n]) = DayOf(times[k])}

WindowRows(times, k) ==
  {n \in DOMAIN times : times[n] <= times[k] /\ times[n] > times[k] - WindowTicks}

RowsWithin(times, k, what) ==
  /\ Cardinality(DayRows(times, k)) <= DayLimit[what]
  /\ Cardinality(WindowRows(times, k)) <= WindowLimit[what]

\* BudgetsHold, of what u created since b.
WithinBudgetSince(b, d, what, u) ==
  LET times == d.ledger[what][u].at IN
  \A k \in DOMAIN times : k > Len(b.ledger[what][u].at) => RowsWithin(times, k, what)

Budgeted(b, d) ==
  \A what \in Budgets, u \in Account : WithinBudgetSince(b, d, what, u)

Sound(b, d, U, W) ==
  /\ d \in Database
  /\ OwnedBut(d, W) /\ AccountedBut(d, W)
  /\ InactiveBut(d, U)
  /\ Limited(d) /\ SessionsFew(d)
  /\ Remembers(d) /\ Budgeted(b, d)

\* A sound database that leaves nothing out is consistent.
LEMMA SoundIs ==
  ASSUME NEW b, NEW d
  PROVE  Sound(b, d, {}, {}) <=> Consistent(d) /\ Budgeted(b, d)
  BY DEF Sound, Consistent, OwnedBut, Owned, AccountedBut, InactiveBut, Limited,
         SessionsFew, Remembers, Budgets

\* Nothing is left out of a database once what was left out is as it should be.
LEMMA AccountSettled ==
  ASSUME NEW b, NEW d, NEW W, NEW u, Sound(b, d, {u}, W),
         ~ Active(d, u) => HoldsNothing(d, u)
  PROVE  Sound(b, d, {}, W)
  BY DEF Sound, InactiveBut

\* Likewise for a workspace.
LEMMA WorkspaceSettled ==
  ASSUME NEW b, NEW d, NEW U, NEW w, Sound(b, d, U, {w}), AccountedFor(d, w),
         Live(d, w) => ActiveOwners(d, w) # {}
  PROVE  Sound(b, d, U, {})
  BY DEF Sound, OwnedBut, AccountedBut

-----------------------------------------------------------------------------
(* When a part is kept. *)

\* Owners stay active owners.
LEMMA OwnedKept ==
  ASSUME NEW d, NEW e, NEW W, OwnedBut(d, W),
         \A w \in Workspace \ W : Live(e, w) => Live(d, w),
         \A w \in Workspace \ W, u \in Account : Owns(d, w, u) => Owns(e, w, u)
  PROVE  OwnedBut(e, W)
  BY DEF OwnedBut, ActiveOwners

\* Custody and members stay, and links do not come back.
LEMMA AccountedKept ==
  ASSUME NEW d \in Database, NEW e, NEW W, AccountedBut(d, W),
         KeepsWorkspaces(d, e),
         \A w \in Workspace \ W : Members(e, w) = Members(d, w),
         \A w \in Workspace \ W : LinksOf(e, w) \subseteq LinksOf(d, w)
  PROVE  AccountedBut(e, W)
<1>1. ASSUME NEW w \in Workspace \ W PROVE AccountedFor(e, w)
  <2>1. AccountedFor(d, w)
    BY DEF AccountedBut
  <2>2. Live(e, w) <=> Live(d, w)
    BY DEF KeepsWorkspaces, Live
  <2> QED
    BY <2>1, <2>2 DEF AccountedFor, KeepsWorkspaces
<1> QED
  BY <1>1 DEF AccountedBut

\* What an inactive account does not hold it does not get.
LEMMA InactiveKept ==
  ASSUME NEW d, NEW e, NEW U, InactiveBut(d, U),
         \A u \in Account \ U : e.status[u] # "active" =>
           /\ e.status[u] = d.status[u]
           /\ \A x \in Session : SessionLive(e, x, u) => SessionLive(d, x, u)
           /\ \A l \in Link : e.link[l].by = u /\ Usable(e, l) =>
                                d.link[l].by = u /\ Usable(d, l)
           /\ d.status[u] \in {"deleted", "absent"} =>
                MemberOf(e, u) \subseteq MemberOf(d, u)
           /\ d.status[u] = "deleted" => IdentitiesOf(e, u) \subseteq IdentitiesOf(d, u)
  PROVE  InactiveBut(e, U)
<1>1. ASSUME NEW u \in Account \ U, ~ Active(e, u) PROVE HoldsNothing(e, u)
  <2>1. HoldsNothing(d, u) /\ e.status[u] # "active"
    BY <1>1 DEF InactiveBut, Active
  <2> QED
    BY <2>1 DEF HoldsNothing
<1> QED
  BY <1>1 DEF InactiveBut

\* Custody and bytes stay.
LEMMA LimitedKept ==
  ASSUME NEW d, NEW e, Limited(d), KeepsWorkspaces(d, e)
  PROVE  Limited(e)
  BY DEF Limited, KeepsWorkspaces, WithinLimits, CustodyOf, Stored, BytesOf

\* No session becomes live.
LEMMA SessionsKept ==
  ASSUME NEW d, NEW e, SessionsFew(d),
         \A x \in Session, u \in Account : SessionLive(e, x, u) => SessionLive(d, x, u)
  PROVE  SessionsFew(e)
<1>1. ASSUME NEW u \in Account
      PROVE  Cardinality(LiveSessionsOf(e, u)) <= SessionLimit
  <2>1. LiveSessionsOf(e, u) \subseteq LiveSessionsOf(d, u)
        /\ LiveSessionsOf(d, u) \subseteq Session
    BY DEF LiveSessionsOf
  <2>2. IsFiniteSet(LiveSessionsOf(d, u))
        /\ Cardinality(LiveSessionsOf(d, u)) \in Nat
        /\ Cardinality(LiveSessionsOf(e, u)) \in Nat
    BY <2>1, Counted
  <2>3. Cardinality(LiveSessionsOf(e, u)) <= Cardinality(LiveSessionsOf(d, u))
    BY <2>1, <2>2, FS_Subset
  <2>4. Cardinality(LiveSessionsOf(d, u)) <= SessionLimit /\ SessionLimit \in Nat
    BY LimitsAssumption DEF SessionsFew
  <2> QED
    BY <2>2, <2>3, <2>4
<1> QED
  BY <1>1 DEF SessionsFew

\* The ledger stays, and time passes.
LEMMA RemembersKept ==
  ASSUME NEW d \in Database, NEW e \in Database, Remembers(d),
         e.ledger = d.ledger, e.clock >= d.clock,
         \A u \in Account : d.status[u] = "deleted" => e.status[u] = "deleted"
  PROVE  Remembers(e)
<1>1. ASSUME NEW what, NEW u, Remembered(d, what, u),
             d.ledger[what][u].at \in Seq(Int), Deleted(d, u) => Deleted(e, u)
      PROVE  Remembered(e, what, u)
  <2> DEFINE rows == d.ledger[what][u]
  <2>1. \A n \in DOMAIN rows.at : rows.at[n] \in Int
    BY <1>1
  <2>2. d.clock \in Nat /\ e.clock \in Nat /\ Grace \in Nat /\ WindowTicks \in Nat
    BY LimitsAssumption DEF Database
  <2>3. ASSUME NEW n \in DOMAIN rows.at
        PROVE  /\ rows.at[n] <= e.clock
               /\ rows.at[n] > e.clock - Grace - WindowTicks /\ ~ Deleted(e, u) =>
                    n \in rows.kept
    <3>1. /\ rows.at[n] <= d.clock
          /\ rows.at[n] > d.clock - Grace - WindowTicks /\ ~ Deleted(d, u) =>
               n \in rows.kept
      BY <1>1 DEF Remembered
    <3> QED
      BY <1>1, <2>1, <2>2, <3>1, SMTT(30)
  <2>4. rows.kept \subseteq DOMAIN rows.at
    BY <1>1 DEF Remembered
  <2> QED
    BY <2>3, <2>4 DEF Remembered
<1>2. \A u : Deleted(d, u) => Deleted(e, u)
  BY DEF Deleted
<1>3. \A what \in Budgets \cup {"account"}, u \in AccountOrNobody :
        d.ledger[what][u].at \in Seq(Int)
  BY DEF Database, Ledger, Creations, Budgets
<1> QED
  BY <1>1, <1>2, <1>3 DEF Remembers, AccountOrNobody

\* The ledger stays, and so does the time.
LEMMA LedgerKept ==
  ASSUME NEW b, NEW d, NEW U, NEW W, Sound(b, d, U, W), NEW e \in Database,
         e.ledger = d.ledger, e.clock = d.clock,
         \A u \in Account : d.status[u] = "deleted" => e.status[u] = "deleted"
  PROVE  Remembers(e) /\ Budgeted(b, e)
<1>1. d \in Database /\ Remembers(d) /\ Budgeted(b, d)
  BY DEF Sound
<1>2. e.clock >= d.clock
  BY <1>1 DEF Database
<1>3. Remembers(e)
  BY <1>1, <1>2, RemembersKept
<1>4. Budgeted(b, e)
  <2>1. ASSUME NEW what, NEW u, WithinBudgetSince(b, d, what, u)
        PROVE  WithinBudgetSince(b, e, what, u)
    <3>1. e.ledger[what][u].at = d.ledger[what][u].at
      OBVIOUS
    <3> QED
      BY <2>1, <3>1, Zenon DEF WithinBudgetSince
  <2> QED
    BY <1>1, <2>1 DEF Budgeted
<1> QED
  BY <1>3, <1>4

\* What decides about accounts, workspaces and sessions stays.
LEMMA PartsKept ==
  ASSUME NEW b, NEW d, NEW e \in Database, NEW U, NEW W, Sound(b, d, U, W),
         e.status = d.status, e.identity = d.identity, e.role = d.role,
         KeepsWorkspaces(d, e), e.link = d.link, KeepsSessions(d, e)
  PROVE  /\ OwnedBut(e, W) /\ AccountedBut(e, W) /\ InactiveBut(e, U)
         /\ Limited(e) /\ SessionsFew(e)
<1>1. OwnedBut(e, W)
  BY OwnedKept DEF Sound, Owns, Active, Live, KeepsWorkspaces
<1>2. AccountedBut(e, W)
  BY AccountedKept DEF Sound, Members, LinksOf
<1>3. \A x \in Session, u \in Account : SessionLive(e, x, u) => SessionLive(d, x, u)
  BY DEF SessionLive, Ended, KeepsSessions
<1>4. InactiveBut(e, U)
  BY <1>3, InactiveKept DEF Sound, Usable, MemberOf, IdentitiesOf
<1>5. Limited(e) /\ SessionsFew(e)
  BY <1>3, LimitedKept, SessionsKept DEF Sound
<1> QED
  BY <1>1, <1>2, <1>4, <1>5

\* Likewise with the ledger.
LEMMA SoundKept ==
  ASSUME NEW b, NEW d, NEW e \in Database, NEW U, NEW W, Sound(b, d, U, W),
         e.status = d.status, e.identity = d.identity, e.role = d.role,
         KeepsWorkspaces(d, e), e.link = d.link, KeepsSessions(d, e),
         e.ledger = d.ledger
  PROVE  Sound(b, e, U, W)
<1>1. /\ OwnedBut(e, W) /\ AccountedBut(e, W) /\ InactiveBut(e, U)
      /\ Limited(e) /\ SessionsFew(e)
  BY PartsKept
<1>2. Remembers(e) /\ Budgeted(b, e)
  BY LedgerKept DEF KeepsSessions
<1> QED
  BY <1>1, <1>2 DEF Sound

-----------------------------------------------------------------------------
(* What each statement keeps. *)

\* A role is set: the workspace is left out until its members are in order.
LEMMA RoleKeeps ==
  ASSUME NEW b, NEW d, NEW U, NEW W, Sound(b, d, U, W),
         NEW w \in Workspace, NEW u \in Account, NEW r, NEW e, RoleSet(d, w, u, r, e),
         r # "none" => d.status[u] \notin {"deleted", "absent"}
  PROVE  Sound(b, e, U, W \cup {w}) /\ Later(d, e)
<1>1. /\ d \in Database /\ e \in Database /\ KeepsAccounts(d, e)
      /\ KeepsWorkspaces(d, e) /\ e.link = d.link /\ KeepsSessions(d, e)
      /\ KeepsUsage(d, e) /\ e.role = [d.role EXCEPT ![w] = [@ EXCEPT ![u] = r]]
  BY DEF Sound, RoleSet
<1>2. \A x \in Workspace \ (W \cup {w}) : e.role[x] = d.role[x]
  BY <1>1 DEF Database
<1>3. OwnedBut(d, W \cup {w}) /\ AccountedBut(d, W \cup {w})
  <2>1. OwnedBut(d, W) /\ AccountedBut(d, W)
    BY DEF Sound
  <2> QED
    BY <2>1 DEF OwnedBut, AccountedBut
<1>4. OwnedBut(e, W \cup {w})
  <2>1. /\ \A x \in Workspace \ (W \cup {w}) : Live(e, x) => Live(d, x)
        /\ \A x \in Workspace \ (W \cup {w}), v \in Account :
             Owns(d, x, v) => Owns(e, x, v)
    BY <1>1, <1>2 DEF Owns, Active, Live, KeepsAccounts, KeepsWorkspaces
  <2> QED
    BY <1>3, <2>1, OwnedKept
<1>5. AccountedBut(e, W \cup {w})
  BY <1>1, <1>2, <1>3, AccountedKept DEF Members, LinksOf
<1>6. \A x \in Session, v \in Account : SessionLive(e, x, v) => SessionLive(d, x, v)
  BY <1>1 DEF SessionLive, Ended, KeepsSessions
<1>7. ASSUME NEW v \in Account, d.status[v] \in {"deleted", "absent"}
      PROVE  MemberOf(e, v) \subseteq MemberOf(d, v)
  <2>1. \A x \in Workspace : e.role[x][v] # "none" => e.role[x][v] = d.role[x][v]
    BY <1>1, <1>7 DEF Database
  <2> QED
    BY <2>1 DEF MemberOf
<1>8. InactiveBut(e, U)
  BY <1>1, <1>6, <1>7, InactiveKept
     DEF Sound, KeepsAccounts, Usable, IdentitiesOf
<1>9. Limited(e) /\ SessionsFew(e)
  BY <1>1, <1>6, LimitedKept, SessionsKept DEF Sound
<1>10. Remembers(e) /\ Budgeted(b, e)
  <2>1. e.ledger = d.ledger /\ e.clock = d.clock /\ e.status = d.status
    BY <1>1 DEF KeepsUsage, KeepsSessions, KeepsAccounts
  <2> QED
    BY <1>1, <2>1, LedgerKept
<1>11. Later(d, e)
  BY <1>1, RoleLater
<1> QED
  BY <1>1, <1>4, <1>5, <1>8, <1>9, <1>10, <1>11 DEF Sound

\* A status is set: the account is left out until it holds what it may.
LEMMA StatusKeeps ==
  ASSUME NEW b, NEW d, NEW U, NEW W, Sound(b, d, U, W),
         NEW u \in Account, NEW s, NEW e, StatusSet(d, u, s, e),
         d.status[u] # "deleted",
         s # "active" => \A w \in Workspace \ W :
                           Live(d, w) => \E v \in ActiveOwners(d, w) : v # u
  PROVE  Sound(b, e, U \cup {u}, W) /\ Later(d, e)
<1>1. /\ d \in Database /\ e \in Database /\ e.identity = d.identity
      /\ e.role = d.role /\ KeepsWorkspaces(d, e) /\ e.link = d.link
      /\ KeepsSessions(d, e) /\ KeepsUsage(d, e)
      /\ e.status = [d.status EXCEPT ![u] = s]
  BY DEF Sound, StatusSet
<1>2. \A v \in Account : v # u => e.status[v] = d.status[v]
  BY <1>1 DEF Database
<1>3. e.status[u] = s
  BY <1>1 DEF Database
<1>4. OwnedBut(e, W)
  <2>1. CASE s = "active"
    <3>1. \A v \in Account : Active(d, v) => Active(e, v)
      BY <1>2, <1>3, <2>1 DEF Active
    <3> QED
      BY <1>1, <3>1, OwnedKept DEF Sound, Owns, Live, KeepsWorkspaces
  <2>2. CASE s # "active"
    <3>1. ASSUME NEW w \in Workspace \ W, Live(e, w)
          PROVE  ActiveOwners(e, w) # {}
      <4>1. Live(d, w)
        BY <1>1, <3>1 DEF Live, KeepsWorkspaces
      <4>2. PICK v \in ActiveOwners(d, w) : v # u
        BY <2>2, <4>1
      <4>3. v \in ActiveOwners(e, w)
        BY <1>1, <1>2, <4>2 DEF ActiveOwners, Owns, Active
      <4> QED
        BY <4>3
    <3> QED
      BY <3>1 DEF OwnedBut
  <2> QED
    BY <2>1, <2>2
<1>5. AccountedBut(e, W)
  BY <1>1, AccountedKept DEF Sound, Members, LinksOf
<1>6. \A x \in Session, v \in Account : SessionLive(e, x, v) => SessionLive(d, x, v)
  BY <1>1 DEF SessionLive, Ended, KeepsSessions
<1>7. InactiveBut(d, U \cup {u})
  <2>1. InactiveBut(d, U)
    BY DEF Sound
  <2> QED
    BY <2>1 DEF InactiveBut
<1>8. InactiveBut(e, U \cup {u})
  <2>1. \A v \in Account \ (U \cup {u}) :
          /\ e.status[v] = d.status[v]
          /\ \A x \in Session : SessionLive(e, x, v) => SessionLive(d, x, v)
          /\ \A l \in Link : e.link[l].by = v /\ Usable(e, l) =>
                               d.link[l].by = v /\ Usable(d, l)
          /\ d.status[v] \in {"deleted", "absent"} =>
               MemberOf(e, v) \subseteq MemberOf(d, v)
          /\ d.status[v] = "deleted" => IdentitiesOf(e, v) \subseteq IdentitiesOf(d, v)
    BY <1>1, <1>2, <1>6 DEF Usable, MemberOf, IdentitiesOf
  <2> QED
    BY <1>7, <2>1, InactiveKept
<1>9. Limited(e) /\ SessionsFew(e)
  BY <1>1, <1>6, LimitedKept, SessionsKept DEF Sound
<1>10. Remembers(e) /\ Budgeted(b, e)
  <2>1. e.ledger = d.ledger /\ e.clock = d.clock
    BY <1>1 DEF KeepsUsage, KeepsSessions
  <2>2. \A v \in Account : d.status[v] = "deleted" => e.status[v] = "deleted"
    BY <1>2
  <2> QED
    BY <1>1, <2>1, <2>2, LedgerKept
<1>11. Later(d, e)
  BY <1>1, StatusLater
<1> QED
  BY <1>1, <1>4, <1>5, <1>8, <1>9, <1>10, <1>11 DEF Sound

\* A global role is set.
LEMMA AdminKeeps ==
  ASSUME NEW b, NEW d, NEW U, NEW W, Sound(b, d, U, W),
         NEW u \in Account, NEW yes, NEW e, AdminSet(d, u, yes, e)
  PROVE  Sound(b, e, U, W) /\ Later(d, e)
<1>1. /\ d \in Database /\ e \in Database /\ e.status = d.status
      /\ e.identity = d.identity /\ KeepsMembers(d, e) /\ KeepsWorkspaces(d, e)
      /\ KeepsLinks(d, e) /\ KeepsSessions(d, e) /\ KeepsUsage(d, e)
  BY DEF Sound, AdminSet
<1>2. Sound(b, e, U, W)
  BY <1>1, SoundKept DEF KeepsMembers, KeepsLinks, KeepsUsage
<1> QED
  BY <1>1, <1>2, AdminLater

\* An identity is given to an account that is not deleted, or taken.
LEMMA IdentityKeeps ==
  ASSUME NEW b, NEW d, NEW U, NEW W, Sound(b, d, U, W),
         NEW i, NEW v \in AccountOrNobody, NEW u \in Account, NEW e,
         IdentitySet(d, i, v, u, e), {d.identity[i], v} \subseteq {u, Nobody},
         v \in Account => d.status[v] # "deleted"
  PROVE  Sound(b, e, U, W) /\ Later(d, e)
<1>1. /\ d \in Database /\ e \in Database /\ e.status = d.status
      /\ KeepsMembers(d, e) /\ KeepsWorkspaces(d, e) /\ KeepsLinks(d, e)
      /\ KeepsSessions(d, e) /\ KeepsUsage(d, e)
      /\ e.identity = [d.identity EXCEPT ![i] = v]
  BY DEF Sound, IdentitySet
<1>2. OwnedBut(e, W) /\ AccountedBut(e, W)
  BY <1>1, OwnedKept, AccountedKept
     DEF Sound, Owns, Active, Live, Members, LinksOf, KeepsMembers, KeepsWorkspaces,
         KeepsLinks
<1>3. \A x \in Session, y \in Account : SessionLive(e, x, y) => SessionLive(d, x, y)
  BY <1>1 DEF SessionLive, Ended, KeepsSessions
<1>4. ASSUME NEW y \in Account, d.status[y] = "deleted"
      PROVE  IdentitiesOf(e, y) \subseteq IdentitiesOf(d, y)
  <2>1. y # v
    BY <1>4
  <2>2. \A j \in Identity : e.identity[j] = y => d.identity[j] = y
    BY <1>1, <2>1 DEF Database
  <2> QED
    BY <2>2 DEF IdentitiesOf
<1>5. InactiveBut(e, U)
  BY <1>1, <1>3, <1>4, InactiveKept
     DEF Sound, Usable, MemberOf, KeepsMembers, KeepsLinks
<1>6. Limited(e) /\ SessionsFew(e)
  BY <1>1, <1>3, LimitedKept, SessionsKept DEF Sound
<1>7. Remembers(e) /\ Budgeted(b, e)
  <2>1. e.ledger = d.ledger /\ e.clock = d.clock
    BY <1>1 DEF KeepsUsage, KeepsSessions
  <2> QED
    BY <1>1, <2>1, LedgerKept
<1>8. Later(d, e)
  BY <1>1, IdentityLater
<1> QED
  BY <1>1, <1>2, <1>5, <1>6, <1>7, <1>8 DEF Sound

\* The identities of an account are taken.
LEMMA IdentitiesGoneKeep ==
  ASSUME NEW b, NEW d, NEW U, NEW W, Sound(b, d, U, W),
         NEW u \in Account, NEW e, IdentitiesGone(d, u, e)
  PROVE  Sound(b, e, U, W) /\ Later(d, e)
<1>1. /\ d \in Database /\ e \in Database /\ e.status = d.status
      /\ KeepsMembers(d, e) /\ KeepsWorkspaces(d, e) /\ KeepsLinks(d, e)
      /\ KeepsSessions(d, e) /\ KeepsUsage(d, e)
      /\ \A i \in Identity : e.identity[i] \in {d.identity[i], Nobody}
  BY DEF Sound, IdentitiesGone
<1>2. OwnedBut(e, W) /\ AccountedBut(e, W)
  BY <1>1, OwnedKept, AccountedKept
     DEF Sound, Owns, Active, Live, Members, LinksOf, KeepsMembers, KeepsWorkspaces,
         KeepsLinks
<1>3. \A x \in Session, y \in Account : SessionLive(e, x, y) => SessionLive(d, x, y)
  BY <1>1 DEF SessionLive, Ended, KeepsSessions
<1>4. \A y \in Account : IdentitiesOf(e, y) \subseteq IdentitiesOf(d, y)
  BY <1>1, StoreAssumption DEF IdentitiesOf
<1>5. InactiveBut(e, U)
  BY <1>1, <1>3, <1>4, InactiveKept
     DEF Sound, Usable, MemberOf, KeepsMembers, KeepsLinks
<1>6. Limited(e) /\ SessionsFew(e)
  BY <1>1, <1>3, LimitedKept, SessionsKept DEF Sound
<1>7. Remembers(e) /\ Budgeted(b, e)
  <2>1. e.ledger = d.ledger /\ e.clock = d.clock
    BY <1>1 DEF KeepsUsage, KeepsSessions
  <2> QED
    BY <1>1, <2>1, LedgerKept
<1>8. Later(d, e)
  BY <1>1, WithoutIdentitiesLater
<1> QED
  BY <1>1, <1>2, <1>5, <1>6, <1>7, <1>8 DEF Sound

\* Links are used, revoked or deleted.
LEMMA LinksKeep ==
  ASSUME NEW b, NEW d, NEW U, NEW W, Sound(b, d, U, W),
         NEW L \in SUBSET Link, NEW s \in {"used", "revoked", "gone"}, NEW e,
         LinksSet(d, L, s, e),
         s # "gone" => \A l \in L : d.link[l].state \notin {"absent", "gone"}
  PROVE  Sound(b, e, U, W) /\ Later(d, e)
<1>1. /\ d \in Database /\ e \in Database /\ KeepsAccounts(d, e)
      /\ KeepsMembers(d, e) /\ KeepsWorkspaces(d, e)
      /\ KeepsSessions(d, e) /\ KeepsUsage(d, e)
      /\ \A l \in Link : e.link[l] = IF l \in L THEN [d.link[l] EXCEPT !.state = s]
                                      ELSE d.link[l]
  BY DEF Sound, LinksSet
<1>2. ASSUME NEW l \in Link
      PROVE  /\ e.link[l].of = d.link[l].of /\ e.link[l].by = d.link[l].by
             /\ e.link[l].expired = d.link[l].expired
             /\ e.link[l].state = IF l \in L THEN s ELSE d.link[l].state
  <2>1. d.link[l] \in GuestLink
    BY <1>1 DEF Database
  <2>2. CASE l \in L
    <3>1. e.link[l] = [d.link[l] EXCEPT !.state = s]
      BY <1>1, <2>2
    <3> QED
      BY <2>1, <2>2, <3>1 DEF GuestLink
  <2>3. CASE l \notin L
    BY <1>1, <2>3
  <2> QED
    BY <2>2, <2>3
<1>3. OwnedBut(e, W)
  BY <1>1, OwnedKept
     DEF Sound, Owns, Active, Live, KeepsAccounts, KeepsMembers, KeepsWorkspaces
<1>4. \A w \in Workspace : LinksOf(e, w) \subseteq LinksOf(d, w)
  BY <1>2 DEF LinksOf
<1>5. AccountedBut(e, W)
  BY <1>1, <1>4, AccountedKept DEF Sound, Members, KeepsMembers
<1>6. \A x \in Session, y \in Account : SessionLive(e, x, y) => SessionLive(d, x, y)
  BY <1>1 DEF SessionLive, Ended, KeepsSessions
<1>7. \A l \in Link : Usable(e, l) => Usable(d, l)
  BY <1>2 DEF Usable
<1>8. InactiveBut(e, U)
  BY <1>1, <1>2, <1>6, <1>7, InactiveKept
     DEF Sound, MemberOf, IdentitiesOf, KeepsMembers, KeepsAccounts
<1>9. Limited(e) /\ SessionsFew(e)
  BY <1>1, <1>6, LimitedKept, SessionsKept DEF Sound
<1>10. Remembers(e) /\ Budgeted(b, e)
  <2>1. e.ledger = d.ledger /\ e.clock = d.clock /\ e.status = d.status
    BY <1>1 DEF KeepsUsage, KeepsSessions, KeepsAccounts
  <2> QED
    BY <1>1, <2>1, LedgerKept
<1>11. Later(d, e)
  BY <1>1, LinkStateLater
<1> QED
  BY <1>1, <1>3, <1>5, <1>8, <1>9, <1>10, <1>11 DEF Sound

\* Sessions end, as time passes or otherwise, or their rows are deleted.
LEMMA SessionsKeep ==
  ASSUME NEW b, NEW d, NEW U, NEW W, Sound(b, d, U, W), NEW e \in Database,
         KeepsAccounts(d, e), KeepsMembers(d, e), KeepsWorkspaces(d, e),
         KeepsLinks(d, e), KeepsUsage(d, e), e.clock >= d.clock,
         \A x \in Session, u \in Account : SessionLive(e, x, u) => SessionLive(d, x, u)
  PROVE  Sound(b, e, U, W) /\ Later(d, e)
<1>1. d \in Database /\ d.clock \in Nat
  BY DEF Sound, Database
<1>2. OwnedBut(e, W) /\ AccountedBut(e, W)
  BY <1>1, OwnedKept, AccountedKept
     DEF Sound, Owns, Active, Live, Members, LinksOf, KeepsAccounts, KeepsMembers,
         KeepsWorkspaces, KeepsLinks
<1>3. InactiveBut(e, U)
  BY InactiveKept
     DEF Sound, Usable, MemberOf, IdentitiesOf, KeepsAccounts, KeepsMembers, KeepsLinks
<1>4. Limited(e) /\ SessionsFew(e)
  BY LimitedKept, SessionsKept DEF Sound
<1>5. Remembers(e)
  <2>1. Remembers(d) /\ e.ledger = d.ledger /\ e.status = d.status
    BY DEF Sound, KeepsUsage, KeepsAccounts
  <2> QED
    BY <1>1, <2>1, RemembersKept
<1>6. Budgeted(b, e)
  <2>1. Budgeted(b, d) /\ e.ledger = d.ledger
    BY DEF Sound, KeepsUsage
  <2>2. ASSUME NEW what, NEW u, WithinBudgetSince(b, d, what, u)
        PROVE  WithinBudgetSince(b, e, what, u)
    BY <2>1, <2>2 DEF WithinBudgetSince
  <2> QED
    BY <2>1, <2>2 DEF Budgeted
<1>7. Later(d, e)
  BY <1>1, LaterKept DEF KeepsLinks
<1> QED
  BY <1>2, <1>3, <1>4, <1>5, <1>6, <1>7 DEF Sound

\* Sessions are revoked, and then none of them is live.
LEMMA RevokedKeep ==
  ASSUME NEW b, NEW d, NEW U, NEW W, Sound(b, d, U, W),
         NEW X \in SUBSET Session, NEW e, SessionsEnd(d, X, e)
  PROVE  /\ Sound(b, e, U, W) /\ Later(d, e)
         /\ \A x \in X, u \in Account : ~ SessionLive(e, x, u)
<1>1. /\ d \in Database /\ e \in Database /\ KeepsAccounts(d, e)
      /\ KeepsMembers(d, e) /\ KeepsWorkspaces(d, e) /\ KeepsLinks(d, e)
      /\ KeepsUsage(d, e) /\ e.clock = d.clock
      /\ \A x \in Session :
           e.session[x] = IF x \in X /\ ~ Ended(d, x, d.clock)
                          THEN [d.session[x] EXCEPT !.live = FALSE, !.end = d.clock]
                          ELSE d.session[x]
  BY DEF Sound, SessionsEnd
<1>2. ASSUME NEW x \in Session
      PROVE  /\ x \in X => Ended(e, x, e.clock)
             /\ x \notin X => e.session[x] = d.session[x]
             /\ e.session[x].of = d.session[x].of
             /\ Ended(d, x, d.clock) => e.session[x] = d.session[x]
  <2>1. d.session[x] \in SessionRow
    BY <1>1 DEF Database
  <2>2. CASE x \in X /\ ~ Ended(d, x, d.clock)
    <3>1. e.session[x] = [d.session[x] EXCEPT !.live = FALSE, !.end = d.clock]
      BY <1>1, <2>2
    <3>2. e.session[x].live = FALSE /\ e.session[x].of = d.session[x].of
      BY <2>1, <3>1 DEF SessionRow
    <3> QED
      BY <2>2, <3>2 DEF Ended
  <2>3. CASE ~ (x \in X /\ ~ Ended(d, x, d.clock))
    <3>1. e.session[x] = d.session[x]
      BY <1>1, <2>3
    <3> QED
      BY <1>1, <2>3, <3>1 DEF Ended
  <2> QED
    BY <2>2, <2>3
<1>3. \A x \in Session, u \in Account : SessionLive(e, x, u) => SessionLive(d, x, u)
  BY <1>1, <1>2 DEF SessionLive, Ended
<1>4. \A x \in X, u \in Account : ~ SessionLive(e, x, u)
  BY <1>1, <1>2 DEF SessionLive
<1>5. e.clock >= d.clock
  <2>1. d.clock \in Nat
    BY <1>1 DEF Database
  <2>2. e.clock = d.clock
    BY <1>1
  <2> QED
    BY ONLY <2>1, <2>2
<1> QED
  BY <1>1, <1>3, <1>4, <1>5, SessionsKeep

\* The memberships of an account that is not active go.
LEMMA MembershipsGoneKeep ==
  ASSUME NEW b, NEW d, NEW U, Sound(b, d, U, {}),
         NEW u \in Account, ~ Active(d, u), NEW e, MembershipsGone(d, u, e)
  PROVE  Sound(b, e, U, {}) /\ Later(d, e) /\ MemberOf(e, u) = {}
<1>1. /\ d \in Database /\ e \in Database /\ KeepsAccounts(d, e)
      /\ KeepsWorkspaces(d, e) /\ e.link = d.link
      /\ KeepsSessions(d, e) /\ KeepsUsage(d, e)
      /\ e.role = [w \in Workspace |-> [d.role[w] EXCEPT ![u] = "none"]]
  BY DEF Sound, MembershipsGone
<1>2. \A w \in Workspace, v \in Account :
        e.role[w][v] = IF v = u THEN "none" ELSE d.role[w][v]
  BY <1>1 DEF Database
<1>3. \A w \in Workspace, v \in Account : Owns(d, w, v) => Owns(e, w, v)
  BY <1>1, <1>2 DEF Owns, Active, KeepsAccounts
<1>4. OwnedBut(e, {})
  BY <1>1, <1>3, OwnedKept DEF Sound, Live, KeepsWorkspaces
<1>5. ASSUME NEW w \in Workspace PROVE AccountedFor(e, w)
  <2>1. AccountedFor(d, w)
    BY DEF Sound, AccountedBut
  <2>2. /\ Live(e, w) <=> Live(d, w)
        /\ e.custodian[w] = d.custodian[w] /\ LinksOf(e, w) = LinksOf(d, w)
    BY <1>1 DEF KeepsWorkspaces, Live, LinksOf
  <2>3. Members(e, w) \subseteq Members(d, w) /\ Members(d, w) \subseteq Account
    BY <1>2 DEF Members
  <2>4. Cardinality(Members(e, w)) <= MemberLimit
    <3>1. IsFiniteSet(Members(d, w)) /\ Cardinality(Members(d, w)) \in Nat
          /\ Cardinality(Members(e, w)) \in Nat
      BY <2>3, Counted
    <3>2. Cardinality(Members(e, w)) <= Cardinality(Members(d, w))
      BY <2>3, <3>1, FS_Subset
    <3> QED
      BY <2>1, <3>1, <3>2, StoreAssumption DEF AccountedFor
  <2>5. Live(e, w) => Members(e, w) # {}
    <3>1. \A v \in Account : Owns(e, w, v) => v \in Members(e, w)
      BY DEF Owns, Members
    <3> QED
      BY <1>4, <3>1 DEF OwnedBut, ActiveOwners
  <2> QED
    BY <2>1, <2>2, <2>3, <2>4, <2>5 DEF AccountedFor
<1>6. \A x \in Session, v \in Account : SessionLive(e, x, v) => SessionLive(d, x, v)
  BY <1>1 DEF SessionLive, Ended, KeepsSessions
<1>7. \A v \in Account : MemberOf(e, v) \subseteq MemberOf(d, v)
  BY <1>2 DEF MemberOf
<1>8. InactiveBut(e, U)
  BY <1>1, <1>6, <1>7, InactiveKept DEF Sound, KeepsAccounts, Usable, IdentitiesOf
<1>9. Limited(e) /\ SessionsFew(e)
  BY <1>1, <1>6, LimitedKept, SessionsKept DEF Sound
<1>10. Remembers(e) /\ Budgeted(b, e)
  <2>1. e.ledger = d.ledger /\ e.clock = d.clock /\ e.status = d.status
    BY <1>1 DEF KeepsUsage, KeepsSessions, KeepsAccounts
  <2> QED
    BY <1>1, <2>1, LedgerKept
<1>11. Later(d, e) /\ MemberOf(e, u) = {}
  BY <1>1, <1>2, WithoutMembershipsLater DEF MemberOf
<1> QED
  BY <1>1, <1>4, <1>5, <1>8, <1>9, <1>10, <1>11 DEF Sound, AccountedBut
-----------------------------------------------------------------------------
(* Something is created. *)

OneRowMore(t, at, s) ==
  /\ s \in Seq(Int) /\ Len(s) = Len(t) + 1 /\ Len(t) \in Nat
  /\ DOMAIN s = DOMAIN t \cup {Len(t) + 1}
  /\ Len(t) + 1 \notin DOMAIN t /\ s[Len(t) + 1] = at
  /\ \A n \in DOMAIN t : s[n] = t[n] /\ t[n] \in Int
  /\ IsFiniteSet(DOMAIN t)

\* A sequence of times with one more.
LEMMA RowAdded ==
  ASSUME NEW t \in Seq(Int), NEW at \in Int
  PROVE  OneRowMore(t, at, Append(t, at))
<1>1. DOMAIN t = 1..Len(t) /\ Len(t) \in Nat
  OBVIOUS
<1>2. IsFiniteSet(DOMAIN t)
  BY <1>1, FS_Interval
<1> QED
  BY <1>1, <1>2 DEF OneRowMore

\* A set of rows within a set smaller than the limit, but for one more.
LEMMA OneMore ==
  ASSUME NEW X, NEW n, NEW limit \in Nat, NEW S, IsFiniteSet(X),
         Cardinality(X) < limit, S \subseteq X \cup {n}
  PROVE  Cardinality(S) <= limit
<1>1. IsFiniteSet(X \cup {n}) /\ Cardinality(X) \in Nat
      /\ Cardinality(X \cup {n}) <= Cardinality(X) + 1
  BY FS_AddElement, FS_CardinalityType
<1>2. IsFiniteSet(S) /\ Cardinality(S) <= Cardinality(X \cup {n})
  BY <1>1, FS_Subset
<1>3. Cardinality(S) \in Nat /\ Cardinality(X \cup {n}) \in Nat
  BY <1>1, <1>2, FS_CardinalityType
<1> QED
  BY <1>1, <1>2, <1>3

\* The rows of K of the day of a time, and of the window that begins before it.
ThatDay(t, K, at) == {n \in K : DayOf(t[n]) = DayOf(at)}

Since(t, K, at) == {n \in K : t[n] > at - WindowTicks}

\* With one more row, the rows of one day and of one window stay within limits
\* that were not reached, when those that still count are among the rows K.
LEMMA CountsAfter ==
  ASSUME NEW t \in Seq(Int), NEW at \in Int, NEW s, s = Append(t, at),
         NEW K \in SUBSET (DOMAIN t), NEW what \in Budgets,
         \A n \in DOMAIN t : t[n] > at - WindowTicks => n \in K,
         Cardinality(ThatDay(t, K, at)) < DayLimit[what],
         Cardinality(Since(t, K, at)) < WindowLimit[what],
         NEW k \in DOMAIN s, k \in DOMAIN t => RowsWithin(t, k, what)
  PROVE  RowsWithin(s, k, what)
<1> DEFINE new == Len(t) + 1
           thatDay == ThatDay(t, K, at)
           since == Since(t, K, at)
           Day == DayRows(s, k)
           Window == WindowRows(s, k)
<1>1. /\ DOMAIN s = DOMAIN t \cup {new} /\ new \notin DOMAIN t /\ s[new] = at
      /\ \A n \in DOMAIN t : s[n] = t[n] /\ t[n] \in Int
      /\ IsFiniteSet(DOMAIN t)
  <2>1. OneRowMore(t, at, s)
    BY RowAdded
  <2> QED
    BY <2>1 DEF OneRowMore
<1>2. DayTicks \in Nat /\ WindowTicks \in Nat /\ DayTicks <= WindowTicks
  BY LimitsAssumption
<1>3. IsFiniteSet(since) /\ IsFiniteSet(thatDay)
  <2>1. since \subseteq DOMAIN t /\ thatDay \subseteq DOMAIN t
    BY DEF Since, ThatDay
  <2> QED
    BY <1>1, <2>1, FS_Subset
<1>4. Cardinality(Day) <= DayLimit[what]
  <2>1. CASE DayOf(s[k]) = DayOf(at)
    <3>1. ASSUME NEW n \in Day, n # new PROVE n \in thatDay
      <4>1. n \in DOMAIN t /\ DayOf(t[n]) = DayOf(at) /\ t[n] \in Int
        BY <1>1, <2>1, <3>1 DEF DayRows
      <4>2. t[n] > at - DayTicks
        BY <4>1, DaysAre
      <4>3. t[n] > at - WindowTicks
        BY <1>2, <4>1, <4>2
      <4> QED
        BY <4>1, <4>3 DEF ThatDay
    <3>2. Day \subseteq thatDay \cup {new}
      BY <3>1
    <3>3. Cardinality(thatDay) < DayLimit[what] /\ DayLimit[what] \in Nat
      BY LimitsAssumption DEF Budgets
    <3> HIDE DEF Day, thatDay, new
    <3> QED
      BY <1>3, <3>2, <3>3, OneMore
  <2>2. CASE DayOf(s[k]) # DayOf(at)
    <3>1. k \in DOMAIN t
      BY <1>1, <2>2
    <3>2. Day = DayRows(t, k)
      BY <1>1, <2>2, <3>1 DEF DayRows
    <3> QED
      BY <3>1, <3>2 DEF RowsWithin
  <2> QED
    BY <2>1, <2>2
<1>5. Cardinality(Window) <= WindowLimit[what]
  <2>1. CASE at <= s[k] /\ at > s[k] - WindowTicks
    <3>1. ASSUME NEW n \in Window, n # new PROVE n \in since
      <4>1. n \in DOMAIN t /\ t[n] > s[k] - WindowTicks /\ t[n] \in Int /\ s[k] \in Int
        BY <1>1, <3>1 DEF WindowRows
      <4>2. t[n] > at - WindowTicks
        BY <1>2, <2>1, <4>1
      <4> QED
        BY <4>1, <4>2 DEF Since
    <3>2. Window \subseteq since \cup {new}
      BY <3>1
    <3>3. Cardinality(since) < WindowLimit[what] /\ WindowLimit[what] \in Nat
      BY LimitsAssumption DEF Budgets
    <3> HIDE DEF Window, since, new
    <3> QED
      BY <1>3, <3>2, <3>3, OneMore
  <2>2. CASE ~ (at <= s[k] /\ at > s[k] - WindowTicks)
    <3>1. k \in DOMAIN t
      <4>1. WindowTicks > 0
        BY LimitsAssumption, SMTT(30)
      <4> QED
        BY <1>1, <1>2, <2>2, <4>1
    <3>2. Window = WindowRows(t, k)
      BY <1>1, <2>2, <3>1 DEF WindowRows
    <3> QED
      BY <3>1, <3>2 DEF RowsWithin
  <2> QED
    BY <2>1, <2>2
<1> QED
  BY <1>4, <1>5 DEF RowsWithin

\* A creation within the budget leaves the budget held on every day and in
\* every window: what the ledger forgot, a handler that is less than an hour
\* late does not count.
LEMMA BudgetAfter ==
  ASSUME NEW b, NEW d \in Database, NEW what \in Budgets, NEW u \in Account,
         NEW at \in Int, d.clock - Grace <= at, ~ Deleted(d, u),
         Remembered(d, what, u), WithinBudgetSince(b, d, what, u),
         WithinBudget(d, what, u, at),
         NEW e, e.ledger[what][u].at = Append(d.ledger[what][u].at, at)
  PROVE  WithinBudgetSince(b, e, what, u)
<1>1. PICK t \in Seq(Int) : t = d.ledger[what][u].at
  BY DEF Database, Ledger, Creations, Budgets, AccountOrNobody
<1>2. PICK s : s = e.ledger[what][u].at
  OBVIOUS
<1>3. PICK K : K = Created(d, what, u)
  BY SMTT(30)
<1>4. K \in SUBSET (DOMAIN t) /\ s = Append(t, at)
  BY <1>1, <1>2, <1>3 DEF Remembered, Created
<1>5. \A n \in DOMAIN t : t[n] > at - WindowTicks => n \in K
  <2>1. \A n \in DOMAIN t : t[n] > d.clock - Grace - WindowTicks => n \in K
    BY <1>1, <1>3 DEF Remembered, Created
  <2>2. d.clock \in Int /\ Grace \in Int /\ WindowTicks \in Int
    BY LimitsAssumption DEF Database
  <2>3. \A n \in DOMAIN t : t[n] \in Int
    OBVIOUS
  <2> QED
    BY <2>1, <2>2, <2>3
<1>6. Cardinality(ThatDay(t, K, at)) < DayLimit[what]
      /\ Cardinality(Since(t, K, at)) < WindowLimit[what]
  BY <1>1, <1>3
     DEF WithinBudget, CreatedThatDay, CreatedSince, TimeOf, ThatDay, Since
<1>7. ASSUME NEW k \in DOMAIN s, k > Len(b.ledger[what][u].at)
      PROVE  RowsWithin(s, k, what)
  <2>1. k \in DOMAIN t => RowsWithin(t, k, what)
    BY <1>1, <1>7 DEF WithinBudgetSince
  <2> QED
    BY <1>4, <1>5, <1>6, <2>1, CountsAfter
<1> QED
  BY <1>2, <1>7 DEF WithinBudgetSince

\* The rows that a budget may still count are kept when one is added.
LEMMA RememberedAfter ==
  ASSUME NEW d \in Database, NEW what \in Budgets \cup {"account"},
         NEW u \in AccountOrNobody, NEW at \in Int,
         d.clock - Grace <= at, at <= d.clock, Remembered(d, what, u),
         NEW e, e.ledger[what][u] = MoreCreated(d, what, u, at),
         e.clock = d.clock, e.status = d.status
  PROVE  Remembered(e, what, u)
<1>1. PICK t \in Seq(Int) : t = d.ledger[what][u].at
  BY DEF Database, Ledger, Creations, Budgets
<1>2. PICK K : K = d.ledger[what][u].kept
  OBVIOUS
<1>3. PICK s : s = Append(t, at)
  OBVIOUS
<1>4. OneRowMore(t, at, s)
  BY <1>3, RowAdded
<1>5. PICK rows : rows = e.ledger[what][u]
  OBVIOUS
<1>6. /\ rows.at = s
      /\ rows.kept = {n \in K \cup {Len(s)} : what \in {"session", "link"} =>
                                               s[n] > at - WindowTicks - DayTicks}
  <2>1. MoreCreated(d, what, u, at) =
          [at |-> s, kept |-> {n \in K \cup {Len(s)} : what \in {"session", "link"} =>
                                               s[n] > at - WindowTicks - DayTicks}]
    BY <1>1, <1>2, <1>3, Zenon DEF MoreCreated, Created
  <2> QED
    BY <1>5, <2>1
<1>7. /\ K \subseteq DOMAIN t
      /\ \A n \in DOMAIN t :
           /\ t[n] <= d.clock
           /\ t[n] > d.clock - Grace - WindowTicks /\ ~ Deleted(d, u) => n \in K
  BY <1>1, <1>2 DEF Remembered
<1>8. rows.kept \subseteq DOMAIN s
  BY <1>4, <1>6, <1>7 DEF OneRowMore
<1>9. d.clock \in Nat /\ Grace \in Nat /\ DayTicks \in Nat /\ WindowTicks \in Nat
      /\ Grace <= DayTicks /\ DayTicks > 0
  <2>1. d.clock \in Nat
    BY DEF Database
  <2>2. Grace \in Nat /\ DayTicks \in Nat \ {0} /\ WindowTicks \in Nat \ {0}
        /\ Grace <= DayTicks
    BY LimitsAssumption
  <2> QED
    BY <2>1, <2>2
<1>10. ASSUME NEW n \in DOMAIN s
       PROVE  /\ s[n] <= d.clock
              /\ s[n] > d.clock - Grace - WindowTicks /\ ~ Deleted(d, u) =>
                   n \in rows.kept
  <2>1. CASE n = Len(s)
    <3>1. s[n] = at
      BY <1>4, <2>1 DEF OneRowMore
    <3> QED
      BY <1>6, <1>9, <2>1, <3>1
  <2>2. CASE n # Len(s)
    <3>1. n \in DOMAIN t /\ s[n] = t[n] /\ t[n] \in Int
      BY <1>4, <2>2 DEF OneRowMore
    <3>2. s[n] > d.clock - Grace - WindowTicks => s[n] > at - WindowTicks - DayTicks
      BY <1>9, <3>1
    <3> QED
      BY <1>6, <1>7, <3>1, <3>2
  <2> QED
    BY <2>1, <2>2
<1>11. Deleted(e, u) <=> Deleted(d, u)
  BY DEF Deleted
<1> QED
  BY <1>5, <1>6, <1>8, <1>10, <1>11 DEF Remembered

\* Something is created within the budget of its account.
LEMMA CreationKeeps ==
  ASSUME NEW b, NEW d, NEW U, NEW W, Sound(b, d, U, W),
         NEW what \in Budgets \cup {"account"}, NEW u \in AccountOrNobody,
         NEW at \in Int, d.clock - Grace <= at, at <= d.clock,
         what = "account" => u = Nobody,
         what \in Budgets => u \in Account /\ ~ Deleted(d, u) /\ WithinBudget(d, what, u, at),
         NEW e, CreationAdded(d, what, u, at, e)
  PROVE  Sound(b, e, U, W) /\ Later(d, e)
<1>1. /\ d \in Database /\ e \in Database /\ KeepsAccounts(d, e)
      /\ KeepsMembers(d, e) /\ KeepsWorkspaces(d, e) /\ KeepsLinks(d, e)
      /\ KeepsSessions(d, e)
      /\ e.ledger = [d.ledger EXCEPT ![what] =
                       [@ EXCEPT ![u] = MoreCreated(d, what, u, at)]]
  BY DEF Sound, CreationAdded
<1>2. /\ OwnedBut(e, W) /\ AccountedBut(e, W) /\ InactiveBut(e, U)
      /\ Limited(e) /\ SessionsFew(e)
  BY <1>1, PartsKept DEF KeepsAccounts, KeepsMembers, KeepsLinks
<1>3. Remembers(d) /\ Budgeted(b, d)
  BY DEF Sound
<1>4. e.clock = d.clock /\ e.status = d.status
  BY <1>1 DEF KeepsSessions, KeepsAccounts
<1>5. ASSUME NEW x \in Budgets \cup {"account"}, NEW v \in AccountOrNobody
      PROVE  e.ledger[x][v] = IF x = what /\ v = u THEN MoreCreated(d, what, u, at)
                              ELSE d.ledger[x][v]
  BY <1>1, <1>5 DEF Database, Ledger, Budgets
<1>6. ASSUME NEW x \in Budgets \cup {"account"}, NEW v \in AccountOrNobody,
             Remembered(d, x, v)
      PROVE  Remembered(e, x, v)
  <2>1. CASE x = what /\ v = u
    <3>1. e.ledger[what][u] = MoreCreated(d, what, u, at) /\ Remembered(d, what, u)
      BY <1>5, <1>6, <2>1
    <3>2. Remembered(e, what, u)
      BY <1>1, <1>4, <3>1, RememberedAfter
    <3> QED
      BY <2>1, <3>2
  <2>2. CASE ~ (x = what /\ v = u)
    <3>1. e.ledger[x][v] = d.ledger[x][v]
      BY <1>5, <2>2
    <3> QED
      BY <1>4, <1>6, <3>1 DEF Remembered, Deleted
  <2> QED
    BY <2>1, <2>2
<1>7. Remembers(e)
  BY <1>3, <1>6 DEF Remembers, AccountOrNobody
<1>8. ASSUME NEW x \in Budgets, NEW v \in Account, WithinBudgetSince(b, d, x, v)
      PROVE  WithinBudgetSince(b, e, x, v)
  <2>1. CASE x = what /\ v = u
    <3>1. e.ledger[what][u].at = Append(d.ledger[what][u].at, at)
      <4>1. e.ledger[what][u] = MoreCreated(d, what, u, at)
        BY <1>5
      <4>2. MoreCreated(d, what, u, at).at = Append(d.ledger[what][u].at, at)
        BY DEF MoreCreated
      <4> QED
        BY <4>1, <4>2
    <3>2. /\ what \in Budgets /\ u \in Account /\ ~ Deleted(d, u)
          /\ WithinBudget(d, what, u, at) /\ Remembered(d, what, u)
          /\ WithinBudgetSince(b, d, what, u)
      BY <1>3, <1>8, <2>1 DEF Remembers
    <3>3. WithinBudgetSince(b, e, what, u)
      BY <1>1, <3>1, <3>2, BudgetAfter
    <3> QED
      BY <2>1, <3>3
  <2>2. CASE ~ (x = what /\ v = u)
    <3>1. e.ledger[x][v] = d.ledger[x][v]
      BY <1>5, <2>2 DEF AccountOrNobody
    <3> QED
      BY <1>8, <3>1 DEF WithinBudgetSince
  <2> QED
    BY <2>1, <2>2
<1>9. Budgeted(b, e)
  BY <1>3, <1>8 DEF Budgeted
<1>10. Later(d, e)
  BY <1>1, LaterKept DEF KeepsLinks
<1> QED
  BY <1>1, <1>2, <1>7, <1>9, <1>10 DEF Sound

-----------------------------------------------------------------------------
(* Statements about what belongs to accounts alone. *)

\* What belongs to accounts, when what decides about them stays.
LEMMA AccountPartsKept ==
  ASSUME NEW b, NEW d, NEW e \in Database, NEW U, NEW W, Sound(b, d, U, W),
         e.status = d.status, e.identity = d.identity, e.role = d.role,
         e.link = d.link, KeepsSessions(d, e), e.ledger = d.ledger
  PROVE  InactiveBut(e, U) /\ SessionsFew(e) /\ Remembers(e) /\ Budgeted(b, e)
<1>1. \A x \in Session, u \in Account : SessionLive(e, x, u) => SessionLive(d, x, u)
  BY DEF SessionLive, Ended, KeepsSessions
<1>2. InactiveBut(e, U)
  BY <1>1, InactiveKept DEF Sound, Usable, MemberOf, IdentitiesOf
<1>3. SessionsFew(e)
  BY <1>1, SessionsKept DEF Sound
<1>4. Remembers(e) /\ Budgeted(b, e)
  BY LedgerKept DEF KeepsSessions
<1> QED
  BY <1>2, <1>3, <1>4

\* The ledger changes; nothing else does.
LEMMA LedgerIs ==
  ASSUME NEW d \in Database, NEW L \in Ledger, NEW e, e = [d EXCEPT !.ledger = L]
  PROVE  /\ e \in Database /\ e.ledger = L
         /\ KeepsAccounts(d, e) /\ KeepsMembers(d, e) /\ KeepsWorkspaces(d, e)
         /\ KeepsLinks(d, e) /\ KeepsSessions(d, e)
  BY DEF Database, KeepsAccounts, KeepsMembers, KeepsWorkspaces, KeepsLinks,
         KeepsSessions

\* The ledger forgets a deleted account.
LEMMA ForgottenKeeps ==
  ASSUME NEW b, NEW d, NEW U, NEW W, Sound(b, d, U, W),
         NEW u \in Account, Deleted(d, u), NEW e, e = Forgotten(d, u)
  PROVE  /\ Sound(b, e, U, W) /\ Later(d, e)
         /\ KeepsAccounts(d, e) /\ KeepsMembers(d, e) /\ KeepsWorkspaces(d, e)
         /\ KeepsLinks(d, e) /\ KeepsSessions(d, e)
<1> DEFINE L == [what \in DOMAIN d.ledger |-> [d.ledger[what] EXCEPT ![u].kept = {}]]
<1>1. d \in Database /\ d.ledger \in Ledger /\ Remembers(d) /\ Budgeted(b, d)
  BY DEF Sound, Database
<1>2. e = [d EXCEPT !.ledger = L]
  BY <1>1 DEF Forgotten, Database
<1>3. \A what \in DOMAIN d.ledger, v \in AccountOrNobody :
        L[what][v] = IF v = u THEN [d.ledger[what][v] EXCEPT !.kept = {}]
                     ELSE d.ledger[what][v]
  BY <1>1 DEF Ledger, AccountOrNobody
<1>4. L \in Ledger
  <2>1. ASSUME NEW what \in DOMAIN d.ledger
        PROVE  L[what] \in [AccountOrNobody -> Creations]
    <3>1. d.ledger[what] \in [AccountOrNobody -> Creations]
      BY <1>1 DEF Ledger
    <3>2. [d.ledger[what][u] EXCEPT !.kept = {}] \in Creations
      BY <3>1 DEF Creations, AccountOrNobody
    <3>3. L[what] = [d.ledger[what] EXCEPT ![u] = [d.ledger[what][u] EXCEPT !.kept = {}]]
      BY <3>1
    <3> QED
      BY <3>1, <3>2, <3>3
  <2> QED
    BY <1>1, <2>1 DEF Ledger
<1> HIDE DEF L
<1>5. /\ e \in Database /\ e.ledger = L
      /\ KeepsAccounts(d, e) /\ KeepsMembers(d, e) /\ KeepsWorkspaces(d, e)
      /\ KeepsLinks(d, e) /\ KeepsSessions(d, e)
  BY <1>1, <1>2, <1>4, LedgerIs
<1>6. /\ OwnedBut(e, W) /\ AccountedBut(e, W) /\ InactiveBut(e, U)
      /\ Limited(e) /\ SessionsFew(e)
  BY <1>5, PartsKept DEF KeepsAccounts, KeepsMembers, KeepsLinks
<1>7. e.clock = d.clock /\ e.status = d.status
  BY <1>5 DEF KeepsSessions, KeepsAccounts
<1>8. ASSUME NEW what \in Budgets \cup {"account"}, NEW v \in AccountOrNobody
      PROVE  /\ Remembered(d, what, v) => Remembered(e, what, v)
             /\ WithinBudgetSince(b, d, what, v) => WithinBudgetSince(b, e, what, v)
  <2>1. what \in DOMAIN d.ledger /\ d.ledger[what][v] \in Creations
    BY <1>1 DEF Ledger, Budgets
  <2>2. e.ledger[what][v] = IF v = u THEN [d.ledger[what][v] EXCEPT !.kept = {}]
                            ELSE d.ledger[what][v]
    BY <1>3, <1>5, <2>1
  <2>3. /\ e.ledger[what][v].at = d.ledger[what][v].at
        /\ v # u => e.ledger[what][v].kept = d.ledger[what][v].kept
        /\ v = u => e.ledger[what][v].kept = {}
    BY <2>1, <2>2 DEF Creations
  <2>4. Deleted(e, u) /\ (Deleted(e, v) <=> Deleted(d, v))
    BY <1>7 DEF Deleted
  <2>5. Remembered(d, what, v) => Remembered(e, what, v)
    BY <1>7, <2>3, <2>4 DEF Remembered
  <2>6. WithinBudgetSince(b, d, what, v) => WithinBudgetSince(b, e, what, v)
    BY <2>3 DEF WithinBudgetSince
  <2> QED
    BY <2>5, <2>6
<1>9. Remembers(e)
  BY <1>1, <1>8 DEF Remembers, AccountOrNobody
<1>10. Budgeted(b, e)
  BY <1>1, <1>8 DEF Budgeted, AccountOrNobody
<1>11. Later(d, e)
  BY <1>1, <1>5, LaterKept DEF KeepsLinks
<1> QED
  BY <1>5, <1>6, <1>9, <1>10, <1>11 DEF Sound

AccountOpened(d, i, u, e) ==
  /\ e \in Database
  /\ e.admin = d.admin
  /\ KeepsMembers(d, e) /\ KeepsWorkspaces(d, e) /\ KeepsLinks(d, e)
  /\ KeepsSessions(d, e) /\ KeepsUsage(d, e) /\ KeepsSignIns(d, e)
  /\ e.status = [d.status EXCEPT ![u] = "active"]
  /\ e.identity = [d.identity EXCEPT ![i] = u]
  /\ e.accountRevision = [d.accountRevision EXCEPT ![u] = @ + 1]

\* An account is opened with its first identity.
LEMMA AccountOpenedIs ==
  ASSUME NEW d \in Database, NEW i, NEW u \in Account,
         NEW e, e = [WithIdentity(d, i, u) EXCEPT !.status[u] = "active"]
  PROVE  AccountOpened(d, i, u, e)
<1>1. PICK f : f = WithIdentity(d, i, u)
  OBVIOUS
<1>2. IdentitySet(d, i, u, u, f)
  BY <1>1, IdentityIs DEF WithIdentity, IdentityNow, AccountOrNobody
<1>3. f \in Database /\ f.status = d.status
  BY <1>2 DEF IdentitySet
<1> DEFINE S == [d.status EXCEPT ![u] = "active"]
<1>4. e = [f EXCEPT !.status = S]
  BY <1>1, <1>3 DEF Database
<1>5. S \in [Account -> Status]
  BY DEF Database, Status
<1> HIDE DEF S
<1>6. /\ e \in Database /\ e.status = S
      /\ KeepsMembers(f, e) /\ KeepsWorkspaces(f, e) /\ KeepsLinks(f, e)
      /\ KeepsSessions(f, e) /\ KeepsUsage(f, e) /\ KeepsSignIns(f, e)
      /\ e.admin = f.admin /\ e.identity = f.identity
      /\ e.accountRevision = f.accountRevision
  BY <1>3, <1>4, <1>5
     DEF Database, KeepsMembers, KeepsWorkspaces, KeepsLinks, KeepsSessions, KeepsUsage,
         KeepsSignIns
<1> QED
  BY <1>2, <1>6
     DEF S, IdentitySet, AccountOpened, KeepsMembers, KeepsWorkspaces, KeepsLinks,
         KeepsSessions, KeepsUsage, KeepsSignIns

\* An account that was never opened, and so is a member of nothing, is opened.
LEMMA OpenedKeeps ==
  ASSUME NEW b, NEW d, NEW W, Sound(b, d, {}, W), NEW i, NEW u \in Account,
         d.status[u] = "absent", d.identity[i] = Nobody,
         NEW e, AccountOpened(d, i, u, e)
  PROVE  Sound(b, e, {}, W) /\ Later(d, e)
<1>1. /\ d \in Database /\ e \in Database /\ e.admin = d.admin
      /\ KeepsMembers(d, e) /\ KeepsWorkspaces(d, e) /\ KeepsLinks(d, e)
      /\ KeepsSessions(d, e) /\ KeepsUsage(d, e)
      /\ e.status = [d.status EXCEPT ![u] = "active"]
      /\ e.identity = [d.identity EXCEPT ![i] = u]
      /\ e.accountRevision = [d.accountRevision EXCEPT ![u] = @ + 1]
  BY DEF Sound, AccountOpened
<1>2. /\ e.status[u] = "active"
      /\ \A v \in Account : v # u => e.status[v] = d.status[v]
      /\ \A v \in Account : Active(d, v) => Active(e, v)
      /\ \A v \in Account : v # u => (Active(e, v) <=> Active(d, v))
  BY <1>1 DEF Database, Active
<1>3. \A w \in Workspace : d.role[w][u] = "none"
  <2>1. HoldsNothing(d, u)
    BY DEF Sound, InactiveBut, Active
  <2> QED
    BY <2>1 DEF HoldsNothing, MemberOf
<1>4. OwnedBut(e, W)
  <2>1. \A w \in Workspace : Live(e, w) <=> Live(d, w)
    BY <1>1 DEF Live, KeepsWorkspaces
  <2>2. \A w \in Workspace, v \in Account : Owns(d, w, v) => Owns(e, w, v)
    BY <1>1, <1>2 DEF Owns, KeepsMembers
  <2> QED
    BY <2>1, <2>2, OwnedKept DEF Sound
<1>5. AccountedBut(e, W)
  BY <1>1, AccountedKept DEF Sound, Members, LinksOf, KeepsMembers, KeepsLinks
<1>6. \A x \in Session, v \in Account : SessionLive(e, x, v) => SessionLive(d, x, v)
  BY <1>1 DEF SessionLive, Ended, KeepsSessions
<1>7. ASSUME NEW v \in Account, v # u PROVE IdentitiesOf(e, v) \subseteq IdentitiesOf(d, v)
  <2>1. \A j \in Identity : e.identity[j] = v => d.identity[j] = v
    BY <1>1, <1>7 DEF Database
  <2> QED
    BY <2>1 DEF IdentitiesOf
<1>8. InactiveBut(e, {})
  BY <1>1, <1>2, <1>6, <1>7, InactiveKept, ZenonT(60)
     DEF Sound, Usable, MemberOf, KeepsMembers, KeepsLinks
<1>9. Limited(e) /\ SessionsFew(e)
  BY <1>1, <1>6, LimitedKept, SessionsKept DEF Sound
<1>10. Remembers(e) /\ Budgeted(b, e)
  <2>1. e.ledger = d.ledger /\ e.clock = d.clock
    BY <1>1 DEF KeepsUsage, KeepsSessions
  <2>2. \A v \in Account : d.status[v] = "deleted" => e.status[v] = "deleted"
    BY <1>2
  <2> QED
    BY <1>1, <2>1, <2>2, LedgerKept
<1>11. ASSUME NEW w \in Workspace PROVE LaterAccess(d, e, w)
  <2>1. e.role[w] = d.role[w] /\ e.link = d.link /\ e.access[w] = d.access[w]
        /\ d.access[w] \in Nat
    BY <1>1 DEF KeepsMembers, KeepsLinks, Database
  <2>2. AccessOf(e, w) = AccessOf(d, w)
    BY <1>2, <1>3, <2>1, SameAccess
  <2> QED
    BY <2>1, <2>2 DEF LaterAccess
<1>12. ASSUME NEW v \in Account PROVE LaterAccount(d, e, v)
  <2>1. CASE v = u
    BY <1>1, <2>1 DEF LaterAccount, Database
  <2>2. CASE v # u
    <3>1. e.accountRevision[v] = d.accountRevision[v] /\ d.accountRevision[v] \in Nat
      BY <1>1, <2>2 DEF Database
    <3>2. \A j \in Identity : e.identity[j] = v <=> d.identity[j] = v
      <4>1. d.identity \in [Identity -> AccountOrNobody] /\ v # Nobody
        BY <1>1, StoreAssumption DEF Database
      <4>2. e.identity = [d.identity EXCEPT ![i] = u]
        BY <1>1
      <4>3. ASSUME NEW j \in Identity PROVE e.identity[j] = v <=> d.identity[j] = v
        <5>1. CASE j = i
          BY <2>2, <4>1, <4>2, <5>1
        <5>2. CASE j # i
          BY <4>1, <4>2, <5>2
        <5> QED
          BY <5>1, <5>2
      <4> QED
        BY <4>3
    <3>3. e.status[v] = d.status[v] /\ e.admin[v] = d.admin[v]
      BY <1>1, <1>2, <2>2
    <3>4. AccountOf(e, v) = AccountOf(d, v)
      BY <3>2, <3>3, SameAccount
    <3> QED
      BY <3>1, <3>4 DEF LaterAccount
  <2> QED
    BY <2>1, <2>2
<1>13. Later(d, e)
  BY <1>1, <1>11, <1>12, MembersKept DEF Later
<1> QED
  BY <1>1, <1>4, <1>5, <1>8, <1>9, <1>10, <1>13 DEF Sound

-----------------------------------------------------------------------------
(* Statements about one workspace. *)

WorkspaceSet(d, w, p, n, v, e) ==
  /\ e \in Database
  /\ KeepsAccounts(d, e) /\ KeepsMembers(d, e) /\ KeepsLinks(d, e)
  /\ KeepsSessions(d, e) /\ KeepsUsage(d, e) /\ KeepsSignIns(d, e)
  /\ e.phase = [d.phase EXCEPT ![w] = p]
  /\ e.bytes = [d.bytes EXCEPT ![w] = n]
  /\ e.custodian = [d.custodian EXCEPT ![w] = v]

\* A workspace is stored.
LEMMA WorkspaceSetIs ==
  ASSUME NEW d \in Database, NEW w \in Workspace, NEW p \in Phase, NEW n \in Nat,
         NEW v \in AccountOrNobody,
         NEW e, e = [d EXCEPT !.phase[w] = p, !.bytes[w] = n, !.custodian[w] = v]
  PROVE  WorkspaceSet(d, w, p, n, v, e)
<1> DEFINE P == [d.phase EXCEPT ![w] = p]
           N == [d.bytes EXCEPT ![w] = n]
           C == [d.custodian EXCEPT ![w] = v]
<1>1. e = [d EXCEPT !.phase = P, !.bytes = N, !.custodian = C]
  BY DEF Database
<1>2. P \in [Workspace -> Phase] /\ N \in [Workspace -> Nat]
      /\ C \in [Workspace -> AccountOrNobody]
  BY DEF Database
<1> HIDE DEF P, N, C
<1>3. e \in Database /\ e.phase = P /\ e.bytes = N /\ e.custodian = C
  BY <1>1, <1>2 DEF Database
<1>4. /\ KeepsAccounts(d, e) /\ KeepsMembers(d, e) /\ KeepsLinks(d, e)
      /\ KeepsSessions(d, e) /\ KeepsUsage(d, e) /\ KeepsSignIns(d, e)
  BY <1>1 DEF Database, KeepsAccounts, KeepsMembers, KeepsLinks, KeepsSessions,
              KeepsUsage, KeepsSignIns
<1> QED
  BY <1>3, <1>4 DEF WorkspaceSet, P, N, C

Charged(d, w, n, v, e) ==
  /\ e.bytes = [d.bytes EXCEPT ![w] = n]
  /\ e.custodian = [d.custodian EXCEPT ![w] = v]

\* One workspace gets other bytes and another custodian, who has room.
LEMMA LimitedAfter ==
  ASSUME NEW d \in Database, NEW e \in Database, Limited(d), NEW w \in Workspace,
         NEW n \in Nat, NEW v \in AccountOrNobody, Charged(d, w, n, v, e),
         v \in Account =>
           /\ Cardinality(CustodyOf(d, v) \cup {w}) <= OwnerLimit
           /\ BytesOf(d, CustodyOf(d, v) \ {w}) + n <= ByteLimit
  PROVE  Limited(e)
<1>1. ASSUME NEW u \in Account PROVE WithinLimits(e, u)
  <2>1. PICK C \in SUBSET Workspace : C = CustodyOf(d, u) \ {w}
    BY DEF CustodyOf
  <2>2. /\ d.bytes \in [Workspace -> Nat] /\ e.bytes \in [Workspace -> Nat]
        /\ e.bytes[w] = n /\ CustodyOf(d, u) \in SUBSET Workspace
        /\ \A x \in C : e.bytes[x] = d.bytes[x]
    BY <2>1 DEF Database, CustodyOf, Charged
  <2>3. CustodyOf(e, u) = IF u = v THEN C \cup {w} ELSE C
    <3>1. d.custodian \in [Workspace -> AccountOrNobody]
      BY DEF Database
    <3> QED
      BY <2>1, <3>1 DEF CustodyOf, Charged
  <2>4. BytesOf(e, C) = BytesOf(d, C)
    BY <2>2, BytesSame
  <2>5. CASE u = v
    <3>1. C \cup {w} = CustodyOf(d, v) \cup {w} /\ C \cap {w} = {} /\ {w} \in SUBSET Workspace
      BY <2>1, <2>5
    <3>2. BytesOf(e, C \cup {w}) = BytesOf(e, C) + BytesOf(e, {w})
      BY <2>2, <3>1, BytesAdd
    <3>3. BytesOf(e, {w}) = n
      BY <2>2, BytesOfOne
    <3>4. BytesOf(d, C) + n <= ByteLimit /\ Cardinality(C \cup {w}) <= OwnerLimit
      BY <2>1, <2>5, <3>1
    <3> QED
      BY <2>3, <2>4, <2>5, <3>2, <3>3, <3>4 DEF WithinLimits, Stored
  <2>6. CASE u # v
    <3>1. Cardinality(CustodyOf(d, u)) <= OwnerLimit
          /\ BytesOf(d, CustodyOf(d, u)) <= ByteLimit
      BY DEF Limited, WithinLimits, Stored
    <3>2. C \in SUBSET CustodyOf(d, u)
      BY <2>1
    <3>3. /\ Cardinality(C) <= Cardinality(CustodyOf(d, u))
          /\ Cardinality(C) \in Nat /\ Cardinality(CustodyOf(d, u)) \in Nat
      BY <2>2, <3>2, Counted, FS_Subset
    <3>4. BytesOf(d, C) <= BytesOf(d, CustodyOf(d, u))
          /\ BytesOf(d, C) \in Nat /\ BytesOf(d, CustodyOf(d, u)) \in Nat
      BY <2>2, <3>2, BytesFewer, BytesFinite
    <3>5. OwnerLimit \in Nat /\ ByteLimit \in Nat
      BY StoreAssumption, LimitsAssumption
    <3> QED
      BY <2>3, <2>4, <2>6, <3>1, <3>3, <3>4, <3>5 DEF WithinLimits, Stored
  <2> QED
    BY <2>5, <2>6
<1> QED
  BY <1>1 DEF Limited

\* A workspace is stored: it is left out until it has its members.
LEMMA WorkspaceSetKeeps ==
  ASSUME NEW b, NEW d, NEW U, NEW W, Sound(b, d, U, W), NEW w \in Workspace,
         NEW p, NEW n, NEW v, NEW e, WorkspaceSet(d, w, p, n, v, e), Limited(e)
  PROVE  Sound(b, e, U, W \cup {w}) /\ Later(d, e)
<1>1. /\ d \in Database /\ e \in Database
      /\ KeepsAccounts(d, e) /\ KeepsMembers(d, e) /\ KeepsLinks(d, e)
      /\ KeepsSessions(d, e) /\ KeepsUsage(d, e)
      /\ e.phase = [d.phase EXCEPT ![w] = p]
      /\ e.custodian = [d.custodian EXCEPT ![w] = v]
  BY DEF Sound, WorkspaceSet
<1>2. InactiveBut(e, U) /\ SessionsFew(e) /\ Remembers(e) /\ Budgeted(b, e)
  BY <1>1, AccountPartsKept DEF KeepsAccounts, KeepsMembers, KeepsLinks, KeepsUsage
<1>3. ASSUME NEW x \in Workspace \ (W \cup {w})
      PROVE  AccountedFor(e, x) /\ (Live(e, x) => ActiveOwners(e, x) # {})
  <2>1. AccountedFor(d, x) /\ (Live(d, x) => ActiveOwners(d, x) # {})
    BY <1>3 DEF Sound, OwnedBut, AccountedBut
  <2>2. /\ e.phase[x] = d.phase[x] /\ e.custodian[x] = d.custodian[x]
        /\ e.role = d.role /\ e.link = d.link /\ e.status = d.status
    BY <1>1, <1>3 DEF Database, KeepsMembers, KeepsLinks, KeepsAccounts
  <2>3. /\ Live(e, x) <=> Live(d, x)
        /\ Members(e, x) = Members(d, x) /\ LinksOf(e, x) = LinksOf(d, x)
        /\ ActiveOwners(e, x) = ActiveOwners(d, x)
    BY <2>2 DEF Live, Members, LinksOf, ActiveOwners, Owns, Active
  <2> QED
    BY <2>1, <2>2, <2>3 DEF AccountedFor
<1>4. OwnedBut(e, W \cup {w}) /\ AccountedBut(e, W \cup {w})
  BY <1>3 DEF OwnedBut, AccountedBut
<1>5. Later(d, e)
  BY <1>1, LaterKept DEF KeepsLinks
<1> QED
  BY <1>1, <1>2, <1>4, <1>5 DEF Sound

\* Custody is handed on to accounts that have room.
LEMMA CustodyKeeps ==
  ASSUME NEW b, NEW d, NEW U, NEW W, Sound(b, d, U, W),
         NEW C \in [Workspace -> AccountOrNobody],
         \A w \in Workspace : C[w] = Nobody <=> d.custodian[w] = Nobody,
         NEW e, e = [d EXCEPT !.custodian = C], Limited(e)
  PROVE  /\ Sound(b, e, U, W) /\ Later(d, e)
         /\ e.custodian = C /\ e.phase = d.phase /\ e.bytes = d.bytes
         /\ KeepsAccounts(d, e) /\ KeepsMembers(d, e) /\ KeepsLinks(d, e)
         /\ KeepsSessions(d, e) /\ KeepsUsage(d, e)
<1>1. d \in Database
  BY DEF Sound
<1>2. /\ e \in Database /\ e.custodian = C /\ e.phase = d.phase /\ e.bytes = d.bytes
      /\ KeepsAccounts(d, e) /\ KeepsMembers(d, e) /\ KeepsLinks(d, e)
      /\ KeepsSessions(d, e) /\ KeepsUsage(d, e)
  BY <1>1 DEF Database, KeepsAccounts, KeepsMembers, KeepsLinks, KeepsSessions, KeepsUsage
<1>3. InactiveBut(e, U) /\ SessionsFew(e) /\ Remembers(e) /\ Budgeted(b, e)
  BY <1>2, AccountPartsKept DEF KeepsAccounts, KeepsMembers, KeepsLinks, KeepsUsage
<1>4. ASSUME NEW x \in Workspace \ W
      PROVE  AccountedFor(e, x) /\ (Live(e, x) => ActiveOwners(e, x) # {})
  <2>1. AccountedFor(d, x) /\ (Live(d, x) => ActiveOwners(d, x) # {})
    BY DEF Sound, OwnedBut, AccountedBut
  <2>2. e.role = d.role /\ e.link = d.link /\ e.status = d.status
    BY <1>2 DEF KeepsMembers, KeepsLinks, KeepsAccounts
  <2>3. /\ Live(e, x) <=> Live(d, x)
        /\ Members(e, x) = Members(d, x) /\ LinksOf(e, x) = LinksOf(d, x)
        /\ ActiveOwners(e, x) = ActiveOwners(d, x)
    BY <1>2, <2>2 DEF Live, Members, LinksOf, ActiveOwners, Owns, Active
  <2>4. e.custodian[x] # Nobody <=> d.custodian[x] # Nobody
    BY <1>2
  <2> QED
    BY <2>1, <2>3, <2>4 DEF AccountedFor
<1>5. OwnedBut(e, W) /\ AccountedBut(e, W)
  BY <1>4 DEF OwnedBut, AccountedBut
<1>6. Later(d, e)
  BY <1>1, <1>2, LaterKept DEF KeepsLinks
<1> QED
  BY <1>2, <1>3, <1>5, <1>6 DEF Sound

WorkspaceGone(d, w, e) ==
  /\ e \in Database
  /\ KeepsAccounts(d, e) /\ e.link = d.link
  /\ KeepsSessions(d, e) /\ KeepsUsage(d, e) /\ KeepsSignIns(d, e)
  /\ e.phase = [d.phase EXCEPT ![w] = "deleted"]
  /\ e.bytes = [d.bytes EXCEPT ![w] = 0]
  /\ e.custodian = [d.custodian EXCEPT ![w] = Nobody]
  /\ e.role = [d.role EXCEPT ![w] = [u \in Account |-> "none"]]
  /\ e.membershipRevision =
       [u \in Account |-> d.membershipRevision[u] + IF u \in Members(d, w) THEN 1 ELSE 0]
  /\ e.access = [d.access EXCEPT ![w] = @ + Cardinality(Members(d, w)) + 1]

\* A workspace goes, with its members.
LEMMA WorkspaceGoneIs ==
  ASSUME NEW d \in Database, NEW w \in Workspace, NEW e,
         e = [d EXCEPT
                !.phase[w] = "deleted", !.custodian[w] = Nobody, !.bytes[w] = 0,
                !.role[w] = [u \in Account |-> "none"],
                !.membershipRevision =
                  [u \in Account |-> @[u] + IF u \in Members(d, w) THEN 1 ELSE 0],
                !.access[w] = @ + Cardinality(Members(d, w)) + 1]
  PROVE  WorkspaceGone(d, w, e)
<1> DEFINE R == [d.role EXCEPT ![w] = [u \in Account |-> "none"]]
           M == [u \in Account |->
                   d.membershipRevision[u] + IF u \in Members(d, w) THEN 1 ELSE 0]
           A == [d.access EXCEPT ![w] = @ + Cardinality(Members(d, w)) + 1]
<1>1. PICK f : f = [d EXCEPT !.phase[w] = "deleted", !.bytes[w] = 0,
                             !.custodian[w] = Nobody]
  OBVIOUS
<1>2. WorkspaceSet(d, w, "deleted", 0, Nobody, f)
  BY <1>1, WorkspaceSetIs DEF Phase, AccountOrNobody
<1>3. f \in Database /\ KeepsMembers(d, f) /\ KeepsLinks(d, f)
  BY <1>2 DEF WorkspaceSet
<1>4. e = [f EXCEPT !.role = R, !.membershipRevision = M, !.access = A]
  BY <1>1 DEF Database
<1>5. R \in [Workspace -> [Account -> MemberRole]]
  BY DEF Database, MemberRole
<1>6. M \in [Account -> Nat]
  BY DEF Database
<1>7. A \in [Workspace -> Nat]
  <2>1. Cardinality(Members(d, w)) \in Nat
    BY Counted DEF Members
  <2> QED
    BY <2>1 DEF Database
<1> HIDE DEF R, M, A
<1>8. /\ e \in Database /\ e.role = R /\ e.membershipRevision = M /\ e.access = A
  BY <1>3, <1>4, <1>5, <1>6, <1>7, ZenonT(60) DEF Database
<1>9. /\ KeepsAccounts(f, e) /\ e.link = f.link /\ KeepsWorkspaces(f, e)
      /\ KeepsSessions(f, e) /\ KeepsUsage(f, e) /\ KeepsSignIns(f, e)
  BY <1>3, <1>4
     DEF Database, KeepsAccounts, KeepsSessions, KeepsUsage, KeepsSignIns, KeepsWorkspaces
<1> QED
  BY <1>2, <1>8, <1>9
     DEF WorkspaceGone, WorkspaceSet, R, M, A, KeepsAccounts, KeepsSessions, KeepsUsage,
         KeepsSignIns, KeepsWorkspaces, KeepsLinks

\* A workspace without links goes, with its members.
LEMMA GoneKeeps ==
  ASSUME NEW b, NEW d, NEW U, Sound(b, d, U, {}), NEW w \in Workspace,
         LinksOf(d, w) = {}, NEW e, WorkspaceGone(d, w, e)
  PROVE  Sound(b, e, U, {}) /\ Later(d, e)
<1>1. /\ d \in Database /\ e \in Database
      /\ KeepsAccounts(d, e) /\ e.link = d.link
      /\ KeepsSessions(d, e) /\ KeepsUsage(d, e)
      /\ e.phase = [d.phase EXCEPT ![w] = "deleted"]
      /\ e.bytes = [d.bytes EXCEPT ![w] = 0]
      /\ e.custodian = [d.custodian EXCEPT ![w] = Nobody]
      /\ e.role = [d.role EXCEPT ![w] = [u \in Account |-> "none"]]
      /\ e.membershipRevision =
           [u \in Account |-> d.membershipRevision[u]
                                + IF u \in Members(d, w) THEN 1 ELSE 0]
      /\ e.access = [d.access EXCEPT ![w] = @ + Cardinality(Members(d, w)) + 1]
  BY DEF Sound, WorkspaceGone
<1>2. Limited(e)
  <2>1. Limited(d)
    BY DEF Sound
  <2>2. Charged(d, w, 0, Nobody, e)
    BY <1>1 DEF Charged
  <2>3. Nobody \in AccountOrNobody /\ Nobody \notin Account
    BY StoreAssumption DEF AccountOrNobody
  <2> QED
    BY <1>1, <2>1, <2>2, <2>3, LimitedAfter
<1>3. \A x \in Workspace \ {w} : /\ e.role[x] = d.role[x] /\ e.phase[x] = d.phase[x]
                                 /\ e.custodian[x] = d.custodian[x]
                                 /\ e.access[x] = d.access[x] /\ d.access[x] \in Nat
  BY <1>1 DEF Database
<1>4. /\ \A u \in Account : e.role[w][u] = "none"
      /\ ~ Live(e, w) /\ e.custodian[w] = Nobody
  BY <1>1 DEF Database, Live
<1>5. \A u \in Account : Active(e, u) <=> Active(d, u)
  BY <1>1 DEF KeepsAccounts, Active
<1>6. ASSUME NEW x \in Workspace
      PROVE  AccountedFor(e, x) /\ (Live(e, x) => ActiveOwners(e, x) # {})
  <2>1. CASE x = w
    <3>1. Members(e, w) = {} /\ LinksOf(e, w) = {}
      BY <1>1, <1>4 DEF Members, LinksOf
    <3>2. Cardinality(Members(e, w)) <= MemberLimit
      BY <3>1, FS_EmptySet, StoreAssumption
    <3> QED
      BY <1>4, <2>1, <3>1, <3>2 DEF AccountedFor
  <2>2. CASE x # w
    <3>1. AccountedFor(d, x) /\ (Live(d, x) => ActiveOwners(d, x) # {})
      BY DEF Sound, OwnedBut, AccountedBut
    <3>2. /\ Live(e, x) <=> Live(d, x)
          /\ Members(e, x) = Members(d, x) /\ LinksOf(e, x) = LinksOf(d, x)
          /\ ActiveOwners(e, x) = ActiveOwners(d, x)
      BY <1>1, <1>3, <1>5, <2>2 DEF Live, Members, LinksOf, ActiveOwners, Owns
    <3> QED
      BY <1>3, <2>2, <3>1, <3>2 DEF AccountedFor
  <2> QED
    BY <2>1, <2>2
<1>7. \A x \in Session, v \in Account : SessionLive(e, x, v) => SessionLive(d, x, v)
  BY <1>1 DEF SessionLive, Ended, KeepsSessions
<1>8. \A v \in Account : MemberOf(e, v) \subseteq MemberOf(d, v)
  BY <1>3, <1>4 DEF MemberOf
<1>9. InactiveBut(e, U)
  BY <1>1, <1>7, <1>8, InactiveKept DEF Sound, KeepsAccounts, Usable, IdentitiesOf
<1>10. SessionsFew(e)
  BY <1>7, SessionsKept DEF Sound
<1>11. Remembers(e) /\ Budgeted(b, e)
  <2>1. e.ledger = d.ledger /\ e.clock = d.clock /\ e.status = d.status
    BY <1>1 DEF KeepsUsage, KeepsSessions, KeepsAccounts
  <2> QED
    BY <1>1, <2>1, LedgerKept
<1>12. ASSUME NEW x \in Workspace PROVE LaterAccess(d, e, x)
  <2>1. CASE x = w
    <3>1. Cardinality(Members(d, w)) \in Nat /\ d.access[w] \in Nat
      BY Counted, <1>1 DEF Members, Database
    <3>2. e.access[w] = d.access[w] + Cardinality(Members(d, w)) + 1
      BY <1>1 DEF Database
    <3> QED
      BY <2>1, <3>1, <3>2 DEF LaterAccess
  <2>2. CASE x # w
    <3>1. e.role[x] = d.role[x] /\ e.access[x] = d.access[x] /\ d.access[x] \in Nat
      BY <1>3, <2>2
    <3>2. AccessOf(e, x) = AccessOf(d, x)
      BY <1>1, <1>5, <3>1, SameAccess, ZenonT(60)
    <3> QED
      BY <3>1, <3>2 DEF LaterAccess
  <2> QED
    BY <2>1, <2>2
<1>13. ASSUME NEW u \in Account PROVE LaterMember(d, e, u)
  <2>1. /\ d.membershipRevision[u] \in Nat
        /\ e.membershipRevision[u] =
             d.membershipRevision[u] + IF u \in Members(d, w) THEN 1 ELSE 0
    BY <1>1 DEF Database
  <2>2. u \notin Members(d, w) => \A x \in Workspace : e.role[x][u] = d.role[x][u]
    BY <1>3, <1>4 DEF Members
  <2> QED
    BY <2>1, <2>2 DEF LaterMember
<1>14. Later(d, e)
  BY <1>1, <1>12, <1>13, AccountsKept DEF Later
<1> QED
  BY <1>1, <1>2, <1>6, <1>9, <1>10, <1>11, <1>14 DEF Sound, OwnedBut, AccountedBut

LinkAdded(d, l, w, u, e) ==
  /\ e \in Database
  /\ KeepsAccounts(d, e) /\ KeepsMembers(d, e) /\ KeepsWorkspaces(d, e)
  /\ KeepsSessions(d, e) /\ KeepsUsage(d, e) /\ KeepsSignIns(d, e)
  /\ \A x \in Link : x # l => e.link[x] = d.link[x]
  /\ e.link[l].of = w /\ e.link[l].by = u /\ e.link[l].state = "unused"
  /\ ~ e.link[l].expired
  /\ e.access = [d.access EXCEPT ![w] = @ + 1]

\* A guest link is created, which counts for its workspace.
LEMMA LinkAddedIs ==
  ASSUME NEW d \in Database, NEW l \in Link, NEW w \in Workspace, NEW u \in Account,
         NEW r \in {"viewer", "editor"},
         NEW e, e = [d EXCEPT !.link[l] = [of |-> w, by |-> u, role |-> r,
                                           expired |-> FALSE, state |-> "unused"],
                              !.access[w] = @ + 1]
  PROVE  LinkAdded(d, l, w, u, e)
<1> DEFINE row == [of |-> w, by |-> u, role |-> r, expired |-> FALSE, state |-> "unused"]
           L == [d.link EXCEPT ![l] = row]
           A == [d.access EXCEPT ![w] = @ + 1]
<1>1. e = [d EXCEPT !.link = L, !.access = A]
  BY DEF Database
<1>2. row \in GuestLink
  BY DEF GuestLink, AccountOrNobody
<1>3. L \in [Link -> GuestLink] /\ A \in [Workspace -> Nat]
  BY <1>2 DEF Database
<1>4. /\ \A x \in Link : x # l => L[x] = d.link[x]
      /\ L[l].of = w /\ L[l].by = u /\ L[l].state = "unused" /\ ~ L[l].expired
  BY DEF Database
<1> HIDE DEF L, A, row
<1>5. e \in Database /\ e.link = L /\ e.access = A
  BY <1>1, <1>3 DEF Database
<1>6. /\ KeepsAccounts(d, e) /\ KeepsMembers(d, e) /\ KeepsWorkspaces(d, e)
      /\ KeepsSessions(d, e) /\ KeepsUsage(d, e) /\ KeepsSignIns(d, e)
  BY <1>1 DEF Database, KeepsAccounts, KeepsMembers, KeepsWorkspaces, KeepsSessions,
              KeepsUsage, KeepsSignIns
<1> QED
  BY <1>4, <1>5, <1>6 DEF LinkAdded, A

\* An active account creates a link of a live workspace.
LEMMA LinkAddedKeeps ==
  ASSUME NEW b, NEW d, NEW U, NEW W, Sound(b, d, U, W), NEW l \in Link,
         NEW w \in Workspace, NEW u \in Account, Live(d, w), Active(d, u),
         d.link[l].state = "absent", NEW e, LinkAdded(d, l, w, u, e)
  PROVE  Sound(b, e, U, W) /\ Later(d, e)
<1>1. /\ d \in Database /\ e \in Database
      /\ KeepsAccounts(d, e) /\ KeepsMembers(d, e) /\ KeepsWorkspaces(d, e)
      /\ KeepsSessions(d, e) /\ KeepsUsage(d, e)
      /\ \A x \in Link : x # l => e.link[x] = d.link[x]
      /\ e.link[l].of = w /\ e.link[l].by = u /\ e.link[l].state = "unused"
      /\ e.access = [d.access EXCEPT ![w] = @ + 1]
  BY DEF Sound, LinkAdded
<1>2. OwnedBut(e, W)
  BY <1>1, OwnedKept
     DEF Sound, Owns, Active, Live, KeepsAccounts, KeepsMembers, KeepsWorkspaces
<1>3. \A x \in Workspace \ {w} :
        LinksOf(e, x) = LinksOf(d, x)
        /\ \A y \in LinksOf(d, x) : e.link[y].state = d.link[y].state
  BY <1>1 DEF LinksOf
<1>4. ASSUME NEW x \in Workspace \ W PROVE AccountedFor(e, x)
  <2>1. AccountedFor(d, x)
    BY DEF Sound, AccountedBut
  <2>2. /\ Live(e, x) <=> Live(d, x)
        /\ Members(e, x) = Members(d, x) /\ e.custodian = d.custodian
    BY <1>1 DEF Live, Members, KeepsMembers, KeepsWorkspaces
  <2>3. ~ Live(e, x) => LinksOf(e, x) = LinksOf(d, x)
    BY <1>3, <2>2
  <2> QED
    BY <2>1, <2>2, <2>3 DEF AccountedFor
<1>5. \A x \in Session, v \in Account : SessionLive(e, x, v) => SessionLive(d, x, v)
  BY <1>1 DEF SessionLive, Ended, KeepsSessions
<1>6. ASSUME NEW v \in Account, e.status[v] # "active", NEW x \in Link,
             e.link[x].by = v, Usable(e, x)
      PROVE  d.link[x].by = v /\ Usable(d, x)
  <2>1. x # l
    BY <1>1, <1>6 DEF Active, KeepsAccounts
  <2> QED
    BY <1>1, <1>6, <2>1 DEF Usable
<1>7. InactiveBut(e, U)
  BY <1>1, <1>5, <1>6, InactiveKept
     DEF Sound, MemberOf, IdentitiesOf, KeepsMembers, KeepsAccounts
<1>8. Limited(e) /\ SessionsFew(e)
  BY <1>1, <1>5, LimitedKept, SessionsKept DEF Sound
<1>9. Remembers(e) /\ Budgeted(b, e)
  <2>1. e.ledger = d.ledger /\ e.clock = d.clock /\ e.status = d.status
    BY <1>1 DEF KeepsUsage, KeepsSessions, KeepsAccounts
  <2> QED
    BY <1>1, <2>1, LedgerKept
<1>10. ASSUME NEW x \in Workspace PROVE LaterAccess(d, e, x)
  <2>1. CASE x = w
    BY <1>1, <2>1 DEF LaterAccess, Database
  <2>2. CASE x # w
    <3>1. e.access[x] = d.access[x] /\ d.access[x] \in Nat /\ e.role[x] = d.role[x]
      BY <1>1, <2>2 DEF Database, KeepsMembers
    <3>2. Members(e, x) = Members(d, x)
          /\ {u2 \in Members(e, x) : Active(e, u2)} = {u2 \in Members(d, x) : Active(d, u2)}
      BY <1>1, <3>1 DEF Members, Active, KeepsAccounts
    <3>3. [y \in LinksOf(e, x) |-> e.link[y].state] = [y \in LinksOf(d, x) |-> d.link[y].state]
      BY <1>3, <2>2
    <3>4. AccessOf(e, x) = AccessOf(d, x)
      BY <3>1, <3>2, <3>3 DEF AccessOf
    <3> QED
      BY <3>1, <3>4 DEF LaterAccess
  <2> QED
    BY <2>1, <2>2
<1>11. Later(d, e)
  BY <1>1, <1>10, AccountsKept, MembersKept DEF Later
<1> QED
  BY <1>1, <1>2, <1>4, <1>7, <1>8, <1>9, <1>11 DEF Sound, AccountedBut

-----------------------------------------------------------------------------
(* A session is issued. *)

\* The others of an account end but for the latest, and rows are deleted.
LEMMA IssuedKeeps ==
  ASSUME NEW b, NEW d, NEW U, NEW W, Sound(b, d, U, W), NEW x \in Session,
         NEW u \in Account, Active(d, u), d.session[x].of = Nobody,
         NEW t \in SignIn, NEW at \in Int, at <= d.clock, NEW f,
         f = [d EXCEPT !.session[x] = [of |-> u, live |-> TRUE, via |-> t, at |-> at,
                                       end |-> at + SessionTicks]],
         NEW e, e = Trimmed(OlderReplaced(f, x, u, at), u, at)
  PROVE  Sound(b, e, U, W) /\ Later(d, e) /\ e.clock = d.clock
<1> DEFINE row == [of |-> u, live |-> TRUE, via |-> t, at |-> at, end |-> at + SessionTicks]
           F == [d.session EXCEPT ![x] = row]
<1>1. d \in Database /\ d.session \in [Session -> SessionRow] /\ d.clock \in Nat
  BY DEF Sound, Database
<1>2. row \in SessionRow
  BY LimitsAssumption DEF SessionRow, AccountOrNobody
<1>3. F \in [Session -> SessionRow] /\ f = [d EXCEPT !.session = F]
  BY <1>1, <1>2
<1>4. F[x] = row /\ \A y \in Session \ {x} : F[y] = d.session[y]
  BY <1>1
<1> HIDE DEF F
<1>5. /\ f \in Database /\ f.session = F /\ f.clock = d.clock
      /\ KeepsAccounts(d, f) /\ KeepsMembers(d, f) /\ KeepsWorkspaces(d, f)
      /\ KeepsLinks(d, f) /\ KeepsUsage(d, f)
  BY ONLY <1>1, <1>3, SessionsAre
<1> DEFINE others == {y \in SessionsOf(f, u) : y # x /\ ~ Ended(f, y, at)}
           K == Latest(others, SessionLimit - 1, Times(f, "at"))
           G == [y \in Session |-> IF y \in others \ K
                                   THEN [f.session[y] EXCEPT !.live = FALSE, !.end = at]
                                   ELSE f.session[y]]
<1>6. PICK g : g = OlderReplaced(f, x, u, at)
  OBVIOUS
<1>7. g = [f EXCEPT !.session = G]
  BY <1>5, <1>6 DEF OlderReplaced, Database
<1>8. K \subseteq others /\ IsFiniteSet(K) /\ Cardinality(K) < SessionLimit
  <2>1. others \subseteq Session /\ IsFiniteSet(others)
    BY Counted DEF SessionsOf
  <2>2. SessionLimit - 1 \in Nat /\ SessionLimit \in Nat
    BY LimitsAssumption
  <2>3. \A y \in others : Times(f, "at")[y] \in Int
    BY <1>3, <1>5, <2>1 DEF Times, SessionRow
  <2> HIDE DEF others
  <2>4. K \in SUBSET others /\ Cardinality(K) <= SessionLimit - 1
    BY <2>1, <2>2, <2>3, LatestIs
  <2>5. IsFiniteSet(K) /\ Cardinality(K) \in Nat
    BY <2>1, <2>4, FS_Subset, FS_CardinalityType
  <2> HIDE DEF K
  <2> QED
    BY <2>2, <2>4, <2>5
<1> HIDE DEF K
<1>9. ASSUME NEW y \in Session
      PROVE  /\ G[y] \in SessionRow /\ G[y].of = F[y].of
             /\ y \in others \ K => G[y].live = FALSE
             /\ y \notin others \ K => G[y] = F[y]
  <2>1. F[y] \in SessionRow /\ f.session[y] = F[y]
    BY <1>3, <1>5
  <2> QED
    BY <2>1 DEF SessionRow
<1>10. G \in [Session -> SessionRow]
  BY <1>9
<1> HIDE DEF G
<1>11. /\ g \in Database /\ g.session = G /\ g.clock = f.clock
       /\ KeepsAccounts(f, g) /\ KeepsMembers(f, g) /\ KeepsWorkspaces(f, g)
       /\ KeepsLinks(f, g) /\ KeepsUsage(f, g)
  BY ONLY <1>5, <1>7, <1>10, SessionsAre
<1>12. PICK X : e = WithoutSessions(g, X)
  BY <1>6 DEF Trimmed
<1> DEFINE E == [y \in Session |-> IF y \in X THEN NoSession ELSE G[y]]
<1>13. e = [g EXCEPT !.session = E]
  BY <1>11, <1>12 DEF WithoutSessions, Database
<1>14. E \in [Session -> SessionRow]
  BY <1>10 DEF NoSession, SessionRow, AccountOrNobody
<1>15. \A y \in Session : E[y] = IF y \in X THEN NoSession ELSE G[y]
  OBVIOUS
<1> HIDE DEF E
<1>16. /\ e \in Database /\ e.session = E /\ e.clock = g.clock
       /\ KeepsAccounts(g, e) /\ KeepsMembers(g, e) /\ KeepsWorkspaces(g, e)
       /\ KeepsLinks(g, e) /\ KeepsUsage(g, e)
  BY ONLY <1>11, <1>13, <1>14, SessionsAre
<1>17. /\ KeepsAccounts(d, e) /\ KeepsMembers(d, e) /\ KeepsWorkspaces(d, e)
       /\ KeepsLinks(d, e) /\ KeepsUsage(d, e) /\ e.clock = d.clock
  BY <1>5, <1>11, <1>16
     DEF KeepsAccounts, KeepsMembers, KeepsWorkspaces, KeepsLinks, KeepsUsage
<1>18. ASSUME NEW y \in Session, NEW v \in Account, SessionLive(e, y, v)
       PROVE  /\ y # x => SessionLive(d, y, v)
              /\ v = u => y \in K \cup {x}
              /\ y = x => v = u
  <2>1. /\ E[y].of = v /\ E[y].live /\ ~ (E[y].end <= d.clock)
    BY <1>16, <1>17, <1>18 DEF SessionLive, Ended
  <2>2. y \notin X /\ E[y] = G[y]
    BY <1>15, <2>1, StoreAssumption DEF NoSession
  <2>3. y \notin others \ K /\ G[y] = F[y]
    BY <1>9, <2>1, <2>2
  <2>4. CASE y = x
    BY <1>4, <2>1, <2>2, <2>3, <2>4
  <2>5. CASE y # x
    <3>1. F[y] = d.session[y] /\ d.session[y] \in SessionRow
      BY <1>1, <1>4, <2>5
    <3>2. d.session[y].of = v /\ d.session[y].live /\ ~ (d.session[y].end <= d.clock)
      BY <2>1, <2>2, <2>3, <3>1
    <3>3. SessionLive(d, y, v)
      BY <3>2 DEF SessionLive, Ended
    <3>4. ~ Ended(f, y, at) /\ f.session[y].of = v
      <4>1. f.session[y] = d.session[y] /\ d.session[y].end \in Int
        BY <1>5, <3>1 DEF SessionRow
      <4> QED
        BY <1>1, <3>2, <4>1 DEF Ended
    <3>5. v = u => y \in others
      BY <2>5, <3>4 DEF SessionsOf
    <3> QED
      BY <2>3, <2>5, <3>3, <3>5
  <2> QED
    BY <2>4, <2>5
<1>19. OwnedBut(e, W) /\ AccountedBut(e, W)
  <2>1. OwnedBut(d, W) /\ AccountedBut(d, W)
    BY DEF Sound
  <2>2. \A w \in Workspace, v \in Account : Owns(d, w, v) => Owns(e, w, v)
    BY <1>17 DEF Owns, Active, KeepsAccounts, KeepsMembers
  <2>3. /\ \A w \in Workspace : Live(e, w) => Live(d, w)
        /\ \A w \in Workspace : Members(e, w) = Members(d, w)
        /\ \A w \in Workspace : LinksOf(e, w) \subseteq LinksOf(d, w)
    BY <1>17 DEF Live, Members, LinksOf, KeepsMembers, KeepsWorkspaces, KeepsLinks
  <2> QED
    BY <1>1, <1>17, <2>1, <2>2, <2>3, OwnedKept, AccountedKept
<1>20. InactiveBut(e, U)
  <2>1. \A v \in Account \ U : e.status[v] # "active" =>
          /\ e.status[v] = d.status[v]
          /\ \A y \in Session : SessionLive(e, y, v) => SessionLive(d, y, v)
          /\ \A l \in Link : e.link[l].by = v /\ Usable(e, l) =>
                               d.link[l].by = v /\ Usable(d, l)
          /\ d.status[v] \in {"deleted", "absent"} =>
               MemberOf(e, v) \subseteq MemberOf(d, v)
          /\ d.status[v] = "deleted" => IdentitiesOf(e, v) \subseteq IdentitiesOf(d, v)
    BY <1>17, <1>18
       DEF Active, Usable, MemberOf, IdentitiesOf, KeepsAccounts, KeepsMembers, KeepsLinks
  <2>2. InactiveBut(d, U)
    BY DEF Sound
  <2> QED
    BY ONLY <2>1, <2>2, InactiveKept
<1>21. ASSUME NEW v \in Account PROVE Cardinality(LiveSessionsOf(e, v)) <= SessionLimit
  <2>0. SessionLimit \in Nat
    BY LimitsAssumption
  <2>1. CASE v = u
    <3>1. LiveSessionsOf(e, v) \subseteq K \cup {x}
      BY <1>18, <2>1 DEF LiveSessionsOf
    <3> QED
      BY <1>8, <2>0, <3>1, OneMore
  <2>2. CASE v # u
    <3>1. LiveSessionsOf(e, v) \subseteq LiveSessionsOf(d, v)
          /\ LiveSessionsOf(d, v) \subseteq Session
      BY <1>18, <2>2 DEF LiveSessionsOf
    <3>2. /\ Cardinality(LiveSessionsOf(e, v)) <= Cardinality(LiveSessionsOf(d, v))
          /\ Cardinality(LiveSessionsOf(e, v)) \in Nat
          /\ Cardinality(LiveSessionsOf(d, v)) \in Nat
      BY <3>1, Counted, FS_Subset
    <3>3. Cardinality(LiveSessionsOf(d, v)) <= SessionLimit
      BY DEF Sound, SessionsFew
    <3> QED
      BY <2>0, <3>2, <3>3
  <2> QED
    BY <2>1, <2>2
<1>22. Limited(e)
  BY <1>17, LimitedKept DEF Sound
<1>23. Remembers(e) /\ Budgeted(b, e)
  <2>1. e.ledger = d.ledger /\ e.status = d.status /\ e \in Database
    BY <1>16, <1>17 DEF KeepsUsage, KeepsAccounts
  <2> QED
    BY <1>17, <2>1, LedgerKept
<1>24. Later(d, e)
  BY <1>1, <1>16, <1>17, LaterKept DEF KeepsLinks
<1> QED
  BY <1>16, <1>17, <1>19, <1>20, <1>21, <1>22, <1>23, <1>24 DEF Sound, SessionsFew

-----------------------------------------------------------------------------
(* Operations. *)

\* From c, within one batch, d has been reached: it is sound but for U and W, and
\* its revisions have moved on.
Reached(b, c, d, U, W) ==
  c \in Database /\ Sound(b, d, U, W) /\ Later(c, d) /\ d.clock = c.clock

\* The step from c to d keeps the invariant and moves the revisions on.
Goes(b, c, d) == Reached(b, c, d, {}, {})

\* Nothing was done yet.
LEMMA ReachedHere ==
  ASSUME NEW b, NEW d, NEW U, NEW W, Sound(b, d, U, W)
  PROVE  Reached(b, d, d, U, W)
  BY LaterSame DEF Sound, Reached

\* One statement more.
LEMMA ReachedOn ==
  ASSUME NEW b, NEW c, NEW d, NEW e, NEW U, NEW W, NEW V, NEW X,
         Reached(b, c, d, U, W), Sound(b, e, V, X), Later(d, e), e.clock = d.clock
  PROVE  Reached(b, c, e, V, X)
  BY LaterOn DEF Sound, Reached

-----------------------------------------------------------------------------
(* What happens without a request. *)

\* Time passes.
LEMMA TickKeeps ==
  ASSUME NEW b, NEW d, NEW U, NEW W, Sound(b, d, U, W),
         NEW e, e = [d EXCEPT !.clock = @ + 1]
  PROVE  Sound(b, e, U, W) /\ Later(d, e) /\ e.clock = d.clock + 1
<1>1. d \in Database /\ d.clock \in Nat
  BY DEF Sound, Database
<1>2. /\ e \in Database /\ e.clock = d.clock + 1 /\ e.session = d.session
      /\ KeepsAccounts(d, e) /\ KeepsMembers(d, e) /\ KeepsWorkspaces(d, e)
      /\ KeepsLinks(d, e) /\ KeepsUsage(d, e)
  <2>1. PICK n \in Nat : n = d.clock + 1
    BY <1>1
  <2>2. e = [d EXCEPT !.clock = n]
    BY <1>1, <2>1 DEF Database
  <2> QED
    BY <1>1, <2>1, <2>2
       DEF Database, KeepsAccounts, KeepsMembers, KeepsWorkspaces, KeepsLinks, KeepsUsage
<1>3. ASSUME NEW x \in Session, NEW u \in Account, SessionLive(e, x, u)
      PROVE  SessionLive(d, x, u)
  <2>1. d.session[x].end \in Int
    BY <1>1 DEF Database, SessionRow
  <2> QED
    BY <1>1, <1>2, <1>3, <2>1 DEF SessionLive, Ended
<1>4. e.clock >= d.clock
  BY <1>1, <1>2
<1> QED
  BY ONLY <1>2, <1>3, <1>4, SessionsKeep, Sound(b, d, U, W)

\* What changes belongs neither to accounts nor to workspaces.
LEMMA NothingMoves ==
  ASSUME NEW b, NEW d, NEW U, NEW W, Sound(b, d, U, W), NEW e \in Database,
         KeepsAccounts(d, e), KeepsMembers(d, e), KeepsWorkspaces(d, e),
         KeepsLinks(d, e), KeepsSessions(d, e), e.ledger = d.ledger
  PROVE  Sound(b, e, U, W) /\ Later(d, e)
<1>1. Sound(b, e, U, W)
  BY SoundKept DEF KeepsAccounts, KeepsMembers, KeepsLinks
<1>2. d \in Database
  BY DEF Sound
<1>3. Later(d, e)
  BY <1>2, LaterKept DEF KeepsLinks
<1> QED
  BY <1>1, <1>3

\* A sign-in goes on, or expires.
LEMMA TransactionKeeps ==
  ASSUME NEW b, NEW d, Sound(b, d, {}, {}), NEW O \in [SignIn -> OAuth],
         NEW e, e = [d EXCEPT !.oauth = O]
  PROVE  Goes(b, d, e)
<1>1. d \in Database
  BY DEF Sound
<1>2. /\ e \in Database
      /\ KeepsAccounts(d, e) /\ KeepsMembers(d, e) /\ KeepsWorkspaces(d, e)
      /\ KeepsLinks(d, e) /\ KeepsSessions(d, e) /\ KeepsUsage(d, e)
  BY ONLY <1>1, TransactionsAre, O \in [SignIn -> OAuth], e = [d EXCEPT !.oauth = O]
<1>3. Sound(b, e, {}, {}) /\ Later(d, e)
  BY <1>2, NothingMoves DEF KeepsUsage
<1> QED
  BY <1>1, <1>2, <1>3 DEF Goes, Reached, KeepsSessions

\* Links expire; nothing else about them changes.
LEMMA ExpiredKeep ==
  ASSUME NEW b, NEW d, NEW U, NEW W, Sound(b, d, U, W), NEW e \in Database,
         KeepsAccounts(d, e), KeepsMembers(d, e), KeepsWorkspaces(d, e),
         KeepsSessions(d, e), KeepsUsage(d, e), e.access = d.access,
         \A x \in Link : /\ e.link[x].of = d.link[x].of /\ e.link[x].by = d.link[x].by
                         /\ e.link[x].state = d.link[x].state
                         /\ ~ e.link[x].expired => ~ d.link[x].expired
  PROVE  Sound(b, e, U, W) /\ Later(d, e)
<1>1. d \in Database
  BY DEF Sound
<1>2. OwnedBut(e, W) /\ AccountedBut(e, W)
  BY <1>1, OwnedKept, AccountedKept
     DEF Sound, Owns, Active, Live, Members, LinksOf, KeepsAccounts, KeepsMembers,
         KeepsWorkspaces
<1>3. \A x \in Session, u \in Account : SessionLive(e, x, u) => SessionLive(d, x, u)
  BY DEF SessionLive, Ended, KeepsSessions
<1>4. InactiveBut(e, U)
  BY <1>3, InactiveKept
     DEF Sound, Usable, MemberOf, IdentitiesOf, KeepsAccounts, KeepsMembers
<1>5. Limited(e) /\ SessionsFew(e)
  BY <1>3, LimitedKept, SessionsKept DEF Sound
<1>6. Remembers(e) /\ Budgeted(b, e)
  <2>1. e.ledger = d.ledger /\ e.clock = d.clock /\ e.status = d.status
    BY DEF KeepsUsage, KeepsSessions, KeepsAccounts
  <2> QED
    BY <2>1, LedgerKept
<1>7. Later(d, e)
  BY <1>1, LaterKept
<1> QED
  BY <1>2, <1>4, <1>5, <1>6, <1>7 DEF Sound

\* A link expires.
LEMMA ExpiryKeeps ==
  ASSUME NEW b, NEW d, Sound(b, d, {}, {}), NEW l \in Link,
         NEW e, e = [d EXCEPT !.link[l].expired = TRUE]
  PROVE  Goes(b, d, e)
<1> DEFINE row == [d.link[l] EXCEPT !.expired = TRUE]
           L == [d.link EXCEPT ![l] = row]
<1>1. d \in Database /\ d.link \in [Link -> GuestLink]
  BY DEF Sound, Database
<1>2. row \in GuestLink /\ row.of = d.link[l].of /\ row.by = d.link[l].by
      /\ row.state = d.link[l].state /\ row.expired
  <2>1. d.link[l] \in GuestLink
    BY <1>1
  <2> QED
    BY <2>1 DEF GuestLink
<1>3. e = [d EXCEPT !.link = L]
  BY <1>1 DEF Database
<1> HIDE DEF row
<1>4. L \in [Link -> GuestLink]
  BY <1>1, <1>2
<1>5. ASSUME NEW x \in Link
      PROVE  /\ L[x].of = d.link[x].of /\ L[x].by = d.link[x].by
             /\ L[x].state = d.link[x].state
             /\ ~ L[x].expired => ~ d.link[x].expired
  BY <1>1, <1>2
<1> HIDE DEF L
<1>6. /\ e \in Database /\ e.link = L /\ e.access = d.access
      /\ KeepsAccounts(d, e) /\ KeepsMembers(d, e) /\ KeepsWorkspaces(d, e)
      /\ KeepsSessions(d, e) /\ KeepsUsage(d, e)
  BY <1>1, <1>3, <1>4 DEF Database, KeepsAccounts, KeepsMembers, KeepsWorkspaces,
                          KeepsSessions, KeepsUsage
<1>7. \A x \in Link : /\ e.link[x].of = d.link[x].of /\ e.link[x].by = d.link[x].by
                      /\ e.link[x].state = d.link[x].state
                      /\ ~ e.link[x].expired => ~ d.link[x].expired
  BY <1>5, <1>6
<1>8. Sound(b, e, {}, {}) /\ Later(d, e)
  BY ONLY <1>6, <1>7, ExpiredKeep, Sound(b, d, {}, {})
<1> QED
  BY ONLY <1>1, <1>6, <1>8 DEF Goes, Reached, KeepsSessions

\* Rows of sessions are deleted.
LEMMA WithoutSessionsKeeps ==
  ASSUME NEW b, NEW d, NEW U, NEW W, Sound(b, d, U, W), NEW X,
         NEW e, e = WithoutSessions(d, X)
  PROVE  Sound(b, e, U, W) /\ Later(d, e) /\ e.clock = d.clock
<1> DEFINE S == [x \in Session |-> IF x \in X THEN NoSession ELSE d.session[x]]
<1>1. d \in Database /\ d.session \in [Session -> SessionRow]
  BY DEF Sound, Database
<1>2. e = [d EXCEPT !.session = S]
  BY <1>1 DEF WithoutSessions, Database
<1>3. S \in [Session -> SessionRow]
  BY <1>1 DEF NoSession, SessionRow, AccountOrNobody
<1>4. \A x \in Session : S[x] = d.session[x] \/ S[x].of = Nobody
  BY DEF NoSession
<1> HIDE DEF S
<1>5. /\ e \in Database /\ e.session = S /\ e.clock = d.clock
      /\ KeepsAccounts(d, e) /\ KeepsMembers(d, e) /\ KeepsWorkspaces(d, e)
      /\ KeepsLinks(d, e) /\ KeepsUsage(d, e)
  BY ONLY <1>1, <1>2, <1>3, SessionsAre
<1>6. \A x \in Session, u \in Account : SessionLive(e, x, u) => SessionLive(d, x, u)
  BY <1>4, <1>5, StoreAssumption DEF SessionLive, Ended
<1>7. e.clock >= d.clock
  BY <1>1, <1>5 DEF Database
<1> QED
  BY <1>5, <1>6, <1>7, SessionsKeep

\* Handlers clean up.
LEMMA CleanedKeeps ==
  ASSUME NEW b, NEW d, Sound(b, d, {}, {}), NEW e, e = Cleaned(d)
  PROVE  Goes(b, d, e)
<1> DEFINE links == {l \in Link : d.link[l].expired
                                    /\ d.link[l].state \notin {"absent", "gone"}}
<1>1. PICK X : e = WithLinkState(WithoutSessions(d, X), links, "gone")
  BY DEF Cleaned
<1>2. PICK f : f = WithoutSessions(d, X)
  OBVIOUS
<1>3. Sound(b, f, {}, {}) /\ Later(d, f) /\ f.clock = d.clock
  BY <1>2, WithoutSessionsKeeps
<1>4. LinksSet(f, links, "gone", e)
  <2>1. f \in Database /\ links \in SUBSET Link /\ "gone" \in LinkState
    BY <1>3 DEF Sound, LinkState
  <2> HIDE DEF links
  <2> QED
    BY <1>1, <1>2, <2>1, WithLinkStateIs
<1>5. Sound(b, e, {}, {}) /\ Later(f, e)
  BY <1>3, <1>4, LinksKeep
<1>6. e.clock = f.clock
  BY <1>4 DEF LinksSet, KeepsSessions
<1>7. Reached(b, d, f, {}, {})
  BY <1>3, ReachedHere, ReachedOn
<1> QED
  BY <1>5, <1>6, <1>7, ReachedOn DEF Goes

-----------------------------------------------------------------------------
(* What administrators set, and sign-ins that go on. *)

\* A column of the installation is set.
LEMMA InstallationKeeps ==
  ASSUME NEW b, NEW d, Sound(b, d, {}, {}), NEW e \in Database,
         KeepsAccounts(d, e), KeepsMembers(d, e), KeepsWorkspaces(d, e),
         KeepsLinks(d, e), KeepsSessions(d, e), e.ledger = d.ledger
  PROVE  Goes(b, d, e)
<1>1. Sound(b, e, {}, {}) /\ Later(d, e)
  BY NothingMoves
<1>2. d \in Database /\ e.clock = d.clock
  BY DEF Sound, KeepsSessions
<1> QED
  BY <1>1, <1>2 DEF Goes, Reached

\* A circuit is paused or opened (setCircuitBreaker).
LEMMA CircuitGoes ==
  ASSUME NEW b, NEW d, Sound(b, d, {}, {}), NEW r, r.circuit \in Circuit,
         r.seen \in Database, NEW e, e = CircuitSet(d, r)
  PROVE  Goes(b, d, e)
<1>1. d \in Database /\ d.clock \in Nat /\ d.circuit \in [Circuit -> Breaker]
  BY DEF Sound, Database
<1> DEFINE ends == d.clock + IF r.seen.circuit[r.circuit].again THEN NextPause
                             ELSE FirstPause
           row == [paused |-> r.pause # "none",
                   resume |-> IF r.pause = "security" THEN {ends} ELSE {},
                   again |-> d.circuit[r.circuit].again \/ r.pause # "none"]
           C == [d.circuit EXCEPT ![r.circuit] = row]
<1>2. ends \in Int
  BY <1>1, LimitsAssumption
<1>3. e = [d EXCEPT !.circuit = C]
  BY <1>1 DEF CircuitSet, Database
<1> HIDE DEF ends
<1>4. row \in Breaker
  <2>1. d.circuit[r.circuit].again \in BOOLEAN
    BY <1>1 DEF Breaker
  <2> QED
    BY <1>2, <2>1 DEF Breaker
<1> HIDE DEF row
<1>5. C \in [Circuit -> Breaker]
  BY <1>1, <1>4
<1> HIDE DEF C
<1>6. /\ e \in Database /\ KeepsAccounts(d, e) /\ KeepsMembers(d, e)
      /\ KeepsWorkspaces(d, e) /\ KeepsLinks(d, e) /\ KeepsSessions(d, e)
      /\ e.ledger = d.ledger
  BY <1>1, <1>3, <1>5 DEF Database, KeepsAccounts, KeepsMembers, KeepsWorkspaces,
                          KeepsLinks, KeepsSessions
<1> QED
  BY ONLY <1>6, InstallationKeeps, Sound(b, d, {}, {})

\* The limit of new accounts per day is set (setGovernanceLimit).
LEMMA LimitGoes ==
  ASSUME NEW b, NEW d, Sound(b, d, {}, {}), NEW r, r.limit \in Nat,
         NEW e, e = LimitSet(d, r)
  PROVE  Goes(b, d, e)
<1>1. d \in Database
  BY DEF Sound
<1>2. /\ e \in Database /\ KeepsAccounts(d, e) /\ KeepsMembers(d, e)
      /\ KeepsWorkspaces(d, e) /\ KeepsLinks(d, e) /\ KeepsSessions(d, e)
      /\ e.ledger = d.ledger
  BY <1>1 DEF LimitSet, Database, KeepsAccounts, KeepsMembers, KeepsWorkspaces,
              KeepsLinks, KeepsSessions
<1> QED
  BY ONLY <1>2, InstallationKeeps, Sound(b, d, {}, {})

\* One transaction gets another row.
LEMMA RowGoes ==
  ASSUME NEW b, NEW d, Sound(b, d, {}, {}), NEW t \in SignIn, NEW row \in OAuth,
         NEW e, e = [d EXCEPT !.oauth[t] = row]
  PROVE  Goes(b, d, e)
<1> DEFINE O == [d.oauth EXCEPT ![t] = row]
<1>1. d \in Database /\ d.oauth \in [SignIn -> OAuth]
  BY DEF Sound, Database
<1>2. O \in [SignIn -> OAuth]
  BY <1>1
<1>3. e = [d EXCEPT !.oauth = O]
  BY <1>1 DEF Database
<1> HIDE DEF O
<1> QED
  BY ONLY <1>2, <1>3, TransactionKeeps, Sound(b, d, {}, {})

\* A sign-in begins (beginOAuth).
LEMMA BeginGoes ==
  ASSUME NEW b, NEW d, Sound(b, d, {}, {}), NEW r, r.by \in Account,
         r.item \in SignIn, r.session \in Session \cup {Nothing}, NEW e, e = Begun(d, r)
  PROVE  Goes(b, d, e)
<1> DEFINE row == [state |-> "open", session |-> r.session, identity |-> Nothing,
                   user |-> IF r.session = Nothing THEN Nobody ELSE r.by]
<1>1. row \in OAuth
  BY DEF OAuth, AccountOrNobody
<1>2. e = [d EXCEPT !.oauth[r.item] = row]
  BY DEF Begun
<1> HIDE DEF row
<1> QED
  BY ONLY <1>1, <1>2, RowGoes, Sound(b, d, {}, {}), r.item \in SignIn

\* A sign-in is claimed by its callback (finishOAuth).
LEMMA ClaimGoes ==
  ASSUME NEW b, NEW d, Sound(b, d, {}, {}), NEW r, r.item \in SignIn,
         r.identity \in Identity, NEW e, e = Claimed(d, r)
  PROVE  Goes(b, d, e)
<1> DEFINE row == [d.oauth[r.item] EXCEPT !.state = "claimed", !.identity = r.identity]
<1>1. d.oauth[r.item] \in OAuth
  BY DEF Sound, Database
<1>2. row \in OAuth
  BY <1>1 DEF OAuth
<1>3. e = [d EXCEPT !.oauth[r.item] = row]
  BY DEF Claimed, Sound, Database
<1> HIDE DEF row
<1> QED
  BY ONLY <1>2, <1>3, RowGoes, Sound(b, d, {}, {}), r.item \in SignIn

\* A sign-in expires.
LEMMA LateGoes ==
  ASSUME NEW b, NEW d, Sound(b, d, {}, {}), NEW t \in SignIn,
         NEW e, e = [d EXCEPT !.oauth[t].state = "expired"]
  PROVE  Goes(b, d, e)
<1> DEFINE row == [d.oauth[t] EXCEPT !.state = "expired"]
<1>1. d.oauth[t] \in OAuth
  BY DEF Sound, Database
<1>2. row \in OAuth
  BY <1>1 DEF OAuth
<1>3. e = [d EXCEPT !.oauth[t] = row]
  BY DEF Sound, Database
<1> HIDE DEF row
<1> QED
  BY ONLY <1>2, <1>3, RowGoes, Sound(b, d, {}, {}), t \in SignIn

\* A sign-in is resolved to an account.
LEMMA ResolvedGoes ==
  ASSUME NEW b, NEW d, Sound(b, d, {}, {}), NEW t \in SignIn, NEW u \in Account,
         NEW e, e = Resolved(d, t, u)
  PROVE  Goes(b, d, e)
<1> DEFINE row == [d.oauth[t] EXCEPT !.state = "resolved", !.user = u]
<1>1. d.oauth[t] \in OAuth
  BY DEF Sound, Database
<1>2. row \in OAuth
  BY <1>1 DEF OAuth, AccountOrNobody
<1>3. e = [d EXCEPT !.oauth[t] = row]
  BY DEF Resolved, Sound, Database
<1> HIDE DEF row
<1> QED
  BY ONLY <1>2, <1>3, RowGoes, Sound(b, d, {}, {}), t \in SignIn

-----------------------------------------------------------------------------
(* Members. *)

\* An account with a role is not deleted, and was opened.
LEMMA MembersExist ==
  ASSUME NEW b, NEW d, Sound(b, d, {}, {}), NEW w \in Workspace, NEW u \in Account,
         d.role[w][u] # "none"
  PROVE  d.status[u] \notin {"deleted", "absent"}
<1>1. w \in MemberOf(d, u)
  BY DEF MemberOf
<1>2. ~ Active(d, u) => HoldsNothing(d, u)
  BY DEF Sound, InactiveBut
<1> QED
  BY <1>1, <1>2 DEF HoldsNothing, Active

\* A role is set where the members stay within their limit and an active owner
\* remains.
LEMMA RoleGoes ==
  ASSUME NEW b, NEW d, Sound(b, d, {}, {}), NEW w \in Workspace, NEW u \in Account,
         NEW r, NEW e, RoleSet(d, w, u, r, e), Live(d, w),
         r # "none" => d.status[u] \notin {"deleted", "absent"},
         d.role[w][u] = "none" => Cardinality(Members(d, w)) < MemberLimit,
         ActiveOwners(e, w) # {}
  PROVE  Goes(b, d, e)
<1>0. {} \cup {w} = {w}
  OBVIOUS
<1>1. Sound(b, e, {}, {w}) /\ Later(d, e)
  BY <1>0, RoleKeeps
<1>2. /\ d \in Database /\ e \in Database /\ e.clock = d.clock /\ e.link = d.link
      /\ e.phase = d.phase /\ e.custodian = d.custodian
      /\ e.role = [d.role EXCEPT ![w] = [@ EXCEPT ![u] = r]]
  BY DEF Sound, RoleSet, KeepsWorkspaces, KeepsSessions
<1>3. Members(e, w) \subseteq Members(d, w) \cup {u}
  BY <1>2 DEF Members, Database
<1>4. AccountedFor(d, w)
  BY DEF Sound, AccountedBut
<1>5. Cardinality(Members(e, w)) <= MemberLimit
  <2>1. IsFiniteSet(Members(d, w)) /\ MemberLimit \in Nat
    BY Counted, StoreAssumption DEF Members
  <2>2. CASE d.role[w][u] = "none"
    BY <1>3, <2>1, <2>2, OneMore
  <2>3. CASE d.role[w][u] # "none"
    <3>1. Members(e, w) \subseteq Members(d, w)
      BY <1>3, <2>3 DEF Members
    <3>2. Cardinality(Members(e, w)) <= Cardinality(Members(d, w))
      BY <2>1, <3>1, FS_Subset
    <3>3. Cardinality(Members(e, w)) \in Nat /\ Cardinality(Members(d, w)) \in Nat
      BY Counted DEF Members
    <3> QED
      BY <1>4, <2>1, <3>2, <3>3 DEF AccountedFor
  <2> QED
    BY <2>2, <2>3
<1>6. AccountedFor(e, w)
  <2>1. Live(e, w) /\ e.custodian[w] # Nobody
    BY <1>2, <1>4 DEF AccountedFor, Live
  <2>2. Members(e, w) # {}
    BY DEF ActiveOwners, Owns, Members
  <2> QED
    BY <1>5, <2>1, <2>2 DEF AccountedFor
<1>7. Sound(b, e, {}, {})
  BY <1>1, <1>6, WorkspaceSettled
<1> QED
  BY <1>1, <1>2, <1>7 DEF Goes, Reached

\* Whoever keeps a role while another's changes keeps it.
LEMMA OwnersAfter ==
  ASSUME NEW d \in Database, NEW w \in Workspace, NEW u \in Account, NEW r, NEW e,
         RoleSet(d, w, u, r, e)
  PROVE  /\ \A v \in Account : v # u /\ Owns(d, w, v) => Owns(e, w, v)
         /\ r = "owner" /\ Active(d, u) => Owns(e, w, u)
<1>1. /\ e.status = d.status /\ d.role \in [Workspace -> [Account -> MemberRole]]
      /\ e.role = [d.role EXCEPT ![w] = [@ EXCEPT ![u] = r]]
  BY DEF RoleSet, KeepsAccounts, Database
<1> QED
  BY <1>1 DEF Owns, Active

\* A member gets another role, or goes, and an active owner remains.
LEMMA MemberGoes ==
  ASSUME NEW b, NEW d, Sound(b, d, {}, {}), NEW w \in Workspace, NEW u \in Account,
         NEW r \in MemberRole, NEW e, e = WithRole(d, w, u, r), Live(d, w),
         d.role[w][u] # "none", KeepsOwner(d, w, u)
  PROVE  Goes(b, d, e)
<1>1. d \in Database
  BY DEF Sound
<1>2. RoleSet(d, w, u, r, e)
  BY <1>1, WithRoleIs
<1>3. d.status[u] \notin {"deleted", "absent"}
  BY MembersExist
<1>4. ActiveOwners(d, w) # {}
  BY DEF Sound, OwnedBut
<1>5. PICK v \in Account : v # u /\ Owns(d, w, v)
  BY <1>4 DEF KeepsOwner, ActiveOwners
<1>6. Owns(e, w, v)
  BY <1>1, <1>2, <1>5, OwnersAfter
<1>7. ActiveOwners(e, w) # {}
  BY <1>6 DEF ActiveOwners
<1> QED
  BY <1>2, <1>3, <1>7, RoleGoes

\* changeWorkspaceMemberRole, member.role
LEMMA ChangeRoleGoes ==
  ASSUME NEW b, NEW d, Sound(b, d, {}, {}), NEW r, r.at \in Workspace,
         r.of \in Account, r.role \in {"viewer", "editor", "owner"},
         MayChangeRole(d, r), NEW e, e = RoleChanged(d, r)
  PROVE  Goes(b, d, e)
<1>1. Live(d, r.at) /\ d.role[r.at][r.of] # "none" /\ KeepsOwner(d, r.at, r.of)
  BY DEF MayChangeRole, OwnerAsks, AdminAsks, MemberSeen
<1>2. e = WithRole(d, r.at, r.of, r.role) /\ r.role \in MemberRole
  BY DEF RoleChanged, MemberRole
<1> QED
  BY <1>1, <1>2, MemberGoes

\* removeWorkspaceMember, leaveWorkspace, member.remove
LEMMA RemoveMemberGoes ==
  ASSUME NEW b, NEW d, Sound(b, d, {}, {}), NEW r, r.at \in Workspace,
         r.of \in Account, MayRemoveMember(d, r), NEW e, e = MemberRemoved(d, r)
  PROVE  Goes(b, d, e)
<1>1. Live(d, r.at) /\ d.role[r.at][r.of] # "none" /\ KeepsOwner(d, r.at, r.of)
  BY DEF MayRemoveMember, OwnerRemoves, Leaves, AdminRemoves, OwnerAsks, AdminAsks,
         MayGo, MemberSeen
<1>2. e = WithRole(d, r.at, r.of, "none") /\ "none" \in MemberRole
  BY DEF MemberRemoved, MemberRole
<1> QED
  BY <1>1, <1>2, MemberGoes

\* takeAdminWorkspaceOwnership
LEMMA TakeOwnershipGoes ==
  ASSUME NEW b, NEW d, Sound(b, d, {}, {}), NEW r, r.at \in Workspace,
         r.by \in Account, MayTakeOwnership(d, r), NEW e, e = OwnershipTaken(d, r)
  PROVE  Goes(b, d, e)
<1>1. /\ d \in Database /\ Live(d, r.at) /\ Active(d, r.by)
      /\ d.role[r.at][r.by] = "none" => Cardinality(Members(d, r.at)) < MemberLimit
  BY DEF Sound, MayTakeOwnership, AdminAsks, MayOwnMore
<1>2. RoleSet(d, r.at, r.by, "owner", e)
  <2>1. "owner" \in MemberRole
    BY DEF MemberRole
  <2> QED
    BY <1>1, <2>1, WithRoleIs DEF OwnershipTaken
<1>3. ActiveOwners(e, r.at) # {}
  BY <1>1, <1>2, OwnersAfter DEF ActiveOwners
<1>4. d.status[r.by] \notin {"deleted", "absent"}
  BY <1>1 DEF Active
<1> QED
  BY <1>1, <1>2, <1>3, <1>4, RoleGoes

\* A step after what was reached.
LEMMA GoesThen ==
  ASSUME NEW b, NEW c, NEW d, NEW e, NEW U, NEW W, NEW V, NEW X,
         Reached(b, c, d, U, W), Reached(b, d, e, V, X)
  PROVE  Reached(b, c, e, V, X)
  BY ReachedOn DEF Reached

\* transferWorkspaceOwnership
LEMMA TransferGoes ==
  ASSUME NEW b, NEW d, Sound(b, d, {}, {}), NEW r, r.at \in Workspace,
         r.by \in Account, r.of \in Account, MayTransfer(d, r),
         NEW e, e = Transferred(d, r)
  PROVE  Goes(b, d, e)
<1> DEFINE w == r.at
<1>1. /\ d \in Database /\ Live(d, w) /\ Owns(d, w, r.by) /\ Active(d, r.of)
      /\ d.role[w][r.of] \notin {"none", "owner"}
  BY DEF Sound, MayTransfer, OwnerAsks, MayOwnMore
<1>2. PICK f : f = WithRole(d, w, r.by, "editor")
  OBVIOUS
<1>3. RoleSet(d, w, r.by, "editor", f)
  <2>1. "editor" \in MemberRole
    BY DEF MemberRole
  <2> QED
    BY <1>1, <1>2, <2>1, WithRoleIs
<1>4. f \in Database /\ f.status = d.status /\ KeepsWorkspaces(d, f) /\ f.link = d.link
      /\ f.clock = d.clock /\ f.role = [d.role EXCEPT ![w] = [@ EXCEPT ![r.by] = "editor"]]
  BY <1>3 DEF RoleSet, KeepsAccounts, KeepsSessions
<1>5. d.status[r.by] \notin {"deleted", "absent"} /\ d.status[r.of] \notin {"deleted", "absent"}
  BY <1>1 DEF Owns, Active
<1>6. Sound(b, f, {}, {w}) /\ Later(d, f)
  <2>1. {} \cup {w} = {w}
    OBVIOUS
  <2> QED
    BY <1>3, <1>5, <2>1, RoleKeeps
<1>7. RoleSet(f, w, r.of, "owner", e)
  <2>1. "owner" \in MemberRole /\ e = WithRole(f, w, r.of, "owner")
    BY <1>2 DEF MemberRole, Transferred
  <2> QED
    BY <1>4, <2>1, WithRoleIs
<1>8. e.status = f.status /\ KeepsWorkspaces(f, e) /\ e.link = f.link
      /\ e.clock = f.clock /\ e.role = [f.role EXCEPT ![w] = [@ EXCEPT ![r.of] = "owner"]]
  BY <1>7 DEF RoleSet, KeepsAccounts, KeepsSessions
<1>9. Sound(b, e, {}, {w}) /\ Later(f, e)
  <2>1. {w} \cup {w} = {w} /\ f.status[r.of] \notin {"deleted", "absent"}
    BY <1>4, <1>5
  <2> QED
    BY <1>6, <1>7, <2>1, RoleKeeps, SMTT(30)
<1>10. Members(e, w) = Members(d, w)
  <2>1. d.role[w] \in [Account -> MemberRole] /\ d.role[w][r.by] = "owner"
    BY <1>1 DEF Database, Owns
  <2>2. f.role[w] = [d.role[w] EXCEPT ![r.by] = "editor"]
    BY <1>1, <1>4 DEF Database
  <2>3. e.role[w] = [f.role[w] EXCEPT ![r.of] = "owner"]
    BY <1>4, <1>8 DEF Database
  <2> QED
    BY ONLY <1>1, <2>1, <2>2, <2>3 DEF Members
<1>11. AccountedFor(e, w)
  <2>1. AccountedFor(d, w)
    BY DEF Sound, AccountedBut
  <2>2. Live(e, w) /\ e.custodian[w] = d.custodian[w]
    BY <1>1, <1>4, <1>8 DEF Live, KeepsWorkspaces
  <2> QED
    BY <1>1, <1>10, <2>1, <2>2 DEF AccountedFor
<1>12. ActiveOwners(e, w) # {}
  <2>1. Active(f, r.of)
    BY <1>1, <1>4 DEF Active
  <2> QED
    BY <1>4, <1>7, <2>1, OwnersAfter DEF ActiveOwners
<1>13. Sound(b, e, {}, {})
  BY <1>9, <1>11, <1>12, WorkspaceSettled
<1>14. Reached(b, d, f, {}, {w})
  BY <1>1, <1>4, <1>6 DEF Reached
<1> QED
  BY <1>8, <1>9, <1>13, <1>14, ReachedOn DEF Goes

-----------------------------------------------------------------------------
(* Links. *)

\* Links get a state they do not come back from.
LEMMA LinksGo ==
  ASSUME NEW b, NEW d, NEW U, NEW W, Sound(b, d, U, W), NEW L \in SUBSET Link,
         NEW s \in {"used", "revoked", "gone"}, NEW e, e = WithLinkState(d, L, s),
         s # "gone" => \A l \in L : d.link[l].state \notin {"absent", "gone"}
  PROVE  Reached(b, d, e, U, W) /\ LinksSet(d, L, s, e)
<1>1. d \in Database /\ s \in LinkState
  BY DEF Sound, LinkState
<1>2. LinksSet(d, L, s, e)
  BY <1>1, WithLinkStateIs
<1>3. Sound(b, e, U, W) /\ Later(d, e)
  BY <1>2, LinksKeep
<1>4. e.clock = d.clock
  BY <1>2 DEF LinksSet, KeepsSessions
<1> QED
  BY <1>1, <1>2, <1>3, <1>4 DEF Reached

\* revokeWorkspaceGuestLink, guest.revoke
LEMMA RevokeLinkGoes ==
  ASSUME NEW b, NEW d, Sound(b, d, {}, {}), NEW r, r.item \in Link,
         MayRevokeLink(d, r), NEW e, e = LinkRevoked(d, r)
  PROVE  Goes(b, d, e)
<1>1. /\ e = WithLinkState(d, {r.item}, "revoked") /\ {r.item} \in SUBSET Link
      /\ \A l \in {r.item} : d.link[l].state \notin {"absent", "gone"}
  BY DEF LinkRevoked, MayRevokeLink, Usable
<1> QED
  BY <1>1, LinksGo DEF Goes

\* guest.delete
LEMMA DeleteLinkGoes ==
  ASSUME NEW b, NEW d, Sound(b, d, {}, {}), NEW r, r.item \in Link,
         NEW e, e = LinkDeleted(d, r)
  PROVE  Goes(b, d, e)
<1>1. e = WithLinkState(d, {r.item}, "gone") /\ {r.item} \in SUBSET Link
  BY DEF LinkDeleted
<1> QED
  BY <1>1, LinksGo DEF Goes

\* consumeGuestLink
LEMMA RedeemGoes ==
  ASSUME NEW b, NEW d, Sound(b, d, {}, {}), NEW r, r.at \in Workspace,
         r.by \in Account, r.item \in Link, MayRedeem(d, r), NEW e, e = Redeemed(d, r)
  PROVE  Goes(b, d, e)
<1>1. /\ d \in Database /\ Live(d, r.at) /\ d.link[r.item].state = "unused"
      /\ d.role[r.at][r.by] = "none" /\ Cardinality(Members(d, r.at)) < MemberLimit
      /\ Active(d, r.by)
  BY DEF Sound, MayRedeem, MayJoin
<1>2. PICK f : f = WithLinkState(d, {r.item}, "used")
  OBVIOUS
<1>3. Reached(b, d, f, {}, {}) /\ LinksSet(d, {r.item}, "used", f)
  <2>1. \A l \in {r.item} : d.link[l].state \notin {"absent", "gone"}
    BY <1>1
  <2> QED
    BY <1>2, <2>1, LinksGo
<1>4. f \in Database /\ f.status = d.status /\ f.role = d.role /\ f.phase = d.phase
  BY <1>3 DEF LinksSet, KeepsAccounts, KeepsMembers, KeepsWorkspaces
<1>5. RoleSet(f, r.at, r.by, d.link[r.item].role, e)
  <2>1. d.link[r.item].role \in MemberRole
    BY <1>1 DEF Database, GuestLink, MemberRole
  <2>2. e = WithRole(f, r.at, r.by, d.link[r.item].role)
    BY <1>2 DEF Redeemed
  <2> QED
    BY <1>4, <2>1, <2>2, WithRoleIs
<1>6. Sound(b, f, {}, {})
  BY <1>3 DEF Reached
<1>7. ActiveOwners(e, r.at) # {}
  <2>1. Live(f, r.at)
    BY <1>1, <1>4 DEF Live
  <2>2. PICK v \in Account : Owns(f, r.at, v)
    BY <1>6, <2>1 DEF Sound, OwnedBut, ActiveOwners
  <2>3. v # r.by
    BY <1>1, <1>4, <2>2 DEF Owns
  <2>4. Owns(e, r.at, v)
    BY <1>4, <1>5, <2>2, <2>3, OwnersAfter
  <2> QED
    BY <2>4 DEF ActiveOwners
<1>8. Goes(b, f, e)
  <2>1. /\ Live(f, r.at) /\ f.status[r.by] \notin {"deleted", "absent"}
        /\ Cardinality(Members(f, r.at)) < MemberLimit
    BY <1>1, <1>4 DEF Live, Active, Members
  <2> QED
    BY <1>5, <1>6, <1>7, <2>1, RoleGoes
<1> QED
  BY <1>3, <1>8, GoesThen DEF Goes

\* createWorkspaceGuestLink
LEMMA CreateLinkGoes ==
  ASSUME NEW b, NEW d, Sound(b, d, {}, {}), NEW r, r.at \in Workspace,
         r.by \in Account, r.item \in Link, r.role \in {"viewer", "editor"},
         r.seen.clock \in Nat, Fresh(d, r.seen.clock), r.seen.clock <= d.clock,
         MayCreateLink(d, r), NEW e, e = LinkCreated(d, r)
  PROVE  Goes(b, d, e)
<1> DEFINE at == r.seen.clock
<1>1. /\ d \in Database /\ d.clock \in Nat /\ Live(d, r.at) /\ Active(d, r.by)
      /\ d.link[r.item].state = "absent" /\ WithinBudget(d, "link", r.by, at)
  BY DEF Sound, Database, MayCreateLink, OwnerAsks, LinkAllowed
<1>2. PICK f : f = WithCreation(d, "link", r.by, at)
  OBVIOUS
<1>3. CreationAdded(d, "link", r.by, at, f)
  <2>1. r.by \in AccountOrNobody /\ at \in Int
    BY DEF AccountOrNobody
  <2> QED
    BY <1>1, <1>2, <2>1, WithCreationIs
<1>4. Sound(b, f, {}, {}) /\ Later(d, f)
  <2>1. d.clock - Grace <= at
    BY <1>1, LimitsAssumption DEF Fresh
  <2>2. ~ Deleted(d, r.by) /\ r.by \in AccountOrNobody /\ at \in Int
        /\ "link" \in Budgets \cup {"account"} /\ at <= d.clock
    BY <1>1 DEF Active, Deleted, AccountOrNobody, Budgets
  <2> QED
    BY <1>1, <1>3, <2>1, <2>2, CreationKeeps
<1>5. /\ f \in Database /\ f.clock = d.clock /\ f.status = d.status
      /\ f.link = d.link /\ f.phase = d.phase
  BY <1>3, SMTT(30) DEF CreationAdded, KeepsAccounts, KeepsWorkspaces, KeepsLinks, KeepsSessions
<1>6. LinkAdded(f, r.item, r.at, r.by, e)
  <2>1. e = [f EXCEPT !.link[r.item] = [of |-> r.at, by |-> r.by, role |-> r.role,
                                        expired |-> FALSE, state |-> "unused"],
                      !.access[r.at] = @ + 1]
    BY <1>2 DEF LinkCreated
  <2> QED
    BY <1>5, <2>1, LinkAddedIs
<1>7. Sound(b, e, {}, {}) /\ Later(f, e)
  <2>1. Live(f, r.at) /\ Active(f, r.by) /\ f.link[r.item].state = "absent"
    BY <1>1, <1>5 DEF Live, Active
  <2> QED
    BY <1>4, <1>6, <2>1, LinkAddedKeeps
<1>8. Reached(b, d, f, {}, {})
  BY <1>1, <1>4, <1>5 DEF Reached
<1>9. e.clock = f.clock
  BY <1>6 DEF LinkAdded, KeepsSessions
<1> QED
  BY <1>7, <1>8, <1>9, ReachedOn DEF Goes

-----------------------------------------------------------------------------
(* Workspaces. *)

\* initializeOwnedWorkspace
LEMMA InitializeGoes ==
  ASSUME NEW b, NEW d, Sound(b, d, {}, {}), NEW r, r.at \in Workspace,
         r.by \in Account, r.bytes \in Nat,
         r.seen.clock \in Nat, Fresh(d, r.seen.clock), r.seen.clock <= d.clock,
         MayInitialize(d, r), NEW e, e = Initialized(d, r)
  PROVE  Goes(b, d, e)
<1> DEFINE w == r.at
           u == r.by
           at == r.seen.clock
<1>1. /\ d \in Database /\ d.clock \in Nat /\ d.phase[w] = "absent" /\ Active(d, u)
      /\ Cardinality(CustodyOf(d, u)) < OwnerLimit
      /\ Stored(d, u) + r.bytes <= ByteLimit /\ WithinBudget(d, "workspace", u, at)
  BY DEF Sound, Database, MayInitialize, MayJoin, AllocationAllowed
<1>2. AccountedFor(d, w) /\ ~ Live(d, w) /\ d.custodian[w] = Nobody
      /\ Members(d, w) = {}
  BY <1>1 DEF Sound, AccountedBut, AccountedFor, Live
<1>3. PICK s : s = [d EXCEPT !.phase[w] = "live", !.bytes[w] = r.bytes, !.custodian[w] = u]
  OBVIOUS
<1>4. WorkspaceSet(d, w, "live", r.bytes, u, s)
  <2>1. "live" \in Phase /\ u \in AccountOrNobody
    BY DEF Phase, AccountOrNobody
  <2> QED
    BY ONLY <1>1, <1>3, <2>1, WorkspaceSetIs, w \in Workspace, r.bytes \in Nat
<1>5. /\ s \in Database /\ s.status = d.status /\ s.role = d.role /\ s.clock = d.clock
      /\ s.ledger = d.ledger /\ s.phase = [d.phase EXCEPT ![w] = "live"]
      /\ s.custodian = [d.custodian EXCEPT ![w] = u]
  BY <1>4 DEF WorkspaceSet, KeepsAccounts, KeepsMembers, KeepsSessions, KeepsUsage
<1>6. Limited(s)
  <2>1. Limited(d) /\ Charged(d, w, r.bytes, u, s)
    BY <1>4 DEF Sound, WorkspaceSet, Charged
  <2>2. w \notin CustodyOf(d, u)
    BY <1>2, StoreAssumption DEF CustodyOf
  <2>3. Cardinality(CustodyOf(d, u) \cup {w}) <= OwnerLimit
    <3>1. IsFiniteSet(CustodyOf(d, u)) /\ OwnerLimit \in Nat
      BY Counted, StoreAssumption DEF CustodyOf
    <3> QED
      BY <1>1, <3>1, OneMore
  <2>4. BytesOf(d, CustodyOf(d, u) \ {w}) + r.bytes <= ByteLimit
    <3>1. CustodyOf(d, u) \ {w} = CustodyOf(d, u)
      BY <2>2
    <3> QED
      BY <1>1, <3>1 DEF Stored
  <2>5. u \in AccountOrNobody
    BY DEF AccountOrNobody
  <2> QED
    BY <1>1, <1>5, <2>1, <2>3, <2>4, <2>5, LimitedAfter
<1>7. Sound(b, s, {}, {w}) /\ Later(d, s)
  <2>1. {} \cup {w} = {w}
    OBVIOUS
  <2> QED
    BY <1>4, <1>6, <2>1, WorkspaceSetKeeps
<1>8. PICK c : c = WithCreation(s, "workspace", u, at)
  OBVIOUS
<1>9. CreationAdded(s, "workspace", u, at, c)
  <2>1. u \in AccountOrNobody /\ at \in Int
    BY DEF AccountOrNobody
  <2> QED
    BY <1>5, <1>8, <2>1, WithCreationIs
<1>10. Sound(b, c, {}, {w}) /\ Later(s, c)
  <2>1. s.clock - Grace <= at /\ at <= s.clock /\ at \in Int
    BY <1>1, <1>5, LimitsAssumption DEF Fresh
  <2>2. WithinBudget(s, "workspace", u, at)
    BY <1>1, <1>5 DEF WithinBudget, CreatedThatDay, CreatedSince, Created, TimeOf
  <2>3. ~ Deleted(s, u) /\ u \in AccountOrNobody /\ "workspace" \in Budgets \cup {"account"}
    BY <1>1, <1>5 DEF Active, Deleted, AccountOrNobody, Budgets
  <2> QED
    BY <1>7, <1>9, <2>1, <2>2, <2>3, CreationKeeps
<1>11. /\ c \in Database /\ c.status = s.status /\ c.role = s.role /\ c.clock = s.clock
       /\ c.phase = s.phase /\ c.custodian = s.custodian
  BY <1>9 DEF CreationAdded, KeepsAccounts, KeepsMembers, KeepsWorkspaces, KeepsSessions
<1>12. RoleSet(c, w, u, "owner", e)
  <2>1. "owner" \in MemberRole /\ e = WithRole(c, w, u, "owner")
    BY <1>3, <1>8 DEF MemberRole, Initialized
  <2> QED
    BY <1>11, <2>1, WithRoleIs
<1>13. Sound(b, e, {}, {w}) /\ Later(c, e)
  <2>1. {w} \cup {w} = {w} /\ c.status[u] \notin {"deleted", "absent"}
    BY <1>1, <1>5, <1>11 DEF Active
  <2> QED
    BY <1>10, <1>12, <2>1, RoleKeeps
<1>14. /\ e.clock = c.clock /\ e.phase = c.phase /\ e.custodian = c.custodian
       /\ e.role = [c.role EXCEPT ![w] = [@ EXCEPT ![u] = "owner"]]
  BY <1>12 DEF RoleSet, KeepsWorkspaces, KeepsSessions
<1>15. Members(e, w) = {u}
  <2>1. d.role \in [Workspace -> [Account -> MemberRole]]
    BY <1>1 DEF Database
  <2>2. e.role[w] = [d.role[w] EXCEPT ![u] = "owner"]
    BY <1>5, <1>11, <1>14, <2>1
  <2> QED
    BY <1>2, <2>1, <2>2 DEF Members
<1>16. AccountedFor(e, w)
  <2>1. Live(e, w) /\ e.custodian[w] # Nobody
    <3>1. d.phase \in [Workspace -> Phase] /\ d.custodian \in [Workspace -> AccountOrNobody]
      BY <1>1 DEF Database
    <3> QED
      BY ONLY <1>5, <1>11, <1>14, <3>1, StoreAssumption, w \in Workspace, u \in Account
         DEF Live
  <2>2. Cardinality({u}) <= MemberLimit
    <3>1. Cardinality({u}) = 1
      BY FS_Singleton
    <3>2. MemberLimit \in Nat \ {0}
      BY StoreAssumption
    <3> QED
      BY ONLY <3>1, <3>2
  <2> QED
    BY <1>15, <2>1, <2>2 DEF AccountedFor
<1>17. ActiveOwners(e, w) # {}
  <2>1. Active(c, u)
    BY <1>1, <1>5, <1>11 DEF Active
  <2> QED
    BY <1>11, <1>12, <2>1, OwnersAfter DEF ActiveOwners
<1>18. Sound(b, e, {}, {})
  BY <1>13, <1>16, <1>17, WorkspaceSettled
<1>19. Reached(b, d, s, {}, {w})
  BY <1>1, <1>5, <1>7 DEF Reached
<1>20. Reached(b, d, c, {}, {w})
  BY <1>10, <1>11, <1>19, ReachedOn
<1> QED
  BY <1>13, <1>14, <1>18, <1>20, ReachedOn DEF Goes

\* compareAndSwapAuthorized
LEMMA StoreGoes ==
  ASSUME NEW b, NEW d, Sound(b, d, {}, {}), NEW r, r.at \in Workspace,
         r.bytes \in Nat, MayStore(d, r), NEW e, e = SnapshotStored(d, r)
  PROVE  Goes(b, d, e)
<1> DEFINE w == r.at
           v == d.custodian[w]
<1>1. d \in Database /\ Live(d, w) /\ GrowthAllowed(d, w, r.bytes, r.seen.clock)
  BY DEF Sound, MayStore
<1>2. AccountedFor(d, w) /\ ActiveOwners(d, w) # {} /\ v \in Account
      /\ WithinLimits(d, v)
  BY <1>1 DEF Sound, AccountedBut, AccountedFor, OwnedBut, Limited, Database,
              AccountOrNobody
<1>3. /\ d.bytes \in [Workspace -> Nat] /\ d.phase \in [Workspace -> Phase]
      /\ d.custodian \in [Workspace -> AccountOrNobody]
  BY <1>1 DEF Database
<1>4. e = [d EXCEPT !.phase[w] = d.phase[w], !.bytes[w] = r.bytes,
                    !.custodian[w] = d.custodian[w]]
  BY <1>1, <1>3 DEF SnapshotStored, Database
<1>5. WorkspaceSet(d, w, d.phase[w], r.bytes, v, e)
  BY ONLY <1>1, <1>3, <1>4, WorkspaceSetIs, w \in Workspace, r.bytes \in Nat
<1>6. /\ e \in Database /\ e.status = d.status /\ e.role = d.role /\ e.link = d.link
      /\ e.clock = d.clock /\ e.phase[w] = d.phase[w] /\ e.custodian[w] = v
  BY <1>3, <1>5 DEF WorkspaceSet, KeepsAccounts, KeepsMembers, KeepsLinks, KeepsSessions
<1>7. Limited(e)
  <2>1. Limited(d) /\ Charged(d, w, r.bytes, v, e)
    BY <1>5 DEF Sound, WorkspaceSet, Charged
  <2>2. w \in CustodyOf(d, v) /\ CustodyOf(d, v) \cup {w} = CustodyOf(d, v)
    BY DEF CustodyOf
  <2>3. Cardinality(CustodyOf(d, v) \cup {w}) <= OwnerLimit
    BY <1>2, <2>2 DEF WithinLimits
  <2> DEFINE rest == BytesOf(d, CustodyOf(d, v) \ {w})
  <2>4. Stored(d, v) = rest + d.bytes[w] /\ rest \in Nat
    <3>1. /\ CustodyOf(d, v) \ {w} \in SUBSET Workspace /\ {w} \in SUBSET Workspace
          /\ (CustodyOf(d, v) \ {w}) \cap {w} = {}
          /\ (CustodyOf(d, v) \ {w}) \cup {w} = CustodyOf(d, v)
      BY <2>2 DEF CustodyOf
    <3>2. BytesOf(d, {w}) = d.bytes[w]
      BY <1>3, BytesOfOne
    <3>3. BytesOf(d, CustodyOf(d, v)) = rest + BytesOf(d, {w})
      <4> DEFINE A == CustodyOf(d, v) \ {w}
      <4>1. A \in SUBSET Workspace /\ {w} \in SUBSET Workspace /\ A \cap {w} = {}
        BY <3>1
      <4>2. BytesOf(d, A \cup {w}) = BytesOf(d, A) + BytesOf(d, {w})
        BY ONLY <1>3, <4>1, BytesAdd
      <4> QED
        BY <3>1, <4>2
    <3>4. rest \in Nat
      BY <1>3, <3>1, BytesFinite
    <3> QED
      BY <3>2, <3>3, <3>4 DEF Stored
  <2>5. rest + r.bytes <= ByteLimit
    <3> HIDE DEF rest
    <3>0. d.bytes[w] \in Nat /\ ByteLimit \in Nat
      BY <1>3, LimitsAssumption
    <3>1. CASE r.bytes > d.bytes[w]
      <4>1. Stored(d, v) - d.bytes[w] + r.bytes <= ByteLimit
        BY <1>1, <3>1 DEF GrowthAllowed
      <4> QED
        BY ONLY <2>4, <3>0, <4>1, r.bytes \in Nat
    <3>2. CASE ~ r.bytes > d.bytes[w]
      <4>1. Stored(d, v) <= ByteLimit
        BY <1>2 DEF WithinLimits
      <4> QED
        BY ONLY <2>4, <3>0, <3>2, <4>1, r.bytes \in Nat
    <3> QED
      BY <3>1, <3>2
  <2>6. v \in AccountOrNobody
    BY <1>2 DEF AccountOrNobody
  <2> QED
    BY <1>1, <1>6, <2>1, <2>3, <2>5, <2>6, LimitedAfter
<1>8. Sound(b, e, {}, {w}) /\ Later(d, e)
  <2>1. {} \cup {w} = {w}
    OBVIOUS
  <2> QED
    BY <1>5, <1>7, <2>1, WorkspaceSetKeeps
<1>9. AccountedFor(e, w) /\ ActiveOwners(e, w) # {}
  BY <1>2, <1>6 DEF AccountedFor, Live, Members, LinksOf, ActiveOwners, Owns, Active
<1>10. Sound(b, e, {}, {})
  BY <1>8, <1>9, WorkspaceSettled
<1> QED
  BY <1>1, <1>6, <1>8, <1>10 DEF Goes, Reached

\* deleteServerWorkspace, deleteAdminWorkspace
LEMMA DeleteWorkspaceGoes ==
  ASSUME NEW b, NEW d, Sound(b, d, {}, {}), NEW r, r.at \in Workspace,
         NEW e, e = WorkspaceDeleted(d, r)
  PROVE  Goes(b, d, e)
<1> DEFINE w == r.at
<1>1. d \in Database /\ LinksOf(d, w) \in SUBSET Link
  BY DEF Sound, LinksOf
<1>2. PICK f : f = WithLinkState(d, LinksOf(d, w), "gone")
  OBVIOUS
<1>3. Reached(b, d, f, {}, {}) /\ LinksSet(d, LinksOf(d, w), "gone", f)
  BY <1>1, <1>2, LinksGo
<1>4. f \in Database /\ f.role = d.role /\ Sound(b, f, {}, {})
  BY <1>3 DEF LinksSet, KeepsMembers, Reached
<1>5. LinksOf(f, w) = {}
  <2>1. ASSUME NEW l \in Link PROVE l \notin LinksOf(f, w)
    <3>1. d.link[l] \in GuestLink
      BY <1>1 DEF Database
    <3>2. f.link[l] = IF l \in LinksOf(d, w) THEN [d.link[l] EXCEPT !.state = "gone"]
                      ELSE d.link[l]
      BY <1>3 DEF LinksSet
    <3> QED
      BY <3>1, <3>2 DEF LinksOf, GuestLink
  <2> QED
    BY <2>1 DEF LinksOf
<1>6. WorkspaceGone(f, w, e)
  <2>1. Members(f, w) = Members(d, w)
    BY <1>4 DEF Members
  <2>2. e = [f EXCEPT
               !.phase[w] = "deleted", !.custodian[w] = Nobody, !.bytes[w] = 0,
               !.role[w] = [u \in Account |-> "none"],
               !.membershipRevision =
                 [u \in Account |-> @[u] + IF u \in Members(f, w) THEN 1 ELSE 0],
               !.access[w] = @ + Cardinality(Members(f, w)) + 1]
    BY <1>2, <2>1 DEF WorkspaceDeleted
  <2> QED
    BY ONLY <1>4, <2>2, WorkspaceGoneIs, w \in Workspace
<1>7. Sound(b, e, {}, {}) /\ Later(f, e)
  BY <1>4, <1>5, <1>6, GoneKeeps
<1>8. e.clock = f.clock
  BY <1>6 DEF WorkspaceGone, KeepsSessions
<1> QED
  BY <1>3, <1>7, <1>8, ReachedOn DEF Goes

-----------------------------------------------------------------------------
(* Accounts. *)

\* A global role is set.
LEMMA AdminGoes ==
  ASSUME NEW b, NEW d, Sound(b, d, {}, {}), NEW u \in Account, NEW yes \in BOOLEAN,
         NEW e, e = WithAdmin(d, u, yes)
  PROVE  Goes(b, d, e)
<1>1. d \in Database
  BY DEF Sound
<1>2. AdminSet(d, u, yes, e)
  BY <1>1, WithAdminIs
<1>3. Sound(b, e, {}, {}) /\ Later(d, e)
  BY <1>2, AdminKeeps
<1>4. e.clock = d.clock
  BY <1>2 DEF AdminSet, KeepsSessions
<1> QED
  BY <1>1, <1>3, <1>4 DEF Goes, Reached

\* Sessions are revoked.
LEMMA RevokedGo ==
  ASSUME NEW b, NEW d, NEW U, NEW W, Sound(b, d, U, W), NEW X \in SUBSET Session,
         NEW e, e = SessionsRevoked(d, X)
  PROVE  /\ Reached(b, d, e, U, W)
         /\ KeepsAccounts(d, e) /\ KeepsMembers(d, e) /\ KeepsLinks(d, e)
         /\ \A x \in X, u \in Account : ~ SessionLive(e, x, u)
         /\ \A x \in Session : e.session[x].of = d.session[x].of
<1>1. d \in Database
  BY DEF Sound
<1>2. SessionsEnd(d, X, e)
  BY <1>1, SessionsRevokedIs
<1>3. /\ Sound(b, e, U, W) /\ Later(d, e)
      /\ \A x \in X, u \in Account : ~ SessionLive(e, x, u)
  BY <1>2, RevokedKeep
<1>4. e.clock = d.clock /\ KeepsAccounts(d, e) /\ KeepsMembers(d, e) /\ KeepsLinks(d, e)
  BY <1>2 DEF SessionsEnd
<1>5. ASSUME NEW x \in Session PROVE e.session[x].of = d.session[x].of
  <2>1. d.session[x] \in SessionRow
    BY <1>1 DEF Database
  <2>2. e.session[x] = IF x \in X /\ ~ Ended(d, x, d.clock)
                       THEN [d.session[x] EXCEPT !.live = FALSE, !.end = d.clock]
                       ELSE d.session[x]
    BY <1>2 DEF SessionsEnd
  <2> QED
    BY <2>1, <2>2 DEF SessionRow
<1> QED
  BY <1>1, <1>3, <1>4, <1>5 DEF Reached

\* All sessions of an account are revoked: none is live.
LEMMA SessionsGo ==
  ASSUME NEW b, NEW d, NEW U, NEW W, Sound(b, d, U, W), NEW u \in Account,
         NEW X \in SUBSET Session, \A x \in Session : d.session[x].of = u => x \in X,
         NEW e, e = SessionsRevoked(d, X)
  PROVE  /\ Reached(b, d, e, U, W)
         /\ KeepsAccounts(d, e) /\ KeepsMembers(d, e) /\ KeepsLinks(d, e)
         /\ \A x \in Session : ~ SessionLive(e, x, u)
<1>1. /\ Reached(b, d, e, U, W)
      /\ KeepsAccounts(d, e) /\ KeepsMembers(d, e) /\ KeepsLinks(d, e)
      /\ \A x \in X, v \in Account : ~ SessionLive(e, x, v)
      /\ \A x \in Session : e.session[x].of = d.session[x].of
  BY RevokedGo
<1>2. ASSUME NEW x \in Session PROVE ~ SessionLive(e, x, u)
  BY <1>1 DEF SessionLive
<1> QED
  BY <1>1, <1>2

\* The links of an account are revoked: none can be used any more.
LEMMA LinksRevokedGo ==
  ASSUME NEW b, NEW d, NEW U, NEW W, Sound(b, d, U, W), NEW u \in Account,
         NEW e, e = LinksRevoked(d, u)
  PROVE  /\ Reached(b, d, e, U, W)
         /\ KeepsAccounts(d, e) /\ KeepsMembers(d, e) /\ KeepsSessions(d, e)
         /\ \A l \in Link : e.link[l].by = u => ~ Usable(e, l)
<1> DEFINE L == {l \in Link : d.link[l].by = u /\ Usable(d, l)}
<1>1. e = WithLinkState(d, L, "revoked") /\ L \in SUBSET Link
      /\ \A l \in L : d.link[l].state \notin {"absent", "gone"}
  BY DEF LinksRevoked, Usable
<1>2. d \in Database
  BY DEF Sound
<1> HIDE DEF L
<1>3. Reached(b, d, e, U, W) /\ LinksSet(d, L, "revoked", e)
  BY <1>1, LinksGo
<1>4. KeepsAccounts(d, e) /\ KeepsMembers(d, e) /\ KeepsSessions(d, e)
  BY <1>3 DEF LinksSet
<1>5. ASSUME NEW l \in Link, e.link[l].by = u PROVE ~ Usable(e, l)
  <2>1. d.link[l] \in GuestLink
    BY <1>2 DEF Database
  <2>2. e.link[l] = IF l \in L THEN [d.link[l] EXCEPT !.state = "revoked"] ELSE d.link[l]
    BY <1>3 DEF LinksSet
  <2>3. CASE l \in L
    <3>1. e.link[l].state = "revoked"
      BY <2>1, <2>2, <2>3 DEF GuestLink
    <3> QED
      BY <3>1 DEF Usable
  <2>4. CASE l \notin L
    BY <1>5, <2>2, <2>4 DEF Usable, L
  <2> QED
    BY <2>3, <2>4
<1> QED
  BY <1>3, <1>4, <1>5

\* While an account stops, every live workspace has another active owner.
LEMMA OthersOwn ==
  ASSUME NEW b, NEW d, NEW U, Sound(b, d, U, {}), NEW u \in Account,
         Active(d, u) => ~ FinalOwner(d, u)
  PROVE  \A w \in Workspace \ {} : Live(d, w) => \E v \in ActiveOwners(d, w) : v # u
<1> SUFFICES ASSUME NEW w \in Workspace, Live(d, w)
             PROVE  \E v \in ActiveOwners(d, w) : v # u
  OBVIOUS
<1>1. ActiveOwners(d, w) # {}
  BY DEF Sound, OwnedBut
<1>2. CASE Active(d, u)
  BY <1>1, <1>2 DEF FinalOwner
<1>3. CASE ~ Active(d, u)
  BY <1>1, <1>3 DEF ActiveOwners, Owns
<1> QED
  BY <1>2, <1>3

\* A status is set: the account is left out.
LEMMA StatusGoes ==
  ASSUME NEW b, NEW d, Sound(b, d, {}, {}), NEW u \in Account, NEW s \in Status,
         d.status[u] # "deleted", s = "active" \/ (Active(d, u) => ~ FinalOwner(d, u)),
         NEW e, e = WithStatus(d, u, s)
  PROVE  /\ Reached(b, d, e, {u}, {})
         /\ e.status = [d.status EXCEPT ![u] = s] /\ e.identity = d.identity
         /\ e.role = d.role /\ e.link = d.link /\ KeepsSessions(d, e)
         /\ KeepsWorkspaces(d, e)
<1>1. d \in Database
  BY DEF Sound
<1>2. StatusSet(d, u, s, e)
  BY <1>1, WithStatusIs
<1>3. Sound(b, e, {u}, {}) /\ Later(d, e)
  <2>1. s # "active" => \A w \in Workspace \ {} :
                          Live(d, w) => \E v \in ActiveOwners(d, w) : v # u
    BY OthersOwn
  <2>2. {} \cup {u} = {u}
    OBVIOUS
  <2> QED
    BY <1>2, <2>1, <2>2, StatusKeeps
<1> QED
  BY <1>1, <1>2, <1>3 DEF StatusSet, Reached, KeepsSessions

\* changeGlobalRole: the sessions of the account end.
LEMMA RoleChangeGoes ==
  ASSUME NEW b, NEW d, Sound(b, d, {}, {}), NEW u \in Account, NEW yes \in BOOLEAN,
         NEW X \in SUBSET Session, NEW e, e = SessionsRevoked(WithAdmin(d, u, yes), X)
  PROVE  Goes(b, d, e)
<1>1. PICK f : f = WithAdmin(d, u, yes)
  OBVIOUS
<1>2. Goes(b, d, f)
  BY <1>1, AdminGoes
<1>3. Sound(b, f, {}, {})
  BY <1>2 DEF Goes, Reached
<1>4. e = SessionsRevoked(f, X)
  BY <1>1
<1>5. Reached(b, f, e, {}, {})
  BY <1>3, <1>4, RevokedGo
<1> QED
  BY <1>2, <1>5, GoesThen DEF Goes

\* revokeAccountSession, revokeCurrentSession, session.revoke
LEMMA RevokeSessionGoes ==
  ASSUME NEW b, NEW d, Sound(b, d, {}, {}), NEW r, r.item \in Session,
         NEW e, e = SessionEnded(d, r)
  PROVE  Goes(b, d, e)
<1>1. e = SessionsRevoked(d, {r.item}) /\ {r.item} \in SUBSET Session
  BY DEF SessionEnded
<1> QED
  BY <1>1, RevokedGo DEF Goes

\* identity.unlink
LEMMA UnlinkGoes ==
  ASSUME NEW b, NEW d, Sound(b, d, {}, {}), NEW r, r.of \in Account, MayUnlink(d, r),
         NEW e, e = Unlinked(d, r)
  PROVE  Goes(b, d, e)
<1>1. d \in Database
  BY DEF Sound
<1>2. IdentitySet(d, r.item, Nobody, r.of, e)
  <2>1. e = IdentityNow(d, r.item, Nobody, r.of) /\ Nobody \in AccountOrNobody
    BY DEF Unlinked, IdentityNow, AccountOrNobody
  <2> QED
    BY <1>1, <2>1, IdentityIs
<1>3. Sound(b, e, {}, {}) /\ Later(d, e)
  <2>1. /\ {d.identity[r.item], Nobody} \subseteq {r.of, Nobody}
        /\ Nobody \in AccountOrNobody /\ Nobody \notin Account
    BY StoreAssumption DEF MayUnlink, AccountOrNobody
  <2> QED
    BY <1>2, <2>1, IdentityKeeps
<1>4. e.clock = d.clock
  BY <1>2 DEF IdentitySet, KeepsSessions
<1> QED
  BY <1>1, <1>3, <1>4 DEF Goes, Reached

\* An account that is not active, nor deleted or absent, holds nothing once its
\* sessions and links are gone.
LEMMA StoppedSettled ==
  ASSUME NEW b, NEW c, NEW d, NEW u \in Account, Reached(b, c, d, {u}, {}),
         d.status[u] \in {"disabled", "banned"},
         \A x \in Session : ~ SessionLive(d, x, u),
         \A l \in Link : d.link[l].by = u => ~ Usable(d, l)
  PROVE  Goes(b, c, d)
<1>1. HoldsNothing(d, u)
  BY DEF HoldsNothing
<1>2. Sound(b, d, {}, {})
  BY <1>1, AccountSettled DEF Reached
<1> QED
  BY <1>2 DEF Goes, Reached

\* Links and sessions of an account that was stopped are revoked.
LEMMA StoppedGoes ==
  ASSUME NEW b, NEW c, NEW d, NEW u \in Account, Reached(b, c, d, {u}, {}),
         d.status[u] \in {"disabled", "banned"},
         NEW X \in SUBSET Session, \A x \in Session : d.session[x].of = u => x \in X,
         NEW e, e = SessionsRevoked(LinksRevoked(d, u), X)
  PROVE  Goes(b, c, e)
<1>1. PICK f : f = LinksRevoked(d, u)
  OBVIOUS
<1>2. Sound(b, d, {u}, {})
  BY DEF Reached
<1>3. /\ Reached(b, d, f, {u}, {})
      /\ KeepsAccounts(d, f) /\ KeepsSessions(d, f)
      /\ \A l \in Link : f.link[l].by = u => ~ Usable(f, l)
  BY <1>1, <1>2, LinksRevokedGo
<1>4. /\ Reached(b, f, e, {u}, {})
      /\ KeepsAccounts(f, e) /\ KeepsLinks(f, e)
      /\ \A x \in Session : ~ SessionLive(e, x, u)
  <2>1. Sound(b, f, {u}, {}) /\ e = SessionsRevoked(f, X)
    BY <1>1, <1>3 DEF Reached
  <2>2. \A x \in Session : f.session[x].of = u => x \in X
    BY <1>3 DEF KeepsSessions
  <2> QED
    BY <2>1, <2>2, SessionsGo
<1>5. Reached(b, c, e, {u}, {})
  BY <1>3, <1>4, GoesThen
<1>6. /\ e.status[u] \in {"disabled", "banned"}
      /\ \A l \in Link : e.link[l].by = u => ~ Usable(e, l)
  BY <1>3, <1>4 DEF KeepsAccounts, KeepsLinks, Usable
<1> QED
  BY <1>4, <1>5, <1>6, StoppedSettled

\* changeAccountStatus, to disabled
LEMMA DisableGoes ==
  ASSUME NEW b, NEW d, Sound(b, d, {}, {}), NEW r, r.of \in Account,
         MayDisable(d, r), NEW e, e = Disabled(d, r)
  PROVE  Goes(b, d, e)
<1> DEFINE u == r.of
           X == SessionsOf(d, u)
<1>1. PICK f : f = WithStatus(d, u, "disabled")
  OBVIOUS
<1>2. /\ Reached(b, d, f, {u}, {}) /\ KeepsSessions(d, f)
      /\ f.status = [d.status EXCEPT ![u] = "disabled"]
  <2>1. d.status[u] # "deleted" /\ "disabled" \in Status
        /\ (Active(d, u) => ~ FinalOwner(d, u))
    BY DEF MayDisable, MayStop, Active, Status
  <2> QED
    BY <1>1, <2>1, StatusGoes
<1>3. f.status[u] \in {"disabled", "banned"}
  BY <1>2 DEF Sound, Database
<1>4. /\ X \in SUBSET Session /\ \A x \in Session : f.session[x].of = u => x \in X
      /\ e = SessionsRevoked(LinksRevoked(f, u), X)
  BY <1>1, <1>2 DEF SessionsOf, KeepsSessions, Disabled
<1> HIDE DEF X
<1> QED
  BY <1>2, <1>3, <1>4, StoppedGoes

\* changeAccountStatus, to active
LEMMA EnableGoes ==
  ASSUME NEW b, NEW d, Sound(b, d, {}, {}), NEW r, r.of \in Account,
         MayEnable(d, r), NEW e, e = Enabled(d, r)
  PROVE  Goes(b, d, e)
<1> DEFINE u == r.of
<1>1. /\ Reached(b, d, e, {u}, {})
      /\ e.status = [d.status EXCEPT ![u] = "active"]
  <2>1. d.status[u] # "deleted" /\ "active" \in Status /\ e = WithStatus(d, u, "active")
    BY DEF MayEnable, Enabled, Status
  <2> QED
    BY <2>1, StatusGoes
<1>2. Active(e, u)
  BY <1>1 DEF Sound, Database, Active
<1>3. Sound(b, e, {}, {})
  BY <1>1, <1>2, AccountSettled DEF Reached
<1> QED
  BY <1>1, <1>3 DEF Goes, Reached

\* The digests of an account's ban are written, or lifted.
LEMMA DigestsGo ==
  ASSUME NEW b, NEW d, Sound(b, d, {}, {}), NEW D \in [Identity -> Digest],
         NEW e, e = [d EXCEPT !.digest = D]
  PROVE  /\ Goes(b, d, e)
         /\ KeepsAccounts(d, e) /\ KeepsMembers(d, e) /\ KeepsLinks(d, e)
         /\ KeepsSessions(d, e)
<1>1. d \in Database
  BY DEF Sound
<1>2. /\ e \in Database /\ e.oauth = d.oauth
      /\ KeepsAccounts(d, e) /\ KeepsMembers(d, e) /\ KeepsWorkspaces(d, e)
      /\ KeepsLinks(d, e) /\ KeepsSessions(d, e) /\ KeepsUsage(d, e)
  BY ONLY <1>1, DigestsAre, D \in [Identity -> Digest], e = [d EXCEPT !.digest = D]
<1>3. e.ledger = d.ledger
  BY <1>2 DEF KeepsUsage
<1> QED
  BY ONLY <1>2, <1>3, InstallationKeeps, Sound(b, d, {}, {})

\* banAccount
LEMMA BanGoes ==
  ASSUME NEW b, NEW d, Sound(b, d, {}, {}), NEW r, r.of \in Account,
         MayBan(d, r), NEW e, e = BanPlaced(d, r)
  PROVE  Goes(b, d, e)
<1> DEFINE u == r.of
           X == SessionsOf(d, u)
<1>1. PICK f : f = Enforced(d, u)
  OBVIOUS
<1>2. PICK g : g = WithStatus(f, u, "banned")
  OBVIOUS
<1>3. PICK h : h = WithoutIdentities(g, u)
  OBVIOUS
<1>4. /\ Goes(b, d, f)
      /\ KeepsAccounts(d, f) /\ KeepsMembers(d, f) /\ KeepsSessions(d, f)
  <2> DEFINE D == [i \in Identity |->
                     IF d.identity[i] = u \/ d.digest[i].source = u
                     THEN [source |-> u, lifted |-> FALSE] ELSE d.digest[i]]
  <2>1. f = [d EXCEPT !.digest = D]
    BY <1>1 DEF Enforced, Sound, Database
  <2>2. D \in [Identity -> Digest]
    BY DEF Sound, Database, Digest, AccountOrNobody
  <2> HIDE DEF D
  <2> QED
    BY <2>1, <2>2, DigestsGo
<1>5. /\ Reached(b, f, g, {u}, {}) /\ KeepsSessions(f, g)
      /\ g.status = [f.status EXCEPT ![u] = "banned"]
  <2>1. Sound(b, f, {}, {})
    BY <1>4 DEF Goes, Reached
  <2>2. Active(d, u) => ~ FinalOwner(d, u)
    BY DEF MayBan, MayStop
  <2>3. f.status[u] # "deleted" /\ "banned" \in Status
        /\ (Active(f, u) => ~ FinalOwner(f, u))
    BY <1>4, <2>2 DEF KeepsAccounts, KeepsMembers, MayBan, Active, FinalOwner,
                      ActiveOwners, Owns, Status
  <2> QED
    BY <1>2, <2>1, <2>3, StatusGoes
<1>6. Reached(b, g, h, {u}, {}) /\ KeepsSessions(g, h) /\ h.status = g.status
  <2>1. Sound(b, g, {u}, {}) /\ g \in Database
    BY <1>5 DEF Reached, Sound
  <2>2. IdentitiesGone(g, u, h)
    BY <1>3, <2>1, WithoutIdentitiesIs
  <2>3. Sound(b, h, {u}, {}) /\ Later(g, h)
    BY <2>1, <2>2, IdentitiesGoneKeep
  <2> QED
    BY <2>1, <2>2, <2>3 DEF IdentitiesGone, Reached, KeepsSessions
<1>7. Reached(b, d, h, {u}, {})
  BY <1>4, <1>5, <1>6, GoesThen DEF Goes
<1>8. h.status[u] \in {"disabled", "banned"}
  <2>1. f.status \in [Account -> Status]
    BY <1>4 DEF Goes, Reached, Sound, Database
  <2> QED
    BY <1>5, <1>6, <2>1
<1>9. /\ X \in SUBSET Session /\ \A x \in Session : h.session[x].of = u => x \in X
      /\ e = SessionsRevoked(LinksRevoked(h, u), X)
  BY <1>1, <1>2, <1>3, <1>4, <1>5, <1>6 DEF SessionsOf, KeepsSessions, BanPlaced
<1> HIDE DEF X
<1> QED
  BY <1>7, <1>8, <1>9, StoppedGoes

\* liftAccountBan
LEMMA LiftGoes ==
  ASSUME NEW b, NEW d, Sound(b, d, {}, {}), NEW r, r.of \in Account,
         MayLift(d, r), NEW e, e = BanLifted(d, r)
  PROVE  Goes(b, d, e)
<1> DEFINE u == r.of
           D == [i \in Identity |-> IF d.digest[i].source = u
                                    THEN [d.digest[i] EXCEPT !.lifted = TRUE]
                                    ELSE d.digest[i]]
<1>1. PICK f : f = [d EXCEPT !.digest = D]
  OBVIOUS
<1>2. e = WithStatus(f, u, "disabled")
  BY <1>1 DEF BanLifted, Sound, Database
<1>3. D \in [Identity -> Digest]
  <2>1. \A i \in Identity : d.digest[i] \in Digest
    BY DEF Sound, Database
  <2> QED
    BY <2>1 DEF Digest
<1> HIDE DEF D
<1>4. /\ Goes(b, d, f)
      /\ KeepsAccounts(d, f) /\ KeepsLinks(d, f) /\ KeepsSessions(d, f)
  BY <1>1, <1>3, DigestsGo
<1>5. Sound(b, f, {}, {}) /\ f.status[u] = "banned"
  BY <1>4 DEF Goes, Reached, KeepsAccounts, MayLift
<1>6. /\ Reached(b, f, e, {u}, {}) /\ KeepsSessions(f, e) /\ e.link = f.link
      /\ e.status = [f.status EXCEPT ![u] = "disabled"]
  <2>1. f.status[u] # "deleted" /\ "disabled" \in Status
        /\ (Active(f, u) => ~ FinalOwner(f, u))
    BY <1>5 DEF Active, Status
  <2> QED
    BY <1>2, <1>5, <2>1, StatusGoes
<1>7. HoldsNothing(f, u)
  BY <1>5 DEF Sound, InactiveBut, Active
<1>8. /\ e.status[u] \in {"disabled", "banned"}
      /\ \A x \in Session : ~ SessionLive(e, x, u)
      /\ \A l \in Link : e.link[l].by = u => ~ Usable(e, l)
  <2>1. f.status \in [Account -> Status]
    BY <1>5 DEF Sound, Database
  <2> QED
    BY <1>6, <1>7, <2>1 DEF HoldsNothing, SessionLive, Ended, KeepsSessions, Usable
<1>9. Reached(b, d, e, {u}, {})
  BY <1>4, <1>6, GoesThen DEF Goes
<1> QED
  BY <1>8, <1>9, StoppedSettled

-----------------------------------------------------------------------------
(* executeAccountDeletion *)

Handed(d, u, plan) ==
  [w \in Workspace |-> IF w \in DOMAIN plan /\ d.custodian[w] = u
                       THEN plan[w] ELSE d.custodian[w]]

\* Each of those who take custody has room for everything the plan gives them.
LEMMA HandedLimited ==
  ASSUME NEW d \in Database, Limited(d), NEW u \in Account, NEW plan,
         DOMAIN plan \subseteq Workspace, \A w \in DOMAIN plan : plan[w] # u,
         PlanHolds(d, plan), NEW e, e.bytes = d.bytes,
         e.custodian = Handed(d, u, plan)
  PROVE  Limited(e)
<1> SUFFICES ASSUME NEW v \in Account PROVE WithinLimits(e, v)
  BY DEF Limited
<1> DEFINE own == CustodyOf(d, v)
           given == {w \in DOMAIN plan : plan[w] = v}
           moved == {w \in given : d.custodian[w] = u}
<1>1. /\ d.bytes \in [Workspace -> Nat] /\ {OwnerLimit, ByteLimit} \subseteq Nat
      /\ own \in SUBSET Workspace /\ given \in SUBSET Workspace
      /\ moved \in SUBSET given /\ moved \in SUBSET Workspace
  BY StoreAssumption, LimitsAssumption DEF Database, CustodyOf
<1>2. Cardinality(own) <= OwnerLimit /\ BytesOf(d, own) <= ByteLimit
  BY DEF Limited, WithinLimits, Stored
<1>3. \A W \in SUBSET Workspace : BytesOf(e, W) = BytesOf(d, W)
  <2>1. ASSUME NEW W \in SUBSET Workspace PROVE BytesOf(e, W) = BytesOf(d, W)
    <3>1. \A w \in W : e.bytes[w] = d.bytes[w]
      OBVIOUS
    <3> QED
      BY ONLY <3>1, BytesSame
  <2> QED
    BY <2>1
<1>4. \A w \in Workspace : e.custodian[w] = IF w \in DOMAIN plan /\ d.custodian[w] = u
                                            THEN plan[w] ELSE d.custodian[w]
  BY DEF Handed
<1>5. CASE CustodyOf(e, v) \subseteq own
  <2>1. Cardinality(CustodyOf(e, v)) <= Cardinality(own)
    BY <1>1, <1>5, Counted, FS_Subset
  <2>2. BytesOf(d, CustodyOf(e, v)) <= BytesOf(d, own)
    BY <1>1, <1>5, BytesFewer
  <2>3. /\ Cardinality(CustodyOf(e, v)) \in Nat /\ Cardinality(own) \in Nat
        /\ BytesOf(d, CustodyOf(e, v)) \in Nat /\ BytesOf(d, own) \in Nat
        /\ CustodyOf(e, v) \in SUBSET Workspace
    BY <1>1, <1>5, Counted, BytesFinite
  <2>4. BytesOf(e, CustodyOf(e, v)) = BytesOf(d, CustodyOf(e, v))
    BY <1>3, <2>3
  <2> HIDE DEF own
  <2> QED
    BY <1>1, <1>2, <2>1, <2>2, <2>3, <2>4 DEF WithinLimits, Stored
<1>6. CASE ~ CustodyOf(e, v) \subseteq own
  <2>1. v # u /\ moved # {}
    BY <1>4, <1>6 DEF CustodyOf
  <2>2. CustodyOf(e, v) = own \cup moved /\ own \cap moved = {}
    BY <1>1, <1>4, <2>1 DEF CustodyOf
  <2>3. /\ Cardinality(own) + Cardinality(given) <= OwnerLimit
        /\ BytesOf(d, own) + BytesOf(d, given) <= ByteLimit
    BY <2>1 DEF PlanHolds, Receives, Stored
  <2> HIDE DEF own, given, moved
  <2>4. Cardinality(own \cup moved) <= Cardinality(own) + Cardinality(moved)
    <3>1. IsFiniteSet(own) /\ IsFiniteSet(moved)
      BY <1>1, Counted
    <3>2. Cardinality(own \cup moved) =
            Cardinality(own) + Cardinality(moved) - Cardinality(own \cap moved)
      BY <3>1, FS_Union
    <3>3. Cardinality(own \cap moved) = 0
      BY <2>2, FS_EmptySet
    <3>4. Cardinality(own) \in Nat /\ Cardinality(moved) \in Nat
      BY <1>1, Counted
    <3> QED
      BY ONLY <3>2, <3>3, <3>4
  <2>5. Cardinality(moved) <= Cardinality(given)
    BY <1>1, Counted, FS_Subset
  <2>6. BytesOf(d, own \cup moved) = BytesOf(d, own) + BytesOf(d, moved)
    BY <1>1, <2>2, BytesAdd
  <2>7. BytesOf(d, moved) <= BytesOf(d, given)
    BY <1>1, BytesFewer
  <2>8. /\ Cardinality(own) \in Nat /\ Cardinality(moved) \in Nat
        /\ Cardinality(given) \in Nat /\ Cardinality(own \cup moved) \in Nat
    <3>1. own \cup moved \in SUBSET Workspace
      BY <1>1
    <3> QED
      BY <1>1, <3>1, Counted
  <2>9. /\ BytesOf(d, own) \in Nat /\ BytesOf(d, moved) \in Nat
        /\ BytesOf(d, given) \in Nat
    BY <1>1, BytesFinite
  <2>10. BytesOf(e, own \cup moved) = BytesOf(d, own \cup moved)
    BY <1>1, <1>3
  <2>11. Cardinality(own \cup moved) <= OwnerLimit
    BY ONLY <1>1, <2>3, <2>4, <2>5, <2>8
  <2>12. BytesOf(e, own \cup moved) <= ByteLimit
    BY ONLY <1>1, <2>3, <2>6, <2>7, <2>9, <2>10
  <2> QED
    BY <2>2, <2>11, <2>12 DEF WithinLimits, Stored
<1> QED
  BY <1>5, <1>6

\* What a deleted account held goes: it is settled.
LEMMA ErasedGoes ==
  ASSUME NEW b, NEW c, NEW d, NEW u \in Account, Reached(b, c, d, {u}, {}),
         Deleted(d, u), NEW e, e = Erased(d, u)
  PROVE  Goes(b, c, e)
<1> DEFINE X == SessionsOf(d, u)
<1>1. PICK f : f = SessionsRevoked(d, X)
  OBVIOUS
<1>2. PICK g : g = LinksRevoked(f, u)
  OBVIOUS
<1>3. PICK h : h = WithoutIdentities(g, u)
  OBVIOUS
<1>4. PICK m : m = WithoutMemberships(h, u)
  OBVIOUS
<1>5. e = Forgotten(m, u)
  BY <1>1, <1>2, <1>3, <1>4 DEF Erased
<1>6. /\ Reached(b, d, f, {u}, {}) /\ KeepsAccounts(d, f)
      /\ \A x \in Session : ~ SessionLive(f, x, u)
  <2>1. X \in SUBSET Session /\ \A x \in Session : d.session[x].of = u => x \in X
    BY DEF SessionsOf
  <2>2. Sound(b, d, {u}, {})
    BY DEF Reached
  <2> HIDE DEF X
  <2> QED
    BY <1>1, <2>1, <2>2, SessionsGo
<1>7. /\ Reached(b, f, g, {u}, {}) /\ KeepsAccounts(f, g) /\ KeepsSessions(f, g)
      /\ \A l \in Link : g.link[l].by = u => ~ Usable(g, l)
  <2>1. Sound(b, f, {u}, {})
    BY <1>6 DEF Reached
  <2> QED
    BY <1>2, <2>1, LinksRevokedGo
<1>8. /\ Reached(b, g, h, {u}, {}) /\ h.status = g.status /\ KeepsSessions(g, h)
      /\ KeepsLinks(g, h) /\ IdentitiesOf(h, u) = {}
  <2>1. Sound(b, g, {u}, {}) /\ g \in Database
    BY <1>7 DEF Reached, Sound
  <2>2. IdentitiesGone(g, u, h)
    BY <1>3, <2>1, WithoutIdentitiesIs
  <2>3. Sound(b, h, {u}, {}) /\ Later(g, h)
    BY <2>1, <2>2, IdentitiesGoneKeep
  <2>4. IdentitiesOf(h, u) = {}
    BY <2>2, StoreAssumption DEF IdentitiesGone, IdentitiesOf
  <2> QED
    BY <2>1, <2>2, <2>3, <2>4 DEF IdentitiesGone, Reached, KeepsSessions
<1>9. h \in Database /\ Deleted(h, u) /\ ~ Active(h, u)
  BY <1>6, <1>7, <1>8 DEF Reached, Sound, KeepsAccounts, Deleted, Active
<1>10. /\ Reached(b, h, m, {u}, {}) /\ KeepsAccounts(h, m) /\ KeepsSessions(h, m)
       /\ m.link = h.link /\ MemberOf(m, u) = {}
  <2>1. MembershipsGone(h, u, m)
    BY <1>4, <1>9, WithoutMembershipsIs
  <2>2. Sound(b, h, {u}, {})
    BY <1>8 DEF Reached
  <2>3. Sound(b, m, {u}, {}) /\ Later(h, m) /\ MemberOf(m, u) = {}
    BY <1>9, <2>1, <2>2, MembershipsGoneKeep
  <2> QED
    BY <1>9, <2>1, <2>3 DEF MembershipsGone, Reached, KeepsSessions
<1>11. /\ Reached(b, m, e, {u}, {}) /\ KeepsAccounts(m, e) /\ KeepsMembers(m, e)
       /\ KeepsLinks(m, e) /\ KeepsSessions(m, e)
  <2>1. Sound(b, m, {u}, {}) /\ m \in Database
    BY <1>10 DEF Reached, Sound
  <2>2. Deleted(m, u)
    BY <1>9, <1>10 DEF KeepsAccounts, Deleted
  <2>3. /\ Sound(b, e, {u}, {}) /\ Later(m, e)
        /\ KeepsAccounts(m, e) /\ KeepsMembers(m, e) /\ KeepsLinks(m, e)
        /\ KeepsSessions(m, e)
    BY <1>5, <2>1, <2>2, ForgottenKeeps
  <2> QED
    BY <2>1, <2>3 DEF Reached, KeepsSessions
<1>12. HoldsNothing(e, u)
  <2>1. \A x \in Session : ~ SessionLive(e, x, u)
    BY <1>6, <1>7, <1>8, <1>10, <1>11 DEF SessionLive, Ended, KeepsSessions
  <2>2. \A l \in Link : e.link[l].by = u => ~ Usable(e, l)
    BY <1>7, <1>8, <1>10, <1>11 DEF Usable, KeepsLinks
  <2>3. MemberOf(e, u) = {} /\ IdentitiesOf(e, u) = {}
    BY <1>8, <1>10, <1>11 DEF MemberOf, IdentitiesOf, KeepsMembers, KeepsAccounts
  <2> QED
    BY <2>1, <2>2, <2>3 DEF HoldsNothing
<1>13. Reached(b, c, e, {u}, {})
  <2>1. Reached(b, c, g, {u}, {})
    BY <1>6, <1>7, GoesThen
  <2>2. Reached(b, c, m, {u}, {})
    BY <1>8, <1>10, <2>1, GoesThen
  <2> QED
    BY <1>11, <2>2, GoesThen
<1>14. Sound(b, e, {}, {})
  BY <1>12, <1>13, AccountSettled DEF Reached
<1> QED
  BY <1>13, <1>14 DEF Goes, Reached

\* An account is deleted by a plan that was made for an earlier database.
LEMMA DeleteAccountGoes ==
  ASSUME NEW b, NEW d, Sound(b, d, {}, {}), NEW r, r.by \in Account,
         r.plan \in Prepared(r.seen, r.by), MayDeleteAccount(d, r),
         NEW e, e = AccountDeleted(d, r)
  PROVE  Goes(b, d, e)
<1> DEFINE u == r.by
           C == Handed(d, u, r.plan)
<1>1. /\ d \in Database /\ Active(d, u) /\ ~ FinalOwner(d, u) /\ PlanHolds(d, r.plan)
      /\ d.custodian \in [Workspace -> AccountOrNobody]
  BY DEF Sound, MayDeleteAccount, Database
<1>2. /\ DOMAIN r.plan \subseteq Workspace
      /\ \A w \in DOMAIN r.plan : r.plan[w] \in Account /\ r.plan[w] # u
  <2>1. r.plan \in CustodyPlan(r.seen, u)
    BY DEF Prepared
  <2> QED
    BY <2>1 DEF CustodyPlan, CustodyOf
<1>3. PICK f : f = WithStatus(d, u, "deleted")
  OBVIOUS
<1>4. /\ Reached(b, d, f, {u}, {}) /\ KeepsWorkspaces(d, f)
      /\ f.status = [d.status EXCEPT ![u] = "deleted"]
  <2>1. d.status[u] # "deleted" /\ "deleted" \in Status
    BY <1>1 DEF Active, Status
  <2> QED
    BY <1>1, <1>3, <2>1, StatusGoes
<1>5. PICK g : g = [f EXCEPT !.custodian = C]
  OBVIOUS
<1>6. e = Erased(g, u)
  <2>1. C = [w \in Workspace |-> IF w \in DOMAIN r.plan /\ f.custodian[w] = u
                                 THEN r.plan[w] ELSE f.custodian[w]]
    BY <1>4 DEF Handed, KeepsWorkspaces
  <2>2. g = [f EXCEPT !.custodian = [w \in Workspace |->
                IF w \in DOMAIN r.plan /\ @[w] = u THEN r.plan[w] ELSE @[w]]]
    BY ONLY <1>5, <2>1
  <2> QED
    BY ONLY <1>3, <2>2, e = AccountDeleted(d, r) DEF AccountDeleted
<1>7. /\ C \in [Workspace -> AccountOrNobody]
      /\ \A w \in Workspace : C[w] = Nobody <=> f.custodian[w] = Nobody
  BY <1>1, <1>2, <1>4, StoreAssumption DEF Handed, AccountOrNobody, KeepsWorkspaces
<1>8. f \in Database /\ g.custodian = C /\ g.bytes = f.bytes
  BY <1>4, <1>5 DEF Reached, Sound, Database
<1>9. Limited(g)
  <2>1. Limited(d)
    BY DEF Sound
  <2>2. g.bytes = d.bytes
    BY <1>4, <1>8 DEF KeepsWorkspaces
  <2> HIDE DEF C
  <2>3. g.custodian = Handed(d, u, r.plan)
    BY <1>8 DEF C
  <2> QED
    BY <1>1, <1>2, <2>1, <2>2, <2>3, HandedLimited
<1>10. /\ Sound(b, g, {u}, {}) /\ Later(f, g)
       /\ KeepsAccounts(f, g) /\ KeepsSessions(f, g)
  <2>1. Sound(b, f, {u}, {})
    BY <1>4 DEF Reached
  <2> HIDE DEF C
  <2> QED
    BY ONLY <1>5, <1>7, <1>9, <2>1, CustodyKeeps
<1>11. Reached(b, d, g, {u}, {})
  BY <1>4, <1>10, ReachedOn DEF KeepsSessions
<1>12. Deleted(g, u)
  <2>1. d.status \in [Account -> Status]
    BY <1>1 DEF Database
  <2> QED
    BY <1>4, <1>10, <2>1 DEF Deleted, KeepsAccounts
<1> QED
  BY <1>6, <1>11, <1>12, ErasedGoes

-----------------------------------------------------------------------------
(* Signing in. *)

\* bootstrapGlobalAdmin
LEMMA BootstrapGoes ==
  ASSUME NEW b, NEW d, Sound(b, d, {}, {}), NEW r, r.by \in Account,
         NEW e, e = Bootstrapped(d, r)
  PROVE  Goes(b, d, e)
<1>1. e = WithAdmin(d, r.by, TRUE)
  BY DEF Bootstrapped
<1> QED
  BY <1>1, AdminGoes

\* recoverGlobalAdmin
LEMMA RecoverGoes ==
  ASSUME NEW b, NEW d, Sound(b, d, {}, {}), NEW r, r.by \in Account,
         NEW e, e = Recovered(d, r)
  PROVE  Goes(b, d, e)
<1> DEFINE promoted == WithAdmin(d, r.by, TRUE)
           X == {x \in Session \ {r.item} :
                   \E u \in Account : promoted.admin[u] /\ d.session[x].of = u}
<1>1. e = SessionsRevoked(promoted, X) /\ X \in SUBSET Session
  BY DEF Recovered
<1> HIDE DEF X
<1> QED
  BY <1>1, RoleChangeGoes

\* createOrLinkUser, for an identity that has an account
LEMMA RecognizeGoes ==
  ASSUME NEW b, NEW d, Sound(b, d, {}, {}), NEW r, r.item \in SignIn,
         MayRecognize(d, r), NEW e, e = Recognized(d, r)
  PROVE  Goes(b, d, e)
<1> DEFINE u == d.identity[d.oauth[r.item].identity]
<1>1. u \in Account /\ e = Resolved(d, r.item, u)
  BY DEF MayRecognize, Active, Recognized
<1> QED
  BY <1>1, ResolvedGoes

\* createOrLinkUser, for an identity that is linked
LEMMA LinkIdentityGoes ==
  ASSUME NEW b, NEW d, Sound(b, d, {}, {}), NEW r, r.item \in SignIn,
         MayLink(d, r), NEW e, e = IdentityLinked(d, r)
  PROVE  Goes(b, d, e)
<1> DEFINE i == d.oauth[r.item].identity
           u == d.oauth[r.item].user
<1>1. d \in Database /\ Active(d, u) /\ u \in Account /\ d.identity[i] = Nobody
  BY DEF Sound, MayLink, LinkIntended, Active
<1>2. PICK f : f = WithIdentity(d, i, u)
  OBVIOUS
<1>3. e = Resolved(f, r.item, u)
  BY <1>2 DEF IdentityLinked
<1>4. u \in AccountOrNobody /\ {d.identity[i], u} \subseteq {u, Nobody}
      /\ d.status[u] # "deleted"
  BY <1>1 DEF Active, AccountOrNobody
<1> HIDE DEF i, u
<1>5. IdentitySet(d, i, u, u, f)
  <2>1. f = IdentityNow(d, i, u, u)
    BY <1>2 DEF WithIdentity, IdentityNow
  <2> QED
    BY <1>1, <1>4, <2>1, IdentityIs
<1>6. Sound(b, f, {}, {}) /\ Later(d, f)
  BY <1>1, <1>4, <1>5, IdentityKeeps
<1>7. Goes(b, d, f)
  BY <1>1, <1>5, <1>6 DEF Goes, Reached, IdentitySet, KeepsSessions
<1>8. Goes(b, f, e)
  BY <1>1, <1>3, <1>6, ResolvedGoes
<1> QED
  BY <1>7, <1>8, GoesThen DEF Goes

\* createOrLinkUser, for a new account
LEMMA EnrollGoes ==
  ASSUME NEW b, NEW d, Sound(b, d, {}, {}), NEW r, r.item \in SignIn,
         r.of \in Account,
         r.seen.clock \in Nat, Fresh(d, r.seen.clock), r.seen.clock <= d.clock,
         MayEnroll(d, r), NEW e, e = Enrolled(d, r)
  PROVE  Goes(b, d, e)
<1> DEFINE i == d.oauth[r.item].identity
           u == r.of
           at == r.seen.clock
<1>1. d \in Database /\ d.clock \in Nat /\ d.identity[i] = Nobody /\ d.status[u] = "absent"
  BY DEF Sound, Database, MayEnroll
<1>2. PICK f : f = WithCreation(d, "account", Nobody, at)
  OBVIOUS
<1>3. PICK g : g = [WithIdentity(f, i, u) EXCEPT !.status[u] = "active"]
  OBVIOUS
<1>4. e = Resolved(g, r.item, u)
  BY <1>2, <1>3 DEF Enrolled
<1> HIDE DEF i
<1>5. CreationAdded(d, "account", Nobody, at, f)
  <2>1. Nobody \in AccountOrNobody /\ at \in Int
    BY DEF AccountOrNobody
  <2> QED
    BY <1>1, <1>2, <2>1, WithCreationIs
<1>6. Sound(b, f, {}, {}) /\ Later(d, f)
  <2>1. d.clock - Grace <= at /\ at <= d.clock /\ at \in Int
    BY <1>1, LimitsAssumption DEF Fresh
  <2>2. Nobody \in AccountOrNobody /\ "account" \in Budgets \cup {"account"}
        /\ "account" \notin Budgets
    BY DEF AccountOrNobody, Budgets
  <2> QED
    BY <1>5, <2>1, <2>2, CreationKeeps
<1>7. /\ f \in Database /\ f.clock = d.clock /\ f.status = d.status
      /\ f.identity = d.identity
  BY <1>5 DEF CreationAdded, KeepsAccounts, KeepsSessions
<1>8. AccountOpened(f, i, u, g)
  BY ONLY <1>3, <1>7, AccountOpenedIs, u \in Account
<1>9. Sound(b, g, {}, {}) /\ Later(f, g)
  <2>1. f.status[u] = "absent" /\ f.identity[i] = Nobody
    BY <1>1, <1>7
  <2> QED
    BY <1>6, <1>8, <2>1, OpenedKeeps
<1>10. g.clock = f.clock
  BY <1>8 DEF AccountOpened, KeepsSessions
<1>11. Reached(b, d, f, {}, {})
  BY <1>1, <1>6, <1>7 DEF Reached
<1>12. Reached(b, d, g, {}, {})
  BY <1>9, <1>10, <1>11, ReachedOn
<1>13. Goes(b, g, e)
  BY <1>4, <1>9, ResolvedGoes
<1> QED
  BY <1>12, <1>13, GoesThen DEF Goes

RowPut(d, x, row, e) == e = [d EXCEPT !.session[x] = row]

\* A creation and a new session do not concern the same column.
LEMMA SessionThenRow ==
  ASSUME NEW d \in Database, NEW u, NEW at, NEW x, NEW row,
         NEW f, RowPut(d, x, row, f),
         NEW g, g = WithCreation(d, "session", u, at), NEW h, RowPut(g, x, row, h)
  PROVE  h = WithCreation(f, "session", u, at)
<1> DEFINE S == [d.session EXCEPT ![x] = row]
           N == MoreCreated(d, "session", u, at)
           L == [d.ledger EXCEPT !["session"] = [@ EXCEPT ![u] = N]]
<1>1. f = [d EXCEPT !.session = S]
  BY DEF RowPut, Database
<1>2. f.ledger = d.ledger
  BY <1>1 DEF Database
<1>3. MoreCreated(f, "session", u, at) = N
  BY <1>2 DEF MoreCreated, Created
<1>4. WithCreation(f, "session", u, at) = [f EXCEPT !.ledger = L]
  BY <1>2, <1>3 DEF WithCreation, MoreCreated
<1>5. g = [d EXCEPT !.ledger = L]
  BY DEF WithCreation, MoreCreated
<1> HIDE DEF N, L
<1>6. g.session = d.session
  BY <1>5 DEF Database
<1>7. h = [g EXCEPT !.session = S]
  BY <1>6 DEF RowPut
<1> HIDE DEF S
<1>8. WithCreation(f, "session", u, at) = [[d EXCEPT !.session = S] EXCEPT !.ledger = L]
  BY ONLY <1>1, <1>4
<1>9. h = [[d EXCEPT !.ledger = L] EXCEPT !.session = S]
  BY ONLY <1>5, <1>7
<1> QED
  BY ONLY <1>8, <1>9, d \in Database DEF Database

\* issueSession
LEMMA IssueGoes ==
  ASSUME NEW b, NEW d, Sound(b, d, {}, {}), NEW r, r.item \in SignIn,
         r.session \in Session,
         r.seen.clock \in Nat, Fresh(d, r.seen.clock), r.seen.clock <= d.clock,
         MayIssue(d, r), NEW e, e = Issued(d, r)
  PROVE  Goes(b, d, e)
<1> DEFINE t == r.item
           u == d.oauth[t].user
           x == r.session
           at == r.seen.clock
           row == [of |-> u, live |-> TRUE, via |-> t, at |-> at, end |-> at + SessionTicks]
<1>1. /\ d \in Database /\ d.clock \in Nat /\ Active(d, u) /\ u \in Account
      /\ WithinBudget(d, "session", u, at) /\ d.session[x].of = Nobody
  BY DEF Sound, Database, MayIssue, SessionAllowed, Active
<1>2. PICK f : f = [d EXCEPT !.oauth[t] = [d.oauth[t] EXCEPT !.state = "done"]]
  OBVIOUS
<1>3. PICK g : g = WithCreation(f, "session", u, at)
  OBVIOUS
<1>4. PICK h : h = [g EXCEPT !.session[x] = row]
  OBVIOUS
<1>5. Goes(b, d, f)
  <2>1. [d.oauth[t] EXCEPT !.state = "done"] \in OAuth
    <3>1. d.oauth[t] \in OAuth
      BY <1>1 DEF Database
    <3> QED
      BY <3>1 DEF OAuth
  <2> QED
    BY ONLY <1>2, <2>1, RowGoes, Sound(b, d, {}, {}), t \in SignIn
<1>6. /\ f \in Database /\ Sound(b, f, {}, {}) /\ f.clock = d.clock
      /\ f.status = d.status /\ f.session = d.session /\ f.ledger = d.ledger
  <2>1. f.status = d.status /\ f.session = d.session /\ f.ledger = d.ledger
    BY <1>1, <1>2 DEF Database
  <2> QED
    BY <1>5, <2>1 DEF Goes, Reached, Sound
<1>7. CreationAdded(f, "session", u, at, g)
  <2>1. u \in AccountOrNobody /\ at \in Int
    BY <1>1 DEF AccountOrNobody
  <2> QED
    BY <1>3, <1>6, <2>1, WithCreationIs
<1>8. Sound(b, g, {}, {}) /\ Later(f, g)
  <2>1. f.clock - Grace <= at /\ at <= f.clock /\ at \in Int
    BY <1>1, <1>6, LimitsAssumption, SMTT(30) DEF Fresh
  <2>2. WithinBudget(f, "session", u, at)
    BY <1>1, <1>6 DEF WithinBudget, CreatedThatDay, CreatedSince, Created, TimeOf
  <2>3. ~ Deleted(f, u) /\ u \in AccountOrNobody /\ "session" \in Budgets \cup {"account"}
        /\ u \in Account
    BY <1>1, <1>6 DEF Active, Deleted, AccountOrNobody, Budgets
  <2> HIDE DEF u
  <2> QED
    BY <1>6, <1>7, <2>1, <2>2, <2>3, CreationKeeps
<1>9. g \in Database /\ g.clock = f.clock /\ g.status = f.status /\ g.session = f.session
  BY <1>7 DEF CreationAdded, KeepsAccounts, KeepsSessions
<1>10. e = Trimmed(OlderReplaced(h, x, u, at), u, at)
  <2>1. PICK k : k = [f EXCEPT !.session[x] = row]
    OBVIOUS
  <2>2. h = WithCreation(k, "session", u, at)
    <3> HIDE DEF row, u, at
    <3>1. f \in Database /\ RowPut(f, x, row, k) /\ RowPut(g, x, row, h)
      BY <1>4, <1>6, <2>1 DEF RowPut
    <3> QED
      BY ONLY <1>3, <3>1, SessionThenRow
  <2>3. f = [d EXCEPT !.oauth[t].state = "done"]
    BY <1>2
  <2> QED
    BY <2>1, <2>2, <2>3 DEF Issued, WithSession
<1>11. Sound(b, e, {}, {}) /\ Later(g, e) /\ e.clock = g.clock
  <2>1. Active(g, u) /\ g.session[x].of = Nobody /\ at \in Int /\ at <= g.clock /\ u \in Account
    BY <1>1, <1>6, <1>9 DEF Active
  <2> HIDE DEF u
  <2> QED
    BY ONLY <1>4, <1>8, <1>10, <2>1, IssuedKeeps, t \in SignIn, x \in Session
<1>12. Reached(b, f, g, {}, {})
  BY <1>6, <1>8, <1>9 DEF Reached
<1>13. Reached(b, d, g, {}, {})
  BY <1>5, <1>12, GoesThen DEF Goes
<1> QED
  BY <1>11, <1>13, ReachedOn DEF Goes

-----------------------------------------------------------------------------
(* Every behaviour. *)

Inv ==
  /\ TypeOK
  /\ Sound(scope.start, db, {}, {})
  /\ Later(seen, db) /\ seen.clock <= db.clock

\* A scope that a behaviour may have.
LEMMA ScopeIs ==
  ASSUME NEW s \in Scopes
  PROVE  /\ Consistent(s.start) /\ s.depth \in Nat /\ s.circuits \subseteq Circuit
         /\ Sound(s.start, s.start, {}, {})
<1>1. Consistent(s.start) /\ s.depth \in Nat /\ s.circuits \subseteq Circuit
  BY ScopesAssumption
<1>2. Budgeted(s.start, s.start)
  <2>1. ASSUME NEW what \in Budgets, NEW u \in Account
        PROVE  WithinBudgetSince(s.start, s.start, what, u)
    <3>1. s.start.ledger[what][u].at \in Seq(Int)
      BY <1>1 DEF Consistent, Database, Ledger, Creations, Budgets, AccountOrNobody
    <3> QED
      BY <3>1 DEF WithinBudgetSince
  <2> QED
    BY <2>1 DEF Budgeted
<1> QED
  BY <1>1, <1>2, SoundIs

\* Where behaviours start.
LEMMA InitInv ==
  ASSUME Init
  PROVE  Inv
<1>1. scope \in Scopes /\ db = scope.start /\ seen = db /\ done = 0
  BY DEF Init
<1>2. scope.depth \in Nat /\ Sound(scope.start, scope.start, {}, {})
  BY <1>1, ScopeIs
<1>3. db \in Database /\ db.clock \in Nat
  BY <1>1, <1>2 DEF Sound, Database
<1>4. Later(seen, db) /\ seen.clock <= db.clock
  BY <1>1, <1>3, LaterSame
<1> QED
  BY <1>1, <1>2, <1>3, <1>4 DEF Inv, TypeOK

\* A handler commits one batch, which keeps the invariant.
Commits ==
  /\ Goes(scope.start, db, db')
  /\ done' \in 0..scope.depth /\ UNCHANGED <<seen, scope>>

\* What a handler has read.
LEMMA ViewIs ==
  ASSUME Inv, NEW d \in Views
  PROVE  /\ d \in Database /\ d.clock \in Nat /\ Fresh(db, d.clock)
         /\ d.clock <= db.clock
<1>1. db \in Database /\ seen \in Database /\ seen.clock <= db.clock
  BY DEF Inv, TypeOK
<1>2. db.clock \in Nat /\ seen.clock \in Nat /\ Grace \in Nat
  BY <1>1, LimitsAssumption DEF Database
<1>3. CASE d = db
  BY <1>1, <1>2, <1>3 DEF Fresh
<1>4. CASE d = seen /\ Fresh(db, d.clock)
  BY <1>1, <1>2, <1>4
<1> QED
  BY <1>3, <1>4 DEF Views

\* What is done to the access of a workspace.
LEMMA MembershipGoes ==
  ASSUME Inv, NEW d \in Views, NEW r \in MembershipRequests(d), Membership(r)
  PROVE  Commits
<1>1. /\ MembershipRequest(r) /\ r.seen = d /\ d \in Database /\ d.clock \in Nat
      /\ Fresh(db, d.clock) /\ d.clock <= db.clock
  BY MembershipRequestIs, ViewIs
<1>2. Sound(scope.start, db, {}, {}) /\ scope.depth \in Nat
  BY ScopeIs DEF Inv, TypeOK
<1>3. ASSUME NEW after, Commit(after), Goes(scope.start, db, after)
      PROVE  Commits
  BY <1>2, <1>3 DEF Commit, Commits, Inv, TypeOK
<1>4. CASE Initialize(r)
  BY <1>1, <1>2, <1>3, <1>4, InitializeGoes DEF Initialize, MembershipRequest
<1>5. CASE CreateLink(r)
  BY <1>1, <1>2, <1>3, <1>5, CreateLinkGoes DEF CreateLink, MembershipRequest
<1>6. CASE ChangeRole(r)
  BY <1>1, <1>2, <1>3, <1>6, ChangeRoleGoes DEF ChangeRole, MembershipRequest
<1>7. CASE RemoveMember(r)
  BY <1>1, <1>2, <1>3, <1>7, RemoveMemberGoes DEF RemoveMember, MembershipRequest
<1>8. CASE Transfer(r)
  BY <1>1, <1>2, <1>3, <1>8, TransferGoes DEF Transfer, MembershipRequest
<1>9. CASE TakeOwnership(r)
  BY <1>1, <1>2, <1>3, <1>9, TakeOwnershipGoes DEF TakeOwnership, MembershipRequest
<1>10. CASE RevokeLink(r)
  BY <1>1, <1>2, <1>3, <1>10, RevokeLinkGoes DEF RevokeLink, MembershipRequest
<1>11. CASE DeleteLink(r)
  BY <1>1, <1>2, <1>3, <1>11, DeleteLinkGoes DEF DeleteLink, MembershipRequest
<1>12. CASE Redeem(r)
  BY <1>1, <1>2, <1>3, <1>12, RedeemGoes DEF Redeem, MembershipRequest
<1>13. CASE DeleteWorkspace(r)
  BY <1>1, <1>2, <1>3, <1>13, DeleteWorkspaceGoes DEF DeleteWorkspace, MembershipRequest
<1>14. CASE Store(r)
  BY <1>1, <1>2, <1>3, <1>14, StoreGoes DEF Store, MembershipRequest
<1> QED
  BY <1>4, <1>5, <1>6, <1>7, <1>8, <1>9, <1>10, <1>11, <1>12, <1>13, <1>14 DEF Membership

\* What is done to an account, or to the installation.
LEMMA GovernanceGoes ==
  ASSUME Inv, NEW d \in Views, NEW r \in AccountRequests(d), Governance(r)
  PROVE  Commits
<1>1. AccountRequest(r) /\ r.seen = d /\ d \in Database
  BY AccountRequestIs, ViewIs
<1>2. /\ Sound(scope.start, db, {}, {}) /\ scope.depth \in Nat
      /\ scope.circuits \subseteq Circuit
  BY ScopeIs DEF Inv, TypeOK
<1>3. ASSUME NEW after, Commit(after), Goes(scope.start, db, after)
      PROVE  Commits
  BY <1>2, <1>3 DEF Commit, Commits, Inv, TypeOK
<1>4. ASSUME NEW u \in Account, NEW yes \in BOOLEAN,
             Commit(SessionsRevoked(WithAdmin(db, u, yes), SessionsOf(db, u)))
      PROVE  Commits
  <2>1. SessionsOf(db, u) \in SUBSET Session
    BY DEF SessionsOf
  <2> QED
    BY <1>2, <1>3, <1>4, <2>1, RoleChangeGoes
<1>5. CASE Promote(r)
  BY <1>1, <1>4, <1>5 DEF Promote, Promoted, AccountRequest
<1>6. CASE Demote(r)
  BY <1>1, <1>4, <1>6 DEF Demote, Demoted, AccountRequest
<1>7. CASE Disable(r)
  BY <1>1, <1>2, <1>3, <1>7, DisableGoes DEF Disable, AccountRequest
<1>8. CASE Enable(r)
  BY <1>1, <1>2, <1>3, <1>8, EnableGoes DEF Enable, AccountRequest
<1>9. CASE Ban(r)
  BY <1>1, <1>2, <1>3, <1>9, BanGoes DEF Ban, AccountRequest
<1>10. CASE Lift(r)
  BY <1>1, <1>2, <1>3, <1>10, LiftGoes DEF Lift, AccountRequest
<1>11. CASE Recover(r)
  BY <1>1, <1>2, <1>3, <1>11, RecoverGoes DEF Recover, AccountRequest
<1>12. CASE RevokeSession(r)
  BY <1>1, <1>2, <1>3, <1>12, RevokeSessionGoes DEF RevokeSession, AccountRequest
<1>13. CASE Unlink(r)
  BY <1>1, <1>2, <1>3, <1>13, UnlinkGoes DEF Unlink, AccountRequest
<1>14. CASE DeleteAccount(r)
  BY <1>1, <1>2, <1>3, <1>14, DeleteAccountGoes DEF DeleteAccount, AccountRequest
<1>15. CASE SetCircuit(r)
  BY <1>1, <1>2, <1>3, <1>15, CircuitGoes DEF SetCircuit, AccountRequest
<1>16. CASE SetLimit(r)
  <2>1. r.limit \in Nat
    <3>1. r.limit \in {0, 1}
      BY <1>1, <1>16 DEF SetLimit, AccountRequest
    <3> QED
      BY ONLY <3>1
  <2> QED
    BY <1>2, <1>3, <1>16, <2>1, LimitGoes DEF SetLimit
<1> QED
  BY <1>5, <1>6, <1>7, <1>8, <1>9, <1>10, <1>11, <1>12, <1>13, <1>14, <1>15, <1>16
     DEF Governance

\* What is done to sign in.
LEMMA SigningInGoes ==
  ASSUME Inv, NEW d \in Views, NEW r \in SignInRequests(d), SigningIn(r)
  PROVE  Commits
<1>1. /\ SignInRequest(r) /\ r.seen = d /\ d \in Database /\ d.clock \in Nat
      /\ Fresh(db, d.clock) /\ d.clock <= db.clock
  BY SignInRequestIs, ViewIs
<1>2. Sound(scope.start, db, {}, {}) /\ scope.depth \in Nat
  BY ScopeIs DEF Inv, TypeOK
<1>3. ASSUME NEW after, Commit(after), Goes(scope.start, db, after)
      PROVE  Commits
  BY <1>2, <1>3 DEF Commit, Commits, Inv, TypeOK
<1>4. CASE Bootstrap(r)
  BY <1>1, <1>2, <1>3, <1>4, BootstrapGoes DEF Bootstrap, SignInRequest
<1>5. CASE Begin(r)
  BY <1>1, <1>2, <1>3, <1>5, BeginGoes DEF Begin, SignInRequest
<1>6. CASE Claim(r)
  BY <1>1, <1>2, <1>3, <1>6, ClaimGoes DEF Claim, SignInRequest
<1>7. CASE Recognize(r)
  BY <1>1, <1>2, <1>3, <1>7, RecognizeGoes DEF Recognize, SignInRequest
<1>8. CASE LinkIdentity(r)
  BY <1>1, <1>2, <1>3, <1>8, LinkIdentityGoes DEF LinkIdentity, SignInRequest
<1>9. CASE Enroll(r)
  BY <1>1, <1>2, <1>3, <1>9, EnrollGoes DEF Enroll, SignInRequest
<1>10. CASE Issue(r)
  BY <1>1, <1>2, <1>3, <1>10, IssueGoes DEF Issue, SignInRequest
<1> QED
  BY <1>4, <1>5, <1>6, <1>7, <1>8, <1>9, <1>10 DEF SigningIn

\* A step keeps the invariant.
LEMMA NextInv ==
  ASSUME Inv, [Next]_vars
  PROVE  Inv'
<1>1. /\ db \in Database /\ seen \in Database /\ scope \in Scopes
      /\ done \in 0..scope.depth /\ Sound(scope.start, db, {}, {})
      /\ Later(seen, db) /\ seen.clock <= db.clock
  BY DEF Inv, TypeOK
<1>2. db.clock \in Nat /\ seen.clock \in Nat
  BY <1>1 DEF Database
<1>3. ASSUME Goes(scope.start, db, db'), done' \in 0..scope.depth, UNCHANGED <<seen, scope>>
      PROVE  Inv'
  <2>1. Sound(scope.start, db', {}, {}) /\ db' \in Database /\ Later(db, db')
        /\ db'.clock = db.clock
    BY <1>3 DEF Goes, Reached, Sound
  <2>2. Later(seen, db')
    BY <1>1, <2>1, LaterOn
  <2> QED
    BY <1>1, <1>3, <2>1, <2>2 DEF Inv, TypeOK
<1>4. CASE Serve
  <2>1. Commits
    BY <1>4, MembershipGoes, GovernanceGoes, SigningInGoes DEF Serve
  <2> QED
    BY <1>3, <2>1 DEF Commits
<1>5. CASE Look
  <2>1. Later(db, db)
    BY <1>1, LaterSame
  <2> QED
    BY <1>1, <1>2, <1>5, <2>1 DEF Look, Inv, TypeOK
<1>6. CASE Tick
  <2>1. Sound(scope.start, db', {}, {}) /\ Later(db, db') /\ db'.clock = db.clock + 1
    BY <1>1, <1>6, TickKeeps DEF Tick
  <2>2. db' \in Database
    BY <2>1 DEF Sound
  <2>3. Later(seen, db')
    BY <1>1, <2>1, <2>2, LaterOn
  <2>4. seen.clock <= db'.clock
    BY <1>1, <1>2, <2>1
  <2> QED
    BY <1>1, <1>6, <2>1, <2>2, <2>3, <2>4 DEF Tick, Inv, TypeOK
<1>7. CASE Clean
  BY <1>1, <1>3, <1>7, CleanedKeeps DEF Clean
<1>8. CASE ExpireLink
  BY <1>1, <1>3, <1>8, ExpiryKeeps DEF ExpireLink
<1>9. CASE ExpireSignIn
  BY <1>1, <1>3, <1>9, LateGoes DEF ExpireSignIn
<1>10. CASE UNCHANGED vars
  BY <1>1, <1>10 DEF vars, Inv, TypeOK
<1> QED
  BY <1>4, <1>5, <1>6, <1>7, <1>8, <1>9, <1>10 DEF Next

\* Every database that the handlers can bring about is consistent, and later
\* than what a slow handler has read.
THEOREM AccessInvariant == Spec => []Inv
<1>1. Init => Inv
  BY InitInv
<1>2. Inv /\ [Next]_vars => Inv'
  BY NextInv
<1> QED
  BY <1>1, <1>2, PTL DEF Spec

\* The variables have their types.
THEOREM AccessTypes == Spec => []TypeOK
<1>1. Inv => TypeOK
  BY DEF Inv
<1> QED
  BY <1>1, AccessInvariant, PTL

\* A live workspace keeps an active owner: no order in which owners, members,
\* administrators and deletions commit takes away the last one.
THEOREM OwnersRemain == Spec => []OwnerRemains
<1>1. Inv => OwnerRemains
  BY DEF Inv, Sound, OwnedBut, OwnerRemains, Owned
<1> QED
  BY <1>1, AccessInvariant, PTL

\* A revision that a handler read and finds again stands for what it read: the
\* access of the workspace, the account, its memberships.
THEOREM RevisionsAreEnough == Spec => []RevisionsTell
<1>1. Inv => RevisionsTell
  BY DEF Inv, Later, LaterAccess, LaterAccount, LaterMember, RevisionsTell
<1> QED
  BY <1>1, AccessInvariant, PTL

\* An account that is not active holds no live session and no usable link, a
\* deleted one nothing at all.
THEOREM StoppedAccountsHoldNothing == Spec => []InactiveHoldNothing
<1>1. Inv => InactiveHoldNothing
  BY DEF Inv, Sound, InactiveBut, InactiveHoldNothing
<1> QED
  BY <1>1, AccessInvariant, PTL

\* Live workspaces are charged to one account within its limits, and what is not
\* live has neither members nor links.
THEOREM CustodyIsCharged == Spec => []WorkspacesAccountedFor
<1>1. Inv => WorkspacesAccountedFor
  BY SMTT(30) DEF Inv, Sound, AccountedBut, Limited, WorkspacesAccountedFor
<1> QED
  BY <1>1, AccessInvariant, PTL

\* No account creates more than its budgets on any day or in any window, though
\* the rows that the triggers count are forgotten in time.
THEOREM BudgetsAreKept == Spec => []BudgetsHold
<1>1. Inv => BudgetsHold
  BY DEF Inv, Sound, Budgeted, Budgets, WithinBudgetSince, RowsWithin, DayRows,
         WindowRows, BudgetsHold
<1> QED
  BY <1>1, AccessInvariant, PTL

\* An account has at most SessionLimit live sessions.
THEOREM SessionsAreBounded == Spec => []SessionsBounded
<1>1. Inv => SessionsBounded
  BY DEF Inv, Sound, SessionsFew, SessionsBounded
<1> QED
  BY <1>1, AccessInvariant, PTL

\* After the time that a refusal names, the same budgets do not refuse.
THEOREM WaitingHelps == Spec => []RetryAfterIsEnough
<1>1. Inv => RetryAfterIsEnough
  <2> SUFFICES ASSUME Inv, NEW u \in Account
               PROVE  LET later == db.clock + RetryAfter(db, u, db.clock) IN
                      DayWait(db, u, later) = {} /\ RollingWait(db, u, later) = {}
    BY DEF RetryAfterIsEnough
  <2>1. db \in Database /\ Remembered(db, "workspace", u)
    BY DEF Inv, Sound, Remembers, Budgets
  <2>2. db.clock \in Int /\ db.ledger["workspace"][u].at \in Seq(Int)
    BY <2>1 DEF Database, Ledger, Creations, AccountOrNobody
  <2>3. RowsOf(db, "workspace", u)
    BY <2>1, <2>2 DEF Remembered, RowsOf
  <2>4. \A n \in Created(db, "workspace", u) : TimeOf(db, "workspace", u, n) <= db.clock
    BY <2>1 DEF Remembered, Created, TimeOf
  <2> QED
    BY <2>2, <2>3, <2>4, WaitIsEnough
<1> QED
  BY <1>1, AccessInvariant, PTL

-----------------------------------------------------------------------------
\* From d to e nobody becomes a member, no account, workspace, link or identity
\* is added, no snapshot grows and no link is used; and the accounts but those
\* of X stay active administrators if they were.
Modest(d, e, X) ==
  /\ \A w \in Workspace, u \in Account :
       d.role[w][u] = "none" => e.role[w][u] = "none"
  /\ \A i \in Identity : e.identity[i] \in {d.identity[i], Nobody}
  /\ \A u \in Account : d.status[u] = "absent" => e.status[u] = "absent"
  /\ \A u \in Account \ X : ActiveAdmin(d, u) => ActiveAdmin(e, u)
  /\ \A w \in Workspace :
       /\ d.phase[w] = "absent" => e.phase[w] = "absent"
       /\ e.bytes[w] <= d.bytes[w]
  /\ \A l \in Link :
       /\ d.link[l].state = "absent" => e.link[l].state = "absent"
       /\ e.link[l].state = "used" => d.link[l].state = "used"

\* One modest statement after another.
LEMMA ModestOn ==
  ASSUME NEW d \in Database, NEW e \in Database, NEW f \in Database, NEW X,
         Modest(d, e, X), Modest(e, f, X)
  PROVE  Modest(d, f, X)
<1>1. \A w \in Workspace : f.bytes[w] <= d.bytes[w]
  <2>1. ASSUME NEW w \in Workspace PROVE f.bytes[w] <= d.bytes[w]
    <3>1. d.bytes[w] \in Nat /\ e.bytes[w] \in Nat /\ f.bytes[w] \in Nat
      BY DEF Database
    <3>2. e.bytes[w] <= d.bytes[w] /\ f.bytes[w] <= e.bytes[w]
      BY DEF Modest
    <3> QED
      BY ONLY <3>1, <3>2
  <2> QED
    BY <2>1
<1>2. \A i \in Identity : f.identity[i] \in {d.identity[i], Nobody}
  BY DEF Modest
<1> QED
  BY <1>1, <1>2 DEF Modest

\* What leaves these columns alone.
LEMMA ModestSame ==
  ASSUME NEW d \in Database, NEW e, NEW X, KeepsAccounts(d, e), e.role = d.role,
         KeepsWorkspaces(d, e), e.link = d.link
  PROVE  Modest(d, e, X)
<1>1. \A w \in Workspace : d.bytes[w] <= d.bytes[w]
  BY DEF Database
<1> QED
  BY <1>1 DEF Modest, KeepsAccounts, KeepsWorkspaces, ActiveAdmin, Active

-----------------------------------------------------------------------------
(* Statements. *)

\* A member gets another role, or goes.
LEMMA RoleModest ==
  ASSUME NEW d \in Database, NEW e, NEW X, NEW w \in Workspace, NEW u \in Account,
         NEW r, RoleSet(d, w, u, r, e), d.role[w][u] # "none" \/ r = "none"
  PROVE  Modest(d, e, X)
<1>1. d.role \in [Workspace -> [Account -> MemberRole]]
      /\ e.role = [d.role EXCEPT ![w] = [@ EXCEPT ![u] = r]]
  BY DEF Database, RoleSet
<1>2. \A x \in Workspace, v \in Account :
        d.role[x][v] = "none" => e.role[x][v] = "none"
  BY <1>1
<1>3. \A x \in Workspace : d.bytes[x] <= d.bytes[x]
  BY DEF Database
<1> QED
  BY <1>2, <1>3 DEF Modest, RoleSet, KeepsAccounts, KeepsWorkspaces, ActiveAdmin, Active

\* An account that exists gets another status.
LEMMA StatusModest ==
  ASSUME NEW d \in Database, NEW e, NEW X, NEW u \in Account, NEW s,
         StatusSet(d, u, s, e), d.status[u] # "absent",
         s = "active" \/ u \in X \/ ~ d.admin[u]
  PROVE  Modest(d, e, X)
<1>1. /\ d.status \in [Account -> Status] /\ e.status = [d.status EXCEPT ![u] = s]
      /\ e.admin = d.admin
  BY DEF Database, StatusSet
<1>2. /\ \A v \in Account : d.status[v] = "absent" => e.status[v] = "absent"
      /\ \A v \in Account \ X : ActiveAdmin(d, v) => ActiveAdmin(e, v)
  BY <1>1 DEF ActiveAdmin, Active
<1>3. \A x \in Workspace : d.bytes[x] <= d.bytes[x]
  BY DEF Database
<1> QED
  BY <1>2, <1>3 DEF Modest, StatusSet, KeepsWorkspaces

\* An account becomes an administrator, or stops being one.
LEMMA AdminModest ==
  ASSUME NEW d \in Database, NEW e, NEW X, NEW u \in Account, NEW yes \in BOOLEAN,
         AdminSet(d, u, yes, e), yes \/ u \in X
  PROVE  Modest(d, e, X)
<1>1. /\ d.admin \in [Account -> BOOLEAN] /\ e.admin = [d.admin EXCEPT ![u] = yes]
      /\ e.status = d.status
  BY DEF Database, AdminSet
<1>2. \A v \in Account \ X : ActiveAdmin(d, v) => ActiveAdmin(e, v)
  BY <1>1 DEF ActiveAdmin, Active
<1>3. \A x \in Workspace : d.bytes[x] <= d.bytes[x]
  BY DEF Database
<1> QED
  BY <1>2, <1>3 DEF Modest, AdminSet, KeepsMembers, KeepsWorkspaces, KeepsLinks

\* An account loses an identity.
LEMMA IdentityModest ==
  ASSUME NEW d \in Database, NEW e, NEW X, NEW i, NEW u,
         IdentitySet(d, i, Nobody, u, e)
  PROVE  Modest(d, e, X)
<1>1. /\ d.identity \in [Identity -> AccountOrNobody]
      /\ e.identity = [d.identity EXCEPT ![i] = Nobody]
  BY DEF Database, IdentitySet
<1>2. \A j \in Identity : e.identity[j] \in {d.identity[j], Nobody}
  BY <1>1
<1>3. \A x \in Workspace : d.bytes[x] <= d.bytes[x]
  BY DEF Database
<1> QED
  BY <1>2, <1>3 DEF Modest, IdentitySet, KeepsMembers, KeepsWorkspaces, KeepsLinks,
                    ActiveAdmin, Active

\* An account loses all its identities.
LEMMA IdentitiesModest ==
  ASSUME NEW d \in Database, NEW e, NEW X, NEW u, IdentitiesGone(d, u, e)
  PROVE  Modest(d, e, X)
<1>1. \A j \in Identity : e.identity[j] \in {d.identity[j], Nobody}
  BY DEF IdentitiesGone
<1>2. \A x \in Workspace : d.bytes[x] <= d.bytes[x]
  BY DEF Database
<1> QED
  BY <1>1, <1>2 DEF Modest, IdentitiesGone, KeepsMembers, KeepsWorkspaces, KeepsLinks,
                    ActiveAdmin, Active

\* Links that exist are revoked or deleted.
LEMMA LinksModest ==
  ASSUME NEW d \in Database, NEW L \in SUBSET Link, NEW s \in {"revoked", "gone"},
         \A l \in L : d.link[l].state # "absent",
         NEW e, e = WithLinkState(d, L, s), NEW X
  PROVE  e \in Database /\ LinksSet(d, L, s, e) /\ Modest(d, e, X)
<1>1. LinksSet(d, L, s, e)
  BY WithLinkStateIs DEF LinkState
<1>2. ASSUME NEW l \in Link
      PROVE  /\ d.link[l].state = "absent" => e.link[l].state = "absent"
             /\ e.link[l].state = "used" => d.link[l].state = "used"
  <2>1. d.link[l] \in GuestLink
    BY DEF Database
  <2>2. e.link[l] = IF l \in L THEN [d.link[l] EXCEPT !.state = s] ELSE d.link[l]
    BY <1>1 DEF LinksSet
  <2>3. l \in L => e.link[l].state = s
    BY <2>1, <2>2 DEF GuestLink
  <2> QED
    BY <2>2, <2>3
<1>3. \A x \in Workspace : d.bytes[x] <= d.bytes[x]
  BY DEF Database
<1> QED
  BY <1>1, <1>2, <1>3 DEF Modest, LinksSet, KeepsAccounts, KeepsMembers, KeepsWorkspaces,
                          ActiveAdmin, Active

\* The links of an account that could be used are revoked.
LEMMA LinksRevokedModest ==
  ASSUME NEW d \in Database, NEW u, NEW e, e = LinksRevoked(d, u), NEW X
  PROVE  /\ e \in Database /\ Modest(d, e, X)
         /\ KeepsAccounts(d, e) /\ KeepsSessions(d, e)
<1> DEFINE L == {l \in Link : d.link[l].by = u /\ Usable(d, l)}
<1>1. /\ e = WithLinkState(d, L, "revoked") /\ L \in SUBSET Link
      /\ \A l \in L : d.link[l].state # "absent"
  BY DEF LinksRevoked, Usable
<1> HIDE DEF L
<1> QED
  BY <1>1, LinksModest DEF LinksSet

\* Sessions end.
LEMMA SessionsModest ==
  ASSUME NEW d \in Database, NEW S \in SUBSET Session, NEW e,
         e = SessionsRevoked(d, S), NEW X
  PROVE  e \in Database /\ Modest(d, e, X) /\ KeepsAccounts(d, e)
<1>1. SessionsEnd(d, S, e)
  BY SessionsRevokedIs
<1> QED
  BY <1>1, ModestSame DEF SessionsEnd, KeepsMembers, KeepsLinks

-----------------------------------------------------------------------------
(* Operations that give nobody anything.  Only a demotion and a stop may     *)
(* take an administrator away.                                               *)

\* What is in the session, transaction, digest or installation columns.
LEMMA RowsModest ==
  ASSUME NEW d \in Database, NEW e, NEW X, e.status = d.status, e.admin = d.admin,
         e.identity = d.identity, e.role = d.role, e.phase = d.phase,
         e.bytes = d.bytes, e.link = d.link
  PROVE  Modest(d, e, X)
<1>1. \A w \in Workspace : d.bytes[w] <= d.bytes[w]
  BY DEF Database
<1> QED
  BY <1>1 DEF Modest, ActiveAdmin, Active

\* transferWorkspaceOwnership: both were members.
LEMMA TransferModest ==
  ASSUME NEW d \in Database, NEW r, r.at \in Workspace, r.by \in Account,
         r.of \in Account, MayTransfer(d, r), NEW e, e = Transferred(d, r)
  PROVE  Modest(d, e, {})
<1>1. PICK f : f = WithRole(d, r.at, r.by, "editor")
  OBVIOUS
<1>2. RoleSet(d, r.at, r.by, "editor", f)
  BY <1>1, WithRoleIs DEF MemberRole
<1>3. f \in Database /\ Modest(d, f, {})
  <2>1. d.role[r.at][r.by] # "none"
    BY DEF MayTransfer, OwnerAsks, Owns
  <2>2. f \in Database
    BY <1>2 DEF RoleSet
  <2> QED
    BY <1>2, <2>1, <2>2, RoleModest
<1>4. RoleSet(f, r.at, r.of, "owner", e)
  <2>1. e = WithRole(f, r.at, r.of, "owner") /\ "owner" \in MemberRole
    BY <1>1 DEF Transferred, MemberRole
  <2> QED
    BY <1>3, <2>1, WithRoleIs
<1>5. f.role[r.at][r.of] # "none"
  <2>1. /\ d.role \in [Workspace -> [Account -> MemberRole]]
        /\ d.role[r.at][r.of] # "none"
        /\ f.role = [d.role EXCEPT ![r.at] = [@ EXCEPT ![r.by] = "editor"]]
    BY <1>2 DEF Database, MayTransfer, RoleSet
  <2>2. f.role[r.at] = [d.role[r.at] EXCEPT ![r.by] = "editor"]
    BY ONLY <2>1, r.at \in Workspace
  <2>3. f.role[r.at][r.of] = IF r.of = r.by THEN "editor" ELSE d.role[r.at][r.of]
    BY <2>1, <2>2
  <2> QED
    BY <2>1, <2>3
<1>6. e \in Database /\ Modest(f, e, {})
  <2>1. e \in Database
    BY <1>4 DEF RoleSet
  <2> QED
    BY <1>3, <1>4, <1>5, <2>1, RoleModest
<1> QED
  BY <1>3, <1>6, ModestOn

\* deleteServerWorkspace, deleteAdminWorkspace
LEMMA DeleteWorkspaceModest ==
  ASSUME NEW d \in Database, NEW r, r.at \in Workspace,
         MayDeleteWorkspace(d, r), NEW e, e = WorkspaceDeleted(d, r)
  PROVE  Modest(d, e, {})
<1> DEFINE w == r.at
           L == LinksOf(d, w)
<1>1. PICK f : f = WithLinkState(d, L, "gone")
  OBVIOUS
<1>2. f \in Database /\ LinksSet(d, L, "gone", f) /\ Modest(d, f, {})
  <2>1. L \in SUBSET Link /\ \A l \in L : d.link[l].state # "absent"
    BY DEF LinksOf
  <2> HIDE DEF L
  <2> QED
    BY <1>1, <2>1, LinksModest
<1>3. WorkspaceGone(f, w, e)
  <2>1. Members(f, w) = Members(d, w)
    BY <1>2 DEF Members, LinksSet, KeepsMembers
  <2>2. e = [f EXCEPT
               !.phase[w] = "deleted", !.custodian[w] = Nobody, !.bytes[w] = 0,
               !.role[w] = [u \in Account |-> "none"],
               !.membershipRevision =
                 [u \in Account |-> @[u] + IF u \in Members(f, w) THEN 1 ELSE 0],
               !.access[w] = @ + Cardinality(Members(f, w)) + 1]
    BY <1>1, <2>1 DEF WorkspaceDeleted
  <2> QED
    BY ONLY <1>2, <2>2, WorkspaceGoneIs, w \in Workspace
<1>4. e \in Database /\ Modest(f, e, {})
  <2>1. /\ f.role \in [Workspace -> [Account -> MemberRole]]
        /\ f.phase \in [Workspace -> Phase] /\ f.bytes \in [Workspace -> Nat]
    BY <1>2 DEF Database
  <2>2. f.phase[w] = "live"
    BY <1>2 DEF LinksSet, KeepsWorkspaces, MayDeleteWorkspace, OwnerDeletes, AdminDeletes,
                OwnerAsks, AdminAsks, Live
  <2>3. /\ e.role = [f.role EXCEPT ![w] = [u \in Account |-> "none"]]
        /\ e.phase = [f.phase EXCEPT ![w] = "deleted"]
        /\ e.bytes = [f.bytes EXCEPT ![w] = 0]
    BY <1>3 DEF WorkspaceGone
  <2>4. \A x \in Workspace, u \in Account : f.role[x][u] = "none" => e.role[x][u] = "none"
    BY <2>1, <2>3
  <2>5. \A x \in Workspace : f.phase[x] = "absent" => e.phase[x] = "absent"
    BY <2>1, <2>2, <2>3
  <2>6. \A x \in Workspace : e.bytes[x] <= f.bytes[x]
    BY <2>1, <2>3
  <2> QED
    BY <1>3, <2>4, <2>5, <2>6 DEF WorkspaceGone, Modest, KeepsAccounts, ActiveAdmin, Active
<1> QED
  BY <1>2, <1>4, ModestOn

\* The global role changes, and sessions end.
LEMMA RoleChangeModest ==
  ASSUME NEW d \in Database, NEW u \in Account, NEW yes \in BOOLEAN,
         NEW S \in SUBSET Session, NEW X, yes \/ u \in X,
         NEW e, e = SessionsRevoked(WithAdmin(d, u, yes), S)
  PROVE  Modest(d, e, X)
<1>1. PICK f : f = WithAdmin(d, u, yes)
  OBVIOUS
<1>2. AdminSet(d, u, yes, f)
  BY <1>1, WithAdminIs
<1>3. f \in Database /\ Modest(d, f, X)
  BY <1>2, AdminModest DEF AdminSet
<1>4. e \in Database /\ Modest(f, e, X)
  BY <1>1, <1>3, SessionsModest
<1> QED
  BY <1>3, <1>4, ModestOn

\* An account that exists is stopped: its links and sessions end.
LEMMA StopModest ==
  ASSUME NEW d \in Database, NEW u \in Account, NEW s \in Status, NEW X,
         d.status[u] # "absent", u \in X \/ ~ d.admin[u],
         NEW S \in SUBSET Session,
         NEW e, e = SessionsRevoked(LinksRevoked(WithStatus(d, u, s), u), S)
  PROVE  Modest(d, e, X)
<1>1. PICK f : f = WithStatus(d, u, s)
  OBVIOUS
<1>2. PICK g : g = LinksRevoked(f, u)
  OBVIOUS
<1>3. f \in Database /\ Modest(d, f, X)
  <2>1. StatusSet(d, u, s, f)
    BY <1>1, WithStatusIs
  <2> QED
    BY <2>1, StatusModest DEF StatusSet
<1>4. g \in Database /\ Modest(f, g, X)
  BY <1>2, <1>3, LinksRevokedModest
<1>5. e \in Database /\ Modest(g, e, X)
  BY <1>1, <1>2, <1>4, SessionsModest
<1>6. Modest(d, g, X)
  BY <1>3, <1>4, ModestOn
<1> QED
  BY <1>4, <1>5, <1>6, ModestOn

\* banAccount: no administrator is banned.
LEMMA BanModest ==
  ASSUME NEW d \in Database, NEW r, r.of \in Account, MayBan(d, r),
         NEW e, e = BanPlaced(d, r)
  PROVE  Modest(d, e, {})
<1> DEFINE u == r.of
           S == SessionsOf(d, u)
           D == [i \in Identity |-> IF d.identity[i] = u \/ d.digest[i].source = u
                                    THEN [source |-> u, lifted |-> FALSE]
                                    ELSE d.digest[i]]
<1>1. PICK f : f = [d EXCEPT !.digest = D]
  OBVIOUS
<1>2. PICK g : g = WithStatus(f, u, "banned")
  OBVIOUS
<1>3. PICK h : h = WithoutIdentities(g, u)
  OBVIOUS
<1>4. PICK k : k = LinksRevoked(h, u)
  OBVIOUS
<1>5. e = SessionsRevoked(k, S) /\ S \in SUBSET Session
  BY <1>1, <1>2, <1>3, <1>4 DEF BanPlaced, Enforced, SessionsOf, Database
<1>6. D \in [Identity -> Digest]
  BY DEF Database, Digest, AccountOrNobody
<1> HIDE DEF D, S
<1>7. f \in Database /\ KeepsAccounts(d, f) /\ Modest(d, f, {})
  <2>1. /\ f \in Database /\ KeepsAccounts(d, f) /\ KeepsMembers(d, f)
        /\ KeepsWorkspaces(d, f) /\ KeepsLinks(d, f)
    BY ONLY <1>1, <1>6, DigestsAre, d \in Database
  <2> QED
    BY <2>1, ModestSame DEF KeepsMembers, KeepsLinks
<1>8. g \in Database /\ Modest(f, g, {})
  <2>1. StatusSet(f, u, "banned", g)
    BY <1>2, <1>7, WithStatusIs DEF Status
  <2>2. f.status[u] # "absent" /\ ~ f.admin[u]
    BY <1>7 DEF KeepsAccounts, MayBan
  <2> QED
    BY <1>7, <2>1, <2>2, StatusModest DEF StatusSet
<1>9. h \in Database /\ Modest(g, h, {})
  <2>1. IdentitiesGone(g, u, h)
    BY <1>3, <1>8, WithoutIdentitiesIs
  <2> QED
    BY <1>8, <2>1, IdentitiesModest DEF IdentitiesGone
<1>10. k \in Database /\ Modest(h, k, {})
  BY <1>4, <1>9, LinksRevokedModest
<1>11. e \in Database /\ Modest(k, e, {})
  BY <1>5, <1>10, SessionsModest
<1>12. Modest(d, g, {}) /\ Modest(g, k, {})
  BY <1>7, <1>8, <1>9, <1>10, ModestOn
<1>13. Modest(d, k, {})
  BY <1>8, <1>10, <1>12, ModestOn
<1> QED
  BY <1>10, <1>11, <1>13, ModestOn

\* liftAccountBan
LEMMA LiftModest ==
  ASSUME NEW d \in Database, NEW r, r.of \in Account, MayLift(d, r),
         NEW e, e = BanLifted(d, r)
  PROVE  Modest(d, e, {})
<1> DEFINE u == r.of
           D == [i \in Identity |-> IF d.digest[i].source = u
                                    THEN [d.digest[i] EXCEPT !.lifted = TRUE]
                                    ELSE d.digest[i]]
<1>1. PICK f : f = [d EXCEPT !.digest = D]
  OBVIOUS
<1>2. e = WithStatus(f, u, "disabled")
  BY <1>1 DEF BanLifted, Database
<1>3. D \in [Identity -> Digest]
  <2>1. \A i \in Identity : d.digest[i] \in Digest
    BY DEF Database
  <2> QED
    BY <2>1 DEF Digest
<1> HIDE DEF D
<1>4. f \in Database /\ KeepsAccounts(d, f) /\ Modest(d, f, {})
  <2>1. /\ f \in Database /\ KeepsAccounts(d, f) /\ KeepsMembers(d, f)
        /\ KeepsWorkspaces(d, f) /\ KeepsLinks(d, f)
    BY ONLY <1>1, <1>3, DigestsAre, d \in Database
  <2> QED
    BY <2>1, ModestSame DEF KeepsMembers, KeepsLinks
<1>5. StatusSet(f, u, "disabled", e)
  BY <1>2, <1>4, WithStatusIs DEF Status
<1>6. f.status[u] = "banned" /\ f.status \in [Account -> Status]
  BY <1>4 DEF KeepsAccounts, MayLift, Database
<1>7. e \in Database /\ \A v \in Account : ActiveAdmin(f, v) => ActiveAdmin(e, v)
  <2>1. e.status = [f.status EXCEPT ![u] = "disabled"] /\ e.admin = f.admin
    BY <1>5 DEF StatusSet
  <2> QED
    BY <1>5, <1>6, <2>1 DEF StatusSet, ActiveAdmin, Active
<1>8. Modest(f, e, {u})
  BY <1>4, <1>5, <1>6, StatusModest
<1>9. Modest(f, e, {})
  BY <1>7, <1>8 DEF Modest
<1> QED
  BY <1>4, <1>7, <1>9, ModestOn

\* executeAccountDeletion: no administrator deletes its account.
LEMMA DeleteAccountModest ==
  ASSUME NEW d \in Database, NEW r, r.by \in Account,
         r.plan \in Prepared(r.seen, r.by), MayDeleteAccount(d, r),
         NEW e, e = AccountDeleted(d, r)
  PROVE  Modest(d, e, {})
<1> DEFINE u == r.by
           C == Handed(d, u, r.plan)
<1>1. PICK f : f = WithStatus(d, u, "deleted")
  OBVIOUS
<1>2. PICK g : g = [f EXCEPT !.custodian = C]
  OBVIOUS
<1> DEFINE S == SessionsOf(g, u)
<1>3. PICK h : h = SessionsRevoked(g, S)
  OBVIOUS
<1>4. PICK k : k = LinksRevoked(h, u)
  OBVIOUS
<1>5. PICK m : m = WithoutIdentities(k, u)
  OBVIOUS
<1>6. PICK n : n = WithoutMemberships(m, u)
  OBVIOUS
<1>7. StatusSet(d, u, "deleted", f)
  BY <1>1, WithStatusIs DEF Status
<1>8. f \in Database /\ Modest(d, f, {})
  <2>1. d.status[u] # "absent" /\ ~ d.admin[u]
    BY DEF MayDeleteAccount, Active
  <2> QED
    BY <1>7, <2>1, StatusModest DEF StatusSet
<1>9. e = Erased(g, u)
  <2>1. C = [w \in Workspace |-> IF w \in DOMAIN r.plan /\ f.custodian[w] = u
                                 THEN r.plan[w] ELSE f.custodian[w]]
    BY <1>7 DEF Handed, StatusSet, KeepsWorkspaces
  <2>2. g = [f EXCEPT !.custodian = [w \in Workspace |->
                IF w \in DOMAIN r.plan /\ @[w] = u THEN r.plan[w] ELSE @[w]]]
    BY ONLY <1>2, <2>1
  <2> QED
    BY ONLY <1>1, <2>2, e = AccountDeleted(d, r) DEF AccountDeleted
<1>10. e = Forgotten(n, u)
  BY <1>3, <1>4, <1>5, <1>6, <1>9 DEF Erased
<1>11. g \in Database /\ Modest(f, g, {})
  <2>1. C \in [Workspace -> AccountOrNobody]
    <3>1. \A w \in DOMAIN r.plan : r.plan[w] \in Account
      BY DEF Prepared, CustodyPlan
    <3> QED
      BY <3>1 DEF Handed, AccountOrNobody, Database
  <2> HIDE DEF C
  <2>2. g \in Database
    BY <1>2, <1>8, <2>1 DEF Database
  <2>3. /\ g.status = f.status /\ g.admin = f.admin /\ g.identity = f.identity
        /\ g.role = f.role /\ g.phase = f.phase /\ g.bytes = f.bytes /\ g.link = f.link
    BY <1>2, <1>8 DEF Database
  <2> QED
    BY <1>8, <2>2, <2>3, RowsModest
<1> HIDE DEF C
<1>12. h \in Database /\ Modest(g, h, {})
  BY <1>3, <1>11, SessionsModest DEF SessionsOf
<1>13. k \in Database /\ Modest(h, k, {})
  BY <1>4, <1>12, LinksRevokedModest
<1>14. m \in Database /\ Modest(k, m, {})
  <2>1. IdentitiesGone(k, u, m)
    BY <1>5, <1>13, WithoutIdentitiesIs
  <2> QED
    BY <1>13, <2>1, IdentitiesModest DEF IdentitiesGone
<1>15. n \in Database /\ Modest(m, n, {})
  <2>1. MembershipsGone(m, u, n)
    BY <1>6, <1>14, WithoutMembershipsIs
  <2>2. \A w \in Workspace, v \in Account : m.role[w][v] = "none" => n.role[w][v] = "none"
    <3>1. /\ m.role \in [Workspace -> [Account -> MemberRole]]
          /\ n.role = [w \in Workspace |-> [m.role[w] EXCEPT ![u] = "none"]]
      BY <1>14, <2>1 DEF Database, MembershipsGone
    <3> QED
      BY <3>1
  <2>3. \A w \in Workspace : m.bytes[w] <= m.bytes[w]
    BY <1>14 DEF Database
  <2> QED
    BY <2>1, <2>2, <2>3 DEF MembershipsGone, Modest, KeepsAccounts, KeepsWorkspaces,
                            ActiveAdmin, Active
<1>17. Modest(d, g, {}) /\ Modest(g, k, {})
  BY <1>8, <1>11, <1>12, <1>13, ModestOn
<1>18. Modest(d, k, {}) /\ Modest(k, n, {})
  BY <1>11, <1>13, <1>14, <1>15, <1>17, ModestOn
<1>19. Modest(d, n, {})
  BY <1>13, <1>15, <1>18, ModestOn
<1> QED
  <2>1. /\ e.status = n.status /\ e.admin = n.admin /\ e.identity = n.identity
        /\ e.role = n.role /\ e.phase = n.phase /\ e.bytes = n.bytes /\ e.link = n.link
    BY <1>10, <1>15 DEF Forgotten, Database
  <2> QED
    BY ONLY <1>19, <2>1 DEF Modest, ActiveAdmin, Active

-----------------------------------------------------------------------------
(* What a step may do. *)

Allowed(d, e) ==
  Administered(d, e) /\ Invited(d, e) /\ Intended(d, e) /\ Unpaused(d, e)

\* A modest step is allowed, when the administrator that it may take away was
\* not the last one.
LEMMA ModestAllowed ==
  ASSUME NEW d \in Database, NEW e \in Database, NEW u, NEW X \in {{}, {u}},
         X = {u} => ~ LastAdmin(d, u), Modest(d, e, X)
  PROVE  Allowed(d, e)
<1>1. Administered(d, e)
  <2>1. ASSUME ActiveAdmins(d) # {} PROVE ActiveAdmins(e) # {}
    <3>1. PICK v \in Account \ X : ActiveAdmin(d, v)
      <4>1. PICK x \in Account : ActiveAdmin(d, x)
        BY <2>1 DEF ActiveAdmins
      <4>2. X = {u} => \E y \in ActiveAdmins(d) : y # u
        BY <2>1 DEF LastAdmin
      <4> QED
        BY <4>1, <4>2 DEF ActiveAdmins
    <3>2. ActiveAdmin(e, v)
      BY <3>1 DEF Modest
    <3> QED
      BY <3>1, <3>2 DEF ActiveAdmins
  <2> QED
    BY <2>1 DEF Administered
<1>2. Invited(d, e) /\ Intended(d, e) /\ AccountsUnpaused(d, e)
  BY DEF Modest, Invited, Intended, AccountsUnpaused
<1>3. WorkspacesUnpaused(d, e)
  <2>1. ASSUME NEW w \in Workspace
        PROVE  ~ (e.bytes[w] > d.bytes[w]) /\ (d.phase[w] = "absent" => e.phase[w] = "absent")
    <3>1. d.bytes[w] \in Nat /\ e.bytes[w] \in Nat
      BY DEF Database
    <3>2. e.bytes[w] <= d.bytes[w] /\ (d.phase[w] = "absent" => e.phase[w] = "absent")
      BY DEF Modest
    <3> QED
      BY <3>1, <3>2
  <2> QED
    BY <2>1 DEF WorkspacesUnpaused, Live
<1>4. LinksUnpaused(d, e)
  BY DEF Modest, LinksUnpaused
<1> QED
  BY <1>1, <1>2, <1>3, <1>4 DEF Allowed, Unpaused

\* Without demotions.
LEMMA QuietAllowed ==
  ASSUME NEW d \in Database, NEW e \in Database, Modest(d, e, {})
  PROVE  Allowed(d, e)
BY ModestAllowed

-----------------------------------------------------------------------------
(* What concerns only other columns. *)

Columns == {"status", "admin", "identity", "role", "phase", "bytes", "link"}

SameColumns(d, e) ==
  Columns \subseteq DOMAIN e /\ \A c \in Columns : e[c] = d[c]

\* Another column is set.
LEMMA OtherColumn ==
  ASSUME NEW d, Columns \subseteq DOMAIN d, NEW k, k \notin Columns, NEW v,
         NEW e, e = [d EXCEPT ![k] = v]
  PROVE  SameColumns(d, e)
BY DEF SameColumns

\* One after another.
LEMMA OtherColumnsOn ==
  ASSUME NEW d, NEW e, NEW f, SameColumns(d, e), SameColumns(e, f)
  PROVE  SameColumns(d, f)
BY DEF SameColumns

\* Such a step is allowed.
LEMMA SameColumnsAllowed ==
  ASSUME NEW d \in Database, NEW e \in Database, SameColumns(d, e)
  PROVE  Allowed(d, e)
<1>1. /\ e.status = d.status /\ e.admin = d.admin /\ e.identity = d.identity
      /\ e.role = d.role /\ e.phase = d.phase /\ e.bytes = d.bytes /\ e.link = d.link
  BY DEF SameColumns, Columns
<1> QED
  BY <1>1, RowsModest, QuietAllowed

\* What Database's columns are.
LEMMA ColumnsAre ==
  ASSUME NEW d \in Database
  PROVE  Columns \subseteq DOMAIN d
BY DEF Columns, Database

\* A batch that sets one other column.
LEMMA OtherColumnAllowed ==
  ASSUME NEW d \in Database, NEW k, k \notin Columns, NEW v,
         NEW e \in Database, e = [d EXCEPT ![k] = v]
  PROVE  Allowed(d, e)
BY ColumnsAre, OtherColumn, SameColumnsAllowed

\* A session, with the rows that it adds and ends: issueSession.
LEMMA IssuedAllowed ==
  ASSUME NEW d \in Database, NEW r, NEW e \in Database, e = Issued(d, r)
  PROVE  Allowed(d, e)
<1> DEFINE t == r.item
           u == d.oauth[t].user
           x == r.session
           at == r.seen.clock
           row == [of |-> u, live |-> TRUE, via |-> t, at |-> at, end |-> at + SessionTicks]
<1>1. PICK f : f = [d EXCEPT !.oauth[t].state = "done"]
  OBVIOUS
<1>2. PICK g : g = [f EXCEPT !.session[x] = row]
  OBVIOUS
<1>3. PICK h : h = WithCreation(g, "session", u, at)
  OBVIOUS
<1>4. PICK k : k = OlderReplaced(h, x, u, at)
  OBVIOUS
<1>5. e = Trimmed(k, u, at)
  BY <1>1, <1>2, <1>3, <1>4 DEF Issued, WithSession
<1> HIDE DEF t, u, x, at, row
<1>6. SameColumns(d, f)
  <2>1. \E v : f = [d EXCEPT !.oauth = v]
    BY <1>1
  <2> QED
    BY <2>1, ColumnsAre, OtherColumn DEF Columns
<1>7. SameColumns(f, g)
  <2>1. \E v : g = [f EXCEPT !.session = v]
    BY <1>2
  <2>2. Columns \subseteq DOMAIN f
    BY <1>6 DEF SameColumns
  <2> QED
    BY <2>1, <2>2, OtherColumn DEF Columns
<1>8. SameColumns(g, h)
  <2>1. \E v : h = [g EXCEPT !.ledger = v]
    BY <1>3 DEF WithCreation
  <2>2. Columns \subseteq DOMAIN g
    BY <1>7 DEF SameColumns
  <2> QED
    BY <2>1, <2>2, OtherColumn DEF Columns
<1>9. SameColumns(h, k)
  <2>1. \E v : k = [h EXCEPT !.session = v]
    BY <1>4 DEF OlderReplaced
  <2>2. Columns \subseteq DOMAIN h
    BY <1>8 DEF SameColumns
  <2> QED
    BY <2>1, <2>2, OtherColumn DEF Columns
<1>10. SameColumns(k, e)
  <2>1. \E v : e = [k EXCEPT !.session = v]
    BY <1>5 DEF Trimmed, WithoutSessions
  <2>2. Columns \subseteq DOMAIN k
    BY <1>9 DEF SameColumns
  <2> QED
    BY <2>1, <2>2, OtherColumn DEF Columns
<1> QED
  BY <1>6, <1>7, <1>8, <1>9, <1>10, OtherColumnsOn, SameColumnsAllowed

\* What handlers clean up: sessions, and links that expired.
LEMMA CleanedAllowed ==
  ASSUME NEW d \in Database, NEW e \in Database, e = Cleaned(d)
  PROVE  Allowed(d, e)
<1> DEFINE links == {l \in Link : d.link[l].expired
                                    /\ d.link[l].state \notin {"absent", "gone"}}
<1>1. PICK X : e = WithLinkState(WithoutSessions(d, X), links, "gone")
  BY DEF Cleaned
<1>2. PICK f : f = WithoutSessions(d, X)
  OBVIOUS
<1>3. f \in Database
  <2> DEFINE S == [x \in Session |-> IF x \in X THEN NoSession ELSE d.session[x]]
  <2>1. S \in [Session -> SessionRow]
    BY DEF Database, NoSession, SessionRow, AccountOrNobody
  <2>2. f = [d EXCEPT !.session = S]
    BY <1>2 DEF WithoutSessions
  <2> HIDE DEF S
  <2> QED
    BY <2>1, <2>2, SessionsAre
<1>4. /\ f.status = d.status /\ f.admin = d.admin /\ f.identity = d.identity
      /\ f.role = d.role /\ f.phase = d.phase /\ f.bytes = d.bytes /\ f.link = d.link
  BY <1>2 DEF WithoutSessions, Database
<1>5. Modest(d, f, {})
  BY <1>4, RowsModest
<1>6. Modest(f, e, {})
  <2>1. /\ links \in SUBSET Link /\ \A l \in links : f.link[l].state # "absent"
        /\ "gone" \in {"revoked", "gone"}
    BY <1>4
  <2>2. e = WithLinkState(f, links, "gone")
    BY <1>1, <1>2
  <2> HIDE DEF links
  <2> QED
    BY <1>3, <2>1, <2>2, LinksModest
<1> QED
  BY <1>3, <1>5, <1>6, ModestOn, QuietAllowed

\* A link expires.
LEMMA ExpiryAllowed ==
  ASSUME NEW d \in Database, NEW l \in Link, NEW e \in Database,
         e = [d EXCEPT !.link[l].expired = TRUE]
  PROVE  Allowed(d, e)
<1>1. /\ d.link \in [Link -> GuestLink]
      /\ e.link = [d.link EXCEPT ![l] = [@ EXCEPT !.expired = TRUE]]
  BY DEF Database
<1>2. \A x \in Link : e.link[x].state = d.link[x].state
  <2>1. \A x \in Link : e.link[x] = IF x = l THEN [d.link[l] EXCEPT !.expired = TRUE]
                                    ELSE d.link[x]
    BY <1>1
  <2>2. d.link[l] \in GuestLink
    BY <1>1
  <2>3. [d.link[l] EXCEPT !.expired = TRUE].state = d.link[l].state
    BY <2>2 DEF GuestLink
  <2> QED
    BY <2>1, <2>3
<1>3. /\ e.status = d.status /\ e.admin = d.admin /\ e.identity = d.identity
      /\ e.role = d.role /\ e.phase = d.phase /\ e.bytes = d.bytes
  BY DEF Database
<1>4. \A x \in Workspace : d.bytes[x] <= d.bytes[x]
  BY DEF Database
<1>5. Modest(d, e, {})
  BY <1>2, <1>3, <1>4 DEF Modest, ActiveAdmin, Active
<1> QED
  BY <1>5, QuietAllowed

-----------------------------------------------------------------------------
(* The seven that give somebody something. *)

\* A circuit that was open when the handler began is open.
LEMMA OpenLater ==
  ASSUME NEW d \in Database, NEW c \in Circuit, NEW at \in Nat, at <= d.clock,
         CircuitOpen(d, c, at)
  PROVE  OpenNow(d, c)
<1>1. d.clock \in Nat /\ d.circuit[c].resume \subseteq Int
  BY DEF Database, Breaker
<1>2. ASSUME NEW t \in d.circuit[c].resume, t <= at PROVE t <= d.clock
  BY <1>1, <1>2
<1> QED
  BY <1>2 DEF OpenNow, CircuitOpen

\* Each part is about its columns.
LEMMA PartsSame ==
  ASSUME NEW d \in Database, NEW e
  PROVE  /\ e.status = d.status /\ e.admin = d.admin =>
              Administered(d, e) /\ AccountsUnpaused(d, e)
         /\ e.role = d.role => Invited(d, e)
         /\ e.identity = d.identity => Intended(d, e)
         /\ e.phase = d.phase /\ e.bytes = d.bytes => WorkspacesUnpaused(d, e)
         /\ e.link = d.link => LinksUnpaused(d, e)
<1>1. e.status = d.status /\ e.admin = d.admin => Administered(d, e)
  BY DEF Administered, ActiveAdmins, ActiveAdmin, Active
<1>2. e.status = d.status => AccountsUnpaused(d, e)
  BY DEF AccountsUnpaused
<1>3. e.phase = d.phase /\ e.bytes = d.bytes => WorkspacesUnpaused(d, e)
  <2>1. \A w \in Workspace : ~ (d.bytes[w] > d.bytes[w])
    BY DEF Database
  <2> QED
    BY <2>1 DEF WorkspacesUnpaused, Live
<1>4. e.role = d.role => Invited(d, e)
  BY DEF Invited
<1>5. e.identity = d.identity => Intended(d, e)
  BY DEF Intended
<1>6. e.link = d.link => LinksUnpaused(d, e)
  BY DEF LinksUnpaused
<1> QED
  BY <1>1, <1>2, <1>3, <1>4, <1>5, <1>6

\* initializeOwnedWorkspace
LEMMA InitializeAllowed ==
  ASSUME NEW d \in Database, NEW r, r.at \in Workspace, r.by \in Account,
         r.bytes \in Nat, r.seen.clock \in Nat, r.seen.clock <= d.clock,
         MayInitialize(d, r), NEW e \in Database, e = Initialized(d, r)
  PROVE  Allowed(d, e)
<1> DEFINE w == r.at
           u == r.by
           at == r.seen.clock
<1>1. d.phase[w] = "absent" /\ OpenNow(d, "new workspaces")
  <2>1. "new workspaces" \in Circuit
    BY DEF Circuit
  <2> QED
    BY <2>1, OpenLater DEF MayInitialize, AllocationAllowed
<1>2. PICK s : s = [d EXCEPT !.phase[w] = "live", !.bytes[w] = r.bytes, !.custodian[w] = u]
  OBVIOUS
<1>3. WorkspaceSet(d, w, "live", r.bytes, u, s)
  <2>1. "live" \in Phase /\ u \in AccountOrNobody
    BY DEF Phase, AccountOrNobody
  <2> QED
    BY ONLY <1>2, <2>1, WorkspaceSetIs, w \in Workspace, r.bytes \in Nat, d \in Database
<1>4. PICK f : f = WithCreation(s, "workspace", u, at)
  OBVIOUS
<1>5. s \in Database /\ CreationAdded(s, "workspace", u, at, f)
  <2>1. s \in Database /\ u \in AccountOrNobody /\ at \in Int
    BY <1>3 DEF WorkspaceSet, AccountOrNobody
  <2> QED
    BY <1>4, <2>1, WithCreationIs
<1>6. f \in Database
  BY <1>5 DEF CreationAdded
<1>7. RoleSet(f, w, u, "owner", e)
  <2>1. e = WithRole(f, w, u, "owner") /\ "owner" \in MemberRole
    BY <1>2, <1>4 DEF Initialized, MemberRole
  <2> QED
    BY <1>6, <2>1, WithRoleIs
<1>8. /\ e.status = d.status /\ e.admin = d.admin /\ e.identity = d.identity
      /\ e.link = d.link
      /\ e.phase = [d.phase EXCEPT ![w] = "live"]
      /\ e.bytes = [d.bytes EXCEPT ![w] = r.bytes]
      /\ e.role = [d.role EXCEPT ![w] = [@ EXCEPT ![u] = "owner"]]
  BY <1>3, <1>5, <1>7
     DEF WorkspaceSet, CreationAdded, RoleSet, KeepsAccounts, KeepsMembers,
         KeepsWorkspaces, KeepsLinks
<1>9. /\ d.phase \in [Workspace -> Phase] /\ d.bytes \in [Workspace -> Nat]
      /\ d.role \in [Workspace -> [Account -> MemberRole]]
  BY DEF Database
<1> HIDE DEF w, u, at
<1>10. Administered(d, e) /\ Intended(d, e) /\ AccountsUnpaused(d, e) /\ LinksUnpaused(d, e)
  BY <1>8, PartsSame
<1>11. Invited(d, e)
  <2>1. ASSUME NEW x \in Workspace, NEW v \in Account,
               d.role[x][v] = "none", e.role[x][v] # "none"
        PROVE  d.phase[x] = "absent" /\ e.phase[x] = "live"
    <3>1. x = w
      BY <1>8, <1>9, <2>1
    <3> QED
      BY <1>1, <1>8, <1>9, <2>1, <3>1
  <2> QED
    BY <2>1 DEF Invited
<1>12. WorkspacesUnpaused(d, e)
  <2>1. ASSUME NEW x \in Workspace, x # w
        PROVE  e.phase[x] = d.phase[x] /\ e.bytes[x] = d.bytes[x] /\ d.bytes[x] \in Nat
    BY <1>8, <1>9, <2>1
  <2>2. ASSUME NEW x \in Workspace, x # w
        PROVE  ~ (d.phase[x] = "absent" /\ Live(e, x)) /\ ~ (e.bytes[x] > d.bytes[x])
    BY <2>1, <2>2 DEF Live
  <2>3. ~ Live(d, w)
    BY <1>1 DEF Live
  <2> QED
    BY <1>1, <2>2, <2>3 DEF WorkspacesUnpaused
<1> QED
  BY <1>10, <1>11, <1>12 DEF Allowed, Unpaused

\* takeAdminWorkspaceOwnership
LEMMA TakeOwnershipAllowed ==
  ASSUME NEW d \in Database, NEW r, r.at \in Workspace, r.by \in Account,
         MayTakeOwnership(d, r), NEW e \in Database, e = OwnershipTaken(d, r)
  PROVE  Allowed(d, e)
<1>1. RoleSet(d, r.at, r.by, "owner", e)
  BY WithRoleIs DEF OwnershipTaken, MemberRole
<1>2. /\ e.status = d.status /\ e.admin = d.admin /\ e.identity = d.identity
      /\ e.link = d.link /\ e.phase = d.phase /\ e.bytes = d.bytes
      /\ e.role = [d.role EXCEPT ![r.at] = [@ EXCEPT ![r.by] = "owner"]]
      /\ d.role \in [Workspace -> [Account -> MemberRole]]
  BY <1>1 DEF RoleSet, KeepsAccounts, KeepsWorkspaces, Database
<1>3. ActiveAdmin(d, r.by)
  BY DEF MayTakeOwnership, AdminAsks
<1>4. Administered(d, e) /\ Intended(d, e) /\ AccountsUnpaused(d, e) /\ LinksUnpaused(d, e)
  BY <1>2, PartsSame
<1>5. Invited(d, e)
  <2>1. ASSUME NEW x \in Workspace, NEW v \in Account,
               d.role[x][v] = "none", e.role[x][v] # "none"
        PROVE  ActiveAdmin(d, v) /\ e.role[x][v] = "owner"
    <3>1. x = r.at /\ v = r.by
      BY <1>2, <2>1
    <3> QED
      BY <1>2, <1>3, <3>1
  <2> QED
    BY <2>1 DEF Invited
<1>6. WorkspacesUnpaused(d, e)
  BY <1>2, PartsSame
<1> QED
  BY <1>4, <1>5, <1>6 DEF Allowed, Unpaused

\* createWorkspaceGuestLink
LEMMA CreateLinkAllowed ==
  ASSUME NEW d \in Database, NEW r, r.at \in Workspace, r.by \in Account,
         r.item \in Link, r.role \in {"viewer", "editor"},
         r.seen.clock \in Nat, Fresh(d, r.seen.clock), r.seen.clock <= d.clock,
         MayCreateLink(d, r), NEW e \in Database, e = LinkCreated(d, r)
  PROVE  Allowed(d, e)
<1> DEFINE at == r.seen.clock
<1>1. d.link[r.item].state = "absent" /\ OpenNow(d, "guest links")
  <2>1. "guest links" \in Circuit
    BY DEF Circuit
  <2> QED
    BY <2>1, OpenLater DEF MayCreateLink, LinkAllowed
<1>2. PICK f : f = WithCreation(d, "link", r.by, at)
  OBVIOUS
<1>3. CreationAdded(d, "link", r.by, at, f)
  <2>1. r.by \in AccountOrNobody /\ at \in Int
    BY DEF AccountOrNobody
  <2> QED
    BY <1>2, <2>1, WithCreationIs
<1>4. f \in Database
  BY <1>3 DEF CreationAdded
<1>5. LinkAdded(f, r.item, r.at, r.by, e)
  <2>1. e = [f EXCEPT !.link[r.item] = [of |-> r.at, by |-> r.by, role |-> r.role,
                                        expired |-> FALSE, state |-> "unused"],
                      !.access[r.at] = @ + 1]
    BY <1>2 DEF LinkCreated
  <2> QED
    BY <1>4, <2>1, LinkAddedIs
<1>6. /\ e.status = d.status /\ e.admin = d.admin /\ e.identity = d.identity
      /\ e.role = d.role /\ e.phase = d.phase /\ e.bytes = d.bytes
      /\ \A x \in Link : x # r.item => e.link[x] = d.link[x]
      /\ e.link[r.item].state = "unused"
  BY <1>3, <1>5
     DEF CreationAdded, LinkAdded, KeepsAccounts, KeepsMembers, KeepsWorkspaces, KeepsLinks
<1>7. /\ Administered(d, e) /\ Invited(d, e) /\ Intended(d, e)
      /\ AccountsUnpaused(d, e)
  BY <1>6, PartsSame
<1>8. WorkspacesUnpaused(d, e)
  BY <1>6, PartsSame
<1>9. LinksUnpaused(d, e)
  BY <1>1, <1>6 DEF LinksUnpaused
<1> QED
  BY <1>7, <1>8, <1>9 DEF Allowed, Unpaused

\* consumeGuestLink
LEMMA RedeemAllowed ==
  ASSUME NEW d \in Database, NEW r, r.at \in Workspace, r.by \in Account,
         r.item \in Link, r.seen.clock \in Nat, r.seen.clock <= d.clock,
         MayRedeem(d, r), NEW e \in Database, e = Redeemed(d, r)
  PROVE  Allowed(d, e)
<1> DEFINE role == d.link[r.item].role
<1>1. /\ d.link[r.item].state = "unused" /\ d.link[r.item].of = r.at
      /\ OpenNow(d, "guest redemptions")
  <2>1. "guest redemptions" \in Circuit
    BY DEF Circuit
  <2> QED
    BY <2>1, OpenLater DEF MayRedeem, RedemptionAllowed
<1>2. PICK f : f = WithLinkState(d, {r.item}, "used")
  OBVIOUS
<1>3. LinksSet(d, {r.item}, "used", f)
  BY <1>2, WithLinkStateIs DEF LinkState
<1>4. f \in Database
  BY <1>3 DEF LinksSet
<1>5. role \in MemberRole /\ role # "none"
  <2>1. d.link[r.item] \in GuestLink
    BY DEF Database
  <2> QED
    BY <2>1 DEF GuestLink, MemberRole
<1>6. RoleSet(f, r.at, r.by, role, e)
  BY <1>2, <1>4, <1>5, WithRoleIs DEF Redeemed
<1>7. /\ e.status = d.status /\ e.admin = d.admin /\ e.identity = d.identity
      /\ e.phase = d.phase /\ e.bytes = d.bytes
      /\ e.role = [d.role EXCEPT ![r.at] = [@ EXCEPT ![r.by] = role]]
      /\ d.role \in [Workspace -> [Account -> MemberRole]]
      /\ \A x \in Link : x # r.item => e.link[x] = d.link[x]
      /\ e.link[r.item] = [d.link[r.item] EXCEPT !.state = "used"]
  <2>1. /\ f.status = d.status /\ f.admin = d.admin /\ f.identity = d.identity
        /\ f.phase = d.phase /\ f.bytes = d.bytes /\ f.role = d.role
        /\ \A x \in Link : x # r.item => f.link[x] = d.link[x]
        /\ f.link[r.item] = [d.link[r.item] EXCEPT !.state = "used"]
    BY <1>3 DEF LinksSet, KeepsAccounts, KeepsMembers, KeepsWorkspaces
  <2>2. /\ e.status = f.status /\ e.admin = f.admin /\ e.identity = f.identity
        /\ e.phase = f.phase /\ e.bytes = f.bytes /\ e.link = f.link
        /\ e.role = [f.role EXCEPT ![r.at] = [@ EXCEPT ![r.by] = role]]
    BY <1>6 DEF RoleSet, KeepsAccounts, KeepsWorkspaces
  <2>3. d.role \in [Workspace -> [Account -> MemberRole]]
    BY DEF Database
  <2> QED
    BY <2>1, <2>2, <2>3
<1>8. e.link[r.item].state = "used"
  <2>1. d.link[r.item] \in GuestLink
    BY DEF Database
  <2> QED
    BY <1>7, <2>1 DEF GuestLink
<1> HIDE DEF role
<1>9. e.role[r.at] = [d.role[r.at] EXCEPT ![r.by] = role]
  BY <1>7
<1>10. \A v \in Account : e.role[r.at][v] = IF v = r.by THEN role ELSE d.role[r.at][v]
  BY <1>7, <1>9
<1>11. Invited(d, e)
  <2>1. ASSUME NEW x \in Workspace, NEW v \in Account,
               d.role[x][v] = "none", e.role[x][v] # "none"
        PROVE  x = r.at /\ v = r.by
    <3>1. x = r.at
      BY <1>7, <2>1
    <3> QED
      BY <1>10, <2>1, <3>1
  <2>2. Members(e, r.at) = Members(d, r.at) \cup {r.by}
    BY <1>5, <1>10 DEF Members
  <2>3. e.role[r.at][r.by] = role
    BY <1>10
  <2> QED
    BY <1>1, <1>8, <2>1, <2>2, <2>3, ZenonT(60) DEF Invited, role
<1>12. Administered(d, e) /\ Intended(d, e) /\ AccountsUnpaused(d, e)
  BY <1>7, PartsSame
<1>13. WorkspacesUnpaused(d, e)
  BY <1>7, PartsSame
<1>14. LinksUnpaused(d, e)
  BY <1>1, <1>7, <1>8 DEF LinksUnpaused
<1> QED
  BY <1>11, <1>12, <1>13, <1>14 DEF Allowed, Unpaused

\* compareAndSwapAuthorized
LEMMA StoreAllowed ==
  ASSUME NEW d \in Database, NEW r, r.at \in Workspace, r.bytes \in Nat,
         r.seen.clock \in Nat, r.seen.clock <= d.clock,
         MayStore(d, r), NEW e \in Database, e = SnapshotStored(d, r)
  PROVE  Allowed(d, e)
<1>1. /\ e.status = d.status /\ e.admin = d.admin /\ e.identity = d.identity
      /\ e.role = d.role /\ e.phase = d.phase /\ e.link = d.link
      /\ e.bytes = [d.bytes EXCEPT ![r.at] = r.bytes]
      /\ d.bytes \in [Workspace -> Nat]
  BY DEF SnapshotStored, Database
<1>2. r.bytes > d.bytes[r.at] => OpenNow(d, "snapshot growth")
  <2>1. "snapshot growth" \in Circuit
    BY DEF Circuit
  <2> QED
    BY <2>1, OpenLater DEF MayStore, GrowthAllowed
<1>3. /\ Administered(d, e) /\ Invited(d, e) /\ Intended(d, e)
      /\ AccountsUnpaused(d, e) /\ LinksUnpaused(d, e)
  BY <1>1, PartsSame
<1>4. WorkspacesUnpaused(d, e)
  <2>1. ASSUME NEW x \in Workspace, x # r.at
        PROVE  ~ (e.bytes[x] > d.bytes[x])
    <3>1. e.bytes[x] = d.bytes[x] /\ d.bytes[x] \in Nat
      BY <1>1, <2>1
    <3> QED
      BY <3>1
  <2>2. e.bytes[r.at] = r.bytes
    BY <1>1
  <2> QED
    BY <1>1, <1>2, <2>1, <2>2 DEF WorkspacesUnpaused, Live
<1> QED
  BY <1>3, <1>4 DEF Allowed, Unpaused

\* createOrLinkUser, for an identity that is linked
LEMMA LinkIdentityAllowed ==
  ASSUME NEW d \in Database, NEW r, r.item \in SignIn, MayLink(d, r),
         NEW e \in Database, e = IdentityLinked(d, r)
  PROVE  Allowed(d, e)
<1> DEFINE t == r.item
           i == d.oauth[t].identity
           u == d.oauth[t].user
<1>1. /\ d.identity[i] = Nobody /\ u \in Account
      /\ SessionLive(d, d.oauth[t].session, u)
  BY DEF MayLink, LinkIntended, Active
<1>2. PICK f : f = WithIdentity(d, i, u)
  OBVIOUS
<1>3. e = Resolved(f, t, u)
  BY <1>2 DEF IdentityLinked
<1> HIDE DEF i, u, t
<1>4. IdentitySet(d, i, u, u, f)
  BY <1>1, <1>2, IdentityIs DEF WithIdentity, IdentityNow, AccountOrNobody
<1>5. SameColumns(f, e)
  <2>1. \E v : e = [f EXCEPT !.oauth = v]
    BY <1>3 DEF Resolved
  <2>2. f \in Database
    BY <1>4 DEF IdentitySet
  <2> QED
    BY <2>1, <2>2, ColumnsAre, OtherColumn DEF Columns
<1>6. /\ e.status = d.status /\ e.admin = d.admin /\ e.role = d.role
      /\ e.phase = d.phase /\ e.bytes = d.bytes /\ e.link = d.link
      /\ e.identity = [d.identity EXCEPT ![i] = u]
  BY <1>4, <1>5
     DEF IdentitySet, SameColumns, Columns, KeepsMembers, KeepsWorkspaces, KeepsLinks
<1>7. Intended(d, e)
  <2>1. ASSUME NEW j \in Identity, e.identity[j] \notin {d.identity[j], Nobody}
        PROVE  j = i /\ e.identity[j] = u
    <3>1. d.identity \in [Identity -> AccountOrNobody]
      BY DEF Database
    <3> QED
      BY <1>6, <2>1, <3>1
  <2>2. t \in SignIn /\ d.oauth[t].identity = i /\ d.oauth[t].user = u
    BY DEF t, i, u
  <2> QED
    BY <1>1, <2>1, <2>2 DEF Intended
<1> QED
  BY <1>6, <1>7, PartsSame DEF Allowed, Unpaused

\* createOrLinkUser, for a new account
LEMMA EnrollAllowed ==
  ASSUME NEW d \in Database, Remembered(d, "account", Nobody),
         NEW r, r.item \in SignIn, r.of \in Account,
         r.seen.clock \in Nat, Fresh(d, r.seen.clock), r.seen.clock <= d.clock,
         MayEnroll(d, r), NEW e \in Database, e = Enrolled(d, r)
  PROVE  Allowed(d, e)
<1> DEFINE i == d.oauth[r.item].identity
           u == r.of
           at == r.seen.clock
           old == d.ledger["account"][Nobody]
<1>1. /\ d.identity[i] = Nobody /\ d.status[u] = "absent"
      /\ CircuitOpen(d, "new accounts", at)
      /\ Cardinality(CreatedThatDay(d, "account", Nobody, at)) < d.accountsPerDay
  BY DEF MayEnroll, AccountAllowed
<1>2. PICK f : f = WithCreation(d, "account", Nobody, at)
  OBVIOUS
<1>3. PICK g : g = [WithIdentity(f, i, u) EXCEPT !.status[u] = "active"]
  OBVIOUS
<1>4. e = Resolved(g, r.item, u)
  BY <1>2, <1>3 DEF Enrolled
<1>5. old.at \in Seq(Int) /\ old.kept \subseteq DOMAIN old.at
  <2>1. old \in Creations
    BY DEF Database, Ledger, AccountOrNobody
  <2> QED
    BY <2>1 DEF Creations, Remembered
<1> HIDE DEF i, old
<1>6. CreationAdded(d, "account", Nobody, at, f)
  <2>1. Nobody \in AccountOrNobody /\ at \in Int
    BY DEF AccountOrNobody
  <2> QED
    BY <1>2, <2>1, WithCreationIs
<1>7. f \in Database
  BY <1>6 DEF CreationAdded
<1>8. AccountOpened(f, i, u, g)
  BY ONLY <1>3, <1>7, AccountOpenedIs, u \in Account
<1>9. e = [g EXCEPT !.oauth = e.oauth] /\ g \in Database
  <2>1. \E v : e = [g EXCEPT !.oauth = v]
    BY <1>4 DEF Resolved
  <2>2. g \in Database
    BY <1>8 DEF AccountOpened
  <2> QED
    BY <2>1, <2>2 DEF Database
<1>10. /\ e.status = g.status /\ e.admin = g.admin /\ e.identity = g.identity
       /\ e.role = g.role /\ e.phase = g.phase /\ e.bytes = g.bytes /\ e.link = g.link
       /\ e.ledger = g.ledger
  BY <1>9 DEF Database
<1>11. /\ e.status = [d.status EXCEPT ![u] = "active"] /\ e.admin = d.admin
       /\ e.identity = [d.identity EXCEPT ![i] = u] /\ e.role = d.role
       /\ e.phase = d.phase /\ e.bytes = d.bytes /\ e.link = d.link
  BY <1>6, <1>8, <1>10
     DEF CreationAdded, AccountOpened, KeepsAccounts, KeepsMembers, KeepsWorkspaces,
         KeepsLinks
<1>12. Administered(d, e)
  <2>1. d.status \in [Account -> Status]
    BY DEF Database
  <2>2. \A v \in Account : ActiveAdmin(d, v) => ActiveAdmin(e, v)
    BY <1>11, <2>1 DEF ActiveAdmin, Active
  <2> QED
    BY <2>2 DEF Administered, ActiveAdmins
<1>13. Intended(d, e)
  <2>1. ASSUME NEW j \in Identity, e.identity[j] \notin {d.identity[j], Nobody}
        PROVE  j = i /\ e.identity[j] = u
    <3>1. d.identity \in [Identity -> AccountOrNobody]
      BY DEF Database
    <3> QED
      BY <1>11, <2>1, <3>1
  <2> QED
    BY <1>1, <2>1 DEF Intended
<1>14. AccountsUnpaused(d, e)
  <2>1. OpenNow(d, "new accounts")
    <3>1. "new accounts" \in Circuit
      BY DEF Circuit
    <3> QED
      BY <1>1, <3>1, OpenLater
  <2>2. d.accountsPerDay > 0
    <3> DEFINE today == CreatedThatDay(d, "account", Nobody, at)
    <3>1. today \subseteq DOMAIN old.at /\ IsFiniteSet(DOMAIN old.at)
      <4>1. OneRowMore(old.at, 0, Append(old.at, 0))
        BY <1>5, RowAdded
      <4> QED
        BY <1>5, <4>1 DEF OneRowMore, CreatedThatDay, Created, old
    <3>2. Cardinality(today) \in Nat
      BY <3>1, FS_Subset, FS_CardinalityType
    <3>3. d.accountsPerDay \in Nat
      BY DEF Database
    <3> HIDE DEF today
    <3>4. Cardinality(today) < d.accountsPerDay
      BY <1>1 DEF today
    <3> QED
      BY ONLY <3>2, <3>3, <3>4
  <2>3. Created(e, "account", Nobody) # Created(d, "account", Nobody)
    <3>1. e.ledger = [d.ledger EXCEPT !["account"] =
                        [@ EXCEPT ![Nobody] = MoreCreated(d, "account", Nobody, at)]]
      BY <1>6, <1>8, <1>10 DEF CreationAdded, AccountOpened, KeepsUsage
    <3>2. d.ledger \in Ledger
      BY DEF Database
    <3>3. e.ledger["account"][Nobody] = MoreCreated(d, "account", Nobody, at)
      BY <3>1, <3>2 DEF Ledger, AccountOrNobody
    <3>4. OneRowMore(old.at, at, Append(old.at, at))
      BY <1>5, RowAdded
    <3>5. Len(Append(old.at, at)) \in MoreCreated(d, "account", Nobody, at).kept
      BY DEF MoreCreated, old
    <3>6. Len(Append(old.at, at)) \notin old.kept
      BY <1>5, <3>4 DEF OneRowMore
    <3> QED
      BY <3>3, <3>5, <3>6 DEF Created, old
  <2> QED
    BY <2>1, <2>2, <2>3 DEF AccountsUnpaused
<1> QED
  BY <1>11, <1>12, <1>13, <1>14, PartsSame DEF Allowed, Unpaused

-----------------------------------------------------------------------------
(* Every step. *)

\* What is done to the access of a workspace.
LEMMA MembershipAllowed ==
  ASSUME Inv, db' \in Database, NEW d \in Views, NEW r \in MembershipRequests(d),
         Membership(r)
  PROVE  Allowed(db, db')
<1>1. /\ MembershipRequest(r) /\ r.seen = d /\ d.clock \in Nat
      /\ Fresh(db, d.clock) /\ d.clock <= db.clock /\ db \in Database
  BY MembershipRequestIs, ViewIs DEF Inv, TypeOK
<1>2. CASE Initialize(r)
  BY <1>1, <1>2, InitializeAllowed DEF Initialize, Commit, MembershipRequest
<1>3. CASE CreateLink(r)
  BY <1>1, <1>3, CreateLinkAllowed DEF CreateLink, Commit, MembershipRequest
<1>4. CASE ChangeRole(r)
  <2>1. /\ r.at \in Workspace /\ r.of \in Account /\ db.role[r.at][r.of] # "none"
        /\ r.role \in MemberRole /\ db' = WithRole(db, r.at, r.of, r.role)
    BY <1>1, <1>4
       DEF ChangeRole, Commit, MembershipRequest, MayChangeRole, MemberSeen, RoleChanged,
           MemberRole
  <2>2. RoleSet(db, r.at, r.of, r.role, db')
    BY <1>1, <2>1, WithRoleIs
  <2> QED
    BY <1>1, <2>1, <2>2, RoleModest, QuietAllowed
<1>5. CASE RemoveMember(r)
  <2>1. /\ r.at \in Workspace /\ r.of \in Account /\ "none" \in MemberRole
        /\ db' = WithRole(db, r.at, r.of, "none")
    BY <1>1, <1>5 DEF RemoveMember, Commit, MembershipRequest, MemberRemoved, MemberRole
  <2>2. RoleSet(db, r.at, r.of, "none", db')
    BY <1>1, <2>1, WithRoleIs
  <2> QED
    BY <1>1, <2>1, <2>2, RoleModest, QuietAllowed
<1>6. CASE Transfer(r)
  BY <1>1, <1>6, TransferModest, QuietAllowed DEF Transfer, Commit, MembershipRequest
<1>7. CASE TakeOwnership(r)
  BY <1>1, <1>7, TakeOwnershipAllowed DEF TakeOwnership, Commit, MembershipRequest
<1>8. ASSUME r.item \in Link, db.link[r.item].state # "absent",
             NEW s \in {"revoked", "gone"}, db' = WithLinkState(db, {r.item}, s)
      PROVE  Allowed(db, db')
  <2>1. {r.item} \in SUBSET Link /\ \A l \in {r.item} : db.link[l].state # "absent"
    BY <1>8
  <2> QED
    BY <1>1, <1>8, <2>1, LinksModest, QuietAllowed
<1>9. CASE RevokeLink(r)
  BY <1>1, <1>8, <1>9
     DEF RevokeLink, Commit, MembershipRequest, MayRevokeLink, LinkRevoked, Usable
<1>10. CASE DeleteLink(r)
  BY <1>1, <1>8, <1>10
     DEF DeleteLink, Commit, MembershipRequest, MayDeleteLink, LinkDeleted, LinksOf
<1>11. CASE Redeem(r)
  BY <1>1, <1>11, RedeemAllowed DEF Redeem, Commit, MembershipRequest
<1>12. CASE DeleteWorkspace(r)
  BY <1>1, <1>12, DeleteWorkspaceModest, QuietAllowed
     DEF DeleteWorkspace, Commit, MembershipRequest
<1>13. CASE Store(r)
  BY <1>1, <1>13, StoreAllowed DEF Store, Commit, MembershipRequest
<1> QED
  BY <1>2, <1>3, <1>4, <1>5, <1>6, <1>7, <1>9, <1>10, <1>11, <1>12, <1>13
     DEF Membership

\* What is done to an account, or to the installation.
LEMMA GovernanceAllowed ==
  ASSUME Inv, db' \in Database, NEW d \in Views, NEW r \in AccountRequests(d),
         Governance(r)
  PROVE  Allowed(db, db')
<1>1. AccountRequest(r) /\ r.seen = d /\ db \in Database
  BY AccountRequestIs DEF Inv, TypeOK
<1>2. \A u \in Account : SessionsOf(db, u) \in SUBSET Session
  BY DEF SessionsOf
<1>3. CASE Promote(r)
  <2>1. /\ r.of \in Account
        /\ db' = SessionsRevoked(WithAdmin(db, r.of, TRUE), SessionsOf(db, r.of))
    BY <1>1, <1>3 DEF Promote, Commit, Promoted, AccountRequest
  <2>2. Modest(db, db', {})
    BY <1>1, <1>2, <2>1, RoleChangeModest
  <2> QED
    BY <1>1, <2>2, QuietAllowed
<1>4. CASE Demote(r)
  <2>1. /\ r.of \in Account /\ ~ LastAdmin(db, r.of)
        /\ db' = SessionsRevoked(WithAdmin(db, r.of, FALSE), SessionsOf(db, r.of))
    BY <1>1, <1>4 DEF Demote, Commit, MayDemote, Demoted, AccountRequest
  <2>2. Modest(db, db', {r.of})
    BY <1>1, <1>2, <2>1, RoleChangeModest
  <2> QED
    BY <1>1, <2>1, <2>2, ModestAllowed
<1>5. CASE Disable(r)
  <2>1. /\ r.of \in Account /\ ~ LastAdmin(db, r.of) /\ db.status[r.of] # "absent"
        /\ db' = SessionsRevoked(LinksRevoked(WithStatus(db, r.of, "disabled"), r.of),
                                 SessionsOf(db, r.of))
    BY <1>1, <1>5
       DEF Disable, Commit, MayDisable, MayStop, Disabled, AccountRequest, Active
  <2>2. Modest(db, db', {r.of})
    BY <1>1, <1>2, <2>1, StopModest DEF Status
  <2> QED
    BY <1>1, <2>1, <2>2, ModestAllowed
<1>6. CASE Enable(r)
  <2>1. /\ r.of \in Account /\ db.status[r.of] # "absent" /\ "active" \in Status
        /\ db' = WithStatus(db, r.of, "active")
    BY <1>1, <1>6 DEF Enable, Commit, MayEnable, Enabled, AccountRequest, Status
  <2>2. StatusSet(db, r.of, "active", db')
    BY <1>1, <2>1, WithStatusIs
  <2> QED
    BY <1>1, <2>1, <2>2, StatusModest, QuietAllowed
<1>7. CASE Ban(r)
  BY <1>1, <1>7, BanModest, QuietAllowed DEF Ban, Commit, AccountRequest
<1>8. CASE Lift(r)
  BY <1>1, <1>8, LiftModest, QuietAllowed DEF Lift, Commit, AccountRequest
<1>9. CASE Recover(r)
  <2>1. PICK f : f = WithAdmin(db, r.by, TRUE)
    OBVIOUS
  <2>2. PICK S \in SUBSET Session : db' = SessionsRevoked(f, S)
    <3> DEFINE S == {x \in Session \ {r.item} :
                       \E u \in Account : f.admin[u] /\ db.session[x].of = u}
    <3>1. S \in SUBSET Session
      OBVIOUS
    <3>2. db' = SessionsRevoked(f, S)
      BY <1>9, <2>1 DEF Recover, Commit, Recovered
    <3> QED
      BY <3>1, <3>2
  <2>3. r.by \in Account
    BY <1>1 DEF AccountRequest
  <2>4. Modest(db, db', {})
    BY <1>1, <2>1, <2>2, <2>3, RoleChangeModest
  <2> QED
    BY <1>1, <2>4, QuietAllowed
<1>10. CASE RevokeSession(r)
  <2>1. {r.item} \in SUBSET Session /\ db' = SessionsRevoked(db, {r.item})
    BY <1>1, <1>10 DEF RevokeSession, Commit, SessionEnded, AccountRequest
  <2> QED
    BY <1>1, <2>1, SessionsModest, QuietAllowed
<1>11. CASE Unlink(r)
  <2>1. r.of \in Account /\ db' = IdentityNow(db, r.item, Nobody, r.of)
        /\ Nobody \in AccountOrNobody
    BY <1>1, <1>11
       DEF Unlink, Commit, Unlinked, AccountRequest, IdentityNow, AccountOrNobody
  <2>2. IdentitySet(db, r.item, Nobody, r.of, db')
    BY <1>1, <2>1, IdentityIs
  <2> QED
    BY <1>1, <2>2, IdentityModest, QuietAllowed
<1>12. CASE DeleteAccount(r)
  <2>1. /\ r.by \in Account /\ r.plan \in Prepared(r.seen, r.by)
        /\ MayDeleteAccount(db, r) /\ db' = AccountDeleted(db, r)
    BY <1>1, <1>12 DEF DeleteAccount, Commit, AccountRequest
  <2> QED
    BY <1>1, <2>1, DeleteAccountModest, QuietAllowed
<1>13. CASE SetCircuit(r)
  <2>1. \E v : db' = [db EXCEPT !.circuit = v]
    BY <1>13 DEF SetCircuit, Commit, CircuitSet
  <2> QED
    BY <1>1, <2>1, OtherColumnAllowed DEF Columns
<1>14. CASE SetLimit(r)
  <2>1. db' = [db EXCEPT !.accountsPerDay = r.limit]
    BY <1>14 DEF SetLimit, Commit, LimitSet
  <2> QED
    BY <1>1, <2>1, OtherColumnAllowed DEF Columns
<1> QED
  BY <1>3, <1>4, <1>5, <1>6, <1>7, <1>8, <1>9, <1>10, <1>11, <1>12, <1>13, <1>14
     DEF Governance

\* What is done to sign in.
LEMMA SigningInAllowed ==
  ASSUME Inv, db' \in Database, NEW d \in Views, NEW r \in SignInRequests(d),
         SigningIn(r)
  PROVE  Allowed(db, db')
<1>1. /\ SignInRequest(r) /\ r.seen = d /\ d.clock \in Nat
      /\ Fresh(db, d.clock) /\ d.clock <= db.clock /\ db \in Database
      /\ Remembered(db, "account", Nobody)
  BY SignInRequestIs, ViewIs DEF Inv, TypeOK, Sound, Remembers
<1>2. CASE Bootstrap(r)
  <2>1. r.by \in Account /\ TRUE \in BOOLEAN /\ db' = WithAdmin(db, r.by, TRUE)
    BY <1>1, <1>2 DEF Bootstrap, Commit, Bootstrapped, SignInRequest
  <2>2. AdminSet(db, r.by, TRUE, db')
    BY <1>1, <2>1, WithAdminIs
  <2> QED
    BY <1>1, <2>1, <2>2, AdminModest, QuietAllowed
<1>3. ASSUME NEW v, db' = [db EXCEPT !.oauth = v]
      PROVE  Allowed(db, db')
  BY <1>1, <1>3, OtherColumnAllowed DEF Columns
<1>4. CASE Begin(r)
  BY <1>3, <1>4 DEF Begin, Commit, Begun
<1>5. CASE Claim(r)
  <2>1. db' = [db EXCEPT !.oauth[r.item].state = "claimed",
                         !.oauth[r.item].identity = r.identity]
    BY <1>5 DEF Claim, Commit, Claimed
  <2>2. \E v : db' = [db EXCEPT !.oauth = v]
    BY <2>1, ZenonT(60)
  <2> QED
    BY <1>3, <2>2
<1>6. CASE Recognize(r)
  <2>1. PICK u : db' = [db EXCEPT !.oauth[r.item].state = "resolved",
                                  !.oauth[r.item].user = u]
    BY <1>6 DEF Recognize, Commit, Recognized, Resolved
  <2>2. \E v : db' = [db EXCEPT !.oauth = v]
    BY <2>1, ZenonT(60)
  <2> QED
    BY <1>3, <2>2
<1>7. CASE LinkIdentity(r)
  BY <1>1, <1>7, LinkIdentityAllowed DEF LinkIdentity, Commit, SignInRequest
<1>8. CASE Enroll(r)
  BY <1>1, <1>8, EnrollAllowed DEF Enroll, Commit, SignInRequest
<1>9. CASE Issue(r)
  BY <1>1, <1>9, IssuedAllowed DEF Issue, Commit
<1> QED
  BY <1>2, <1>4, <1>5, <1>6, <1>7, <1>8, <1>9 DEF SigningIn

\* A step of the whole.
LEMMA NextAllowed ==
  ASSUME Inv, [Next]_vars
  PROVE  Allowed(db, db')
<1>1. db \in Database /\ db' \in Database
  BY NextInv DEF Inv, TypeOK
<1>2. CASE Serve
  BY <1>1, <1>2, MembershipAllowed, GovernanceAllowed, SigningInAllowed DEF Serve
<1>3. CASE db' = db
  BY <1>1, <1>3, PartsSame DEF Allowed, Unpaused
<1>4. CASE Look \/ UNCHANGED vars
  BY <1>3, <1>4 DEF Look, vars
<1>5. CASE Tick
  <2>1. \E v : db' = [db EXCEPT !.clock = v]
    BY <1>5 DEF Tick
  <2> QED
    BY <1>1, <2>1, OtherColumnAllowed DEF Columns
<1>6. CASE Clean
  BY <1>1, <1>6, CleanedAllowed DEF Clean
<1>7. CASE ExpireLink
  BY <1>1, <1>7, ExpiryAllowed DEF ExpireLink
<1>8. CASE ExpireSignIn
  <2>1. \E v : db' = [db EXCEPT !.oauth = v]
    BY <1>8 DEF ExpireSignIn
  <2> QED
    BY <1>1, <2>1, OtherColumnAllowed DEF Columns
<1> QED
  BY <1>2, <1>4, <1>5, <1>6, <1>7, <1>8 DEF Next

\* An installation with an active administrator keeps one, whatever order
\* administrators demote, disable and delete each other in.
THEOREM AdministratorsRemain == Spec => AdminRemains
<1>1. Inv /\ [Next]_vars => Administered(db, db')
  BY NextAllowed DEF Allowed
<1> QED
  BY <1>1, AccessInvariant, PTL DEF Spec, AdminRemains

\* Nobody becomes a member but by initializing the workspace, taking it over as an
\* administrator, or using up a link, which lets in one account.
THEOREM MembersAreInvited == Spec => MembersEnterByInvitation
<1>1. Inv /\ [Next]_vars => Invited(db, db')
  BY NextAllowed DEF Allowed
<1> QED
  BY <1>1, AccessInvariant, PTL DEF Spec, MembersEnterByInvitation

\* An identity goes to a new account, or to the account whose live session asked
\* for it, and never passes from one account to another.
THEOREM IdentitiesAreIntended == Spec => IdentitiesFollowIntent
<1>1. Inv /\ [Next]_vars => Intended(db, db')
  BY NextAllowed DEF Allowed
<1> QED
  BY <1>1, AccessInvariant, PTL DEF Spec, IdentitiesFollowIntent

\* What a circuit governs does not happen while it is paused, though the handler
\* found it open, and an account that is opened is counted.
THEOREM PausesAreHeld == Spec => PausesHold
<1>1. Inv /\ [Next]_vars => Unpaused(db, db')
  BY NextAllowed DEF Allowed
<1> QED
  BY <1>1, AccessInvariant, PTL DEF Spec, PausesHold
=============================================================================
