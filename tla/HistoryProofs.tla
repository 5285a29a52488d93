---------------------------- MODULE HistoryProofs ----------------------------
(***************************************************************************)
(* What compactWorkspaceHistory never takes and what it always reaches,    *)
(* for every workspace, sequence of commands and limits:                   *)
(* AcceptedChangeKept.  Each of its steps keeps the activities and audit   *)
(* events that the command just accepted needs (Keeps), whatever it drops, *)
(* and goes back on no limit that a step before it reached; and the        *)
(* invariant of the workspace says that audit events name activities that  *)
(* exist, which undo and redo rely on, and that no two are of one command, *)
(* so that as many go as are counted.  The inventory itself plays no part. *)
(***************************************************************************)
EXTENDS WorkspaceHistory, PickingProofs, SequenceTheorems

(* Histories. *)

Entries(P) == [id : Nat, patches : Seq(P), status : {"applied", "undone"}]

Events == [id : Nat, targets : Seq(Nat), type : {"undo", "redo"}]

Histories(P) ==
  [activities : Seq(Entries(P)), audit : Seq(Events), receipts : Seq(Nat)]

IsHistory(h) == \E P : h \in Histories(P)

Ids(entries) == {entries[i].id : i \in DOMAIN entries}

ActivityIds(h) == Ids(h.activities)

EventIds(h) == Ids(h.audit)

\* No two entries have the same id.
Distinct(entries) ==
  \A i, j \in DOMAIN entries : entries[i].id = entries[j].id => i = j

\* Audit events name only activities that exist.
Knows(h) ==
  \A i \in DOMAIN h.audit : ToSet(h.audit[i].targets) \subseteq ActivityIds(h)

\* The newest audit event is this one, and about these activities.
LastIs(h, id, T) ==
  /\ h.audit # << >>
  /\ h.audit[Len(h.audit)].id = id
  /\ ToSet(h.audit[Len(h.audit)].targets) = T

\* What every step of compaction from g to h leaves, when these activities and
\* audit events are protected.
Keeps(g, h, acts, audits) ==
  /\ IsHistory(h)
  /\ ActivityIds(h) \subseteq ActivityIds(g) /\ EventIds(h) \subseteq EventIds(g)
  /\ ActivityIds(g) \cap acts \subseteq ActivityIds(h)
  /\ Knows(g) => Knows(h)
  /\ Distinct(g.audit) => Distinct(h.audit)
  /\ Len(g.audit) <= AuditLimit => Len(h.audit) <= AuditLimit
  /\ Len(g.receipts) <= ReceiptLimit => Len(h.receipts) <= ReceiptLimit
  /\ \A n \in audits, T \in SUBSET (ActivityIds(g) \cap acts) :
       T # {} /\ LastIs(g, n, T) => LastIs(h, n, T)

\* A function on the numbers to n is a list.
LEMMA ListIs ==
  ASSUME NEW T, NEW n \in Nat, NEW f \in [1..n -> T]
  PROVE  f \in Seq(T) /\ Len(f) = n /\ DOMAIN f = 1..n
OBVIOUS

\* A list of some is a list of more.
LEMMA WiderList ==
  ASSUME NEW S, NEW T, S \subseteq T, NEW s \in Seq(S)
  PROVE  s \in Seq(T)
OBVIOUS

\* Ids are the numbers of commands.
LEMMA IdsAreNumbers ==
  ASSUME NEW h, IsHistory(h)
  PROVE  \A n \in ActivityIds(h) \cup EventIds(h) : n \in Nat
<1>1. PICK P : h.activities \in Seq(Entries(P)) /\ h.audit \in Seq(Events)
  BY DEF IsHistory, Histories
<1>2. ASSUME NEW i \in DOMAIN h.activities
      PROVE  h.activities[i].id \in Nat
  <2>1. h.activities[i] \in Entries(P)
    BY <1>1
  <2> QED
    BY <2>1 DEF Entries
<1>3. ASSUME NEW i \in DOMAIN h.audit
      PROVE  h.audit[i].id \in Nat
  <2>1. h.audit[i] \in Events
    BY <1>1
  <2> QED
    BY <2>1 DEF Events
<1> QED
  BY <1>2, <1>3 DEF ActivityIds, EventIds, Ids

\* IdsOf lists the ids.
LEMMA IdsAre ==
  ASSUME NEW s
  PROVE  ToSet(IdsOf(s)) = Ids(s)
BY DEF ToSet, IdsOf, Ids

\* Nothing was dropped.
LEMMA KeepsSame ==
  ASSUME NEW h, IsHistory(h), NEW acts, NEW audits
  PROVE  Keeps(h, h, acts, audits)
BY DEF Keeps

\* One step after another.
LEMMA KeepsAfter ==
  ASSUME NEW f, NEW g, NEW h, NEW acts, NEW audits,
         Keeps(f, g, acts, audits), Keeps(g, h, acts, audits)
  PROVE  Keeps(f, h, acts, audits)
<1>1. /\ IsHistory(h)
      /\ ActivityIds(h) \subseteq ActivityIds(f) /\ EventIds(h) \subseteq EventIds(f)
      /\ ActivityIds(f) \cap acts \subseteq ActivityIds(h)
      /\ Knows(f) => Knows(h)
      /\ Distinct(f.audit) => Distinct(h.audit)
      /\ Len(f.audit) <= AuditLimit => Len(h.audit) <= AuditLimit
      /\ Len(f.receipts) <= ReceiptLimit => Len(h.receipts) <= ReceiptLimit
  BY DEF Keeps
<1>2. ASSUME NEW n \in audits, NEW T \in SUBSET (ActivityIds(f) \cap acts),
             T # {}, LastIs(f, n, T)
      PROVE  LastIs(h, n, T)
  <2>1. T \in SUBSET (ActivityIds(g) \cap acts) /\ LastIs(g, n, T)
    BY <1>2 DEF Keeps
  <2> QED
    BY <1>2, <2>1 DEF Keeps
<1> QED
  BY <1>1, <1>2 DEF Keeps

\* A list of entries' ids is one of numbers.
LEMMA IdsList ==
  ASSUME NEW S, NEW s \in Seq(S), \A i \in DOMAIN s : s[i].id \in Nat
  PROVE  IdsOf(s) \in Seq(Nat)
<1>1. DOMAIN s = 1..Len(s) /\ Len(s) \in Nat
  OBVIOUS
<1>2. IdsOf(s) \in [1..Len(s) -> Nat]
  BY <1>1 DEF IdsOf
<1> QED
  BY <1>1, <1>2, ListIs

\* Entries with different ids are as many as their ids.
LEMMA CountedById ==
  ASSUME NEW T, NEW s \in Seq(T), Distinct(s)
  PROVE  IsFiniteSet(Ids(s)) /\ Cardinality(Ids(s)) = Len(s)
<1> DEFINE n == Len(s)
           f == [i \in 1..n |-> s[i].id]
<1>1. n \in Nat /\ DOMAIN s = 1..n
  OBVIOUS
<1> HIDE DEF n
<1>2. f \in [1..n -> Ids(s)]
  BY <1>1 DEF Ids
<1>3. \A i, j \in 1..n : f[i] = f[j] => i = j
  BY <1>1 DEF Distinct
<1>4. \A x \in Ids(s) : \E i \in 1..n : f[i] = x
  BY <1>1 DEF Ids
<1>5. DOMAIN f = 1..n
  OBVIOUS
<1> HIDE DEF f
<1>6. ExistsBijection(1..n, Ids(s))
  BY <1>2, <1>3, <1>4, <1>5
     DEF ExistsBijection, Bijection, Injection, Surjection, IsInjective
<1>7. IsFiniteSet(1..n) /\ Cardinality(1..n) = n
  <2>1. 1 \in Int /\ n \in Int /\ (IF 1 > n THEN 0 ELSE n - 1 + 1) = n
    BY <1>1
  <2> QED
    BY <2>1, FS_Interval
<1> QED
  BY <1>6, <1>7, FS_Bijection DEF n

\* What is picked of them has different ids, and is no more.
LEMMA PickedDistinct ==
  ASSUME NEW T, NEW s \in Seq(T), NEW K \in SUBSET DOMAIN s
  PROVE  /\ Distinct(s) => Distinct(Picked(s, K))
         /\ Len(Picked(s, K)) \in Nat /\ Len(Picked(s, K)) <= Len(s)
<1> DEFINE p == Picked(s, K)
<1>1. /\ Len(p) \in Nat /\ Len(p) <= Len(s)
      /\ \E at \in [DOMAIN p -> K] :
           /\ \A i \in DOMAIN p : p[i] = s[at[i]]
           /\ \A i, j \in DOMAIN p : i # j => at[i] # at[j]
  BY PickedPlaces
<1> HIDE DEF p
<1>2. PICK at \in [DOMAIN p -> K] :
        /\ \A i \in DOMAIN p : p[i] = s[at[i]]
        /\ \A i, j \in DOMAIN p : i # j => at[i] # at[j]
  BY <1>1
<1>3. \A i \in DOMAIN p : at[i] \in DOMAIN s
  OBVIOUS
<1>4. Distinct(s) => Distinct(p)
  BY <1>2, <1>3 DEF Distinct
<1> QED
  BY <1>1, <1>4 DEF p

\* The limits on activities and their patches.
Fits(entries) ==
  Len(entries) <= ActivityLimit /\ PatchesIn(entries) <= PatchLimit

\* What is left of entries that fit, fits.
LEMMA WithoutFits ==
  ASSUME NEW P, NEW entries \in Seq(Entries(P)), NEW gone, Fits(entries)
  PROVE  Fits(Without(entries, gone))
<1> DEFINE K == {i \in DOMAIN entries : entries[i].id \notin gone}
           w == Picked(entries, K)
           Places(s) == UNION {{i} \X DOMAIN s[i].patches : i \in DOMAIN s}
<1>1. Without(entries, gone) = w
  BY DEF Without
<1>2. K \in SUBSET DOMAIN entries
  OBVIOUS
<1> HIDE DEF K
<1>3. /\ Len(w) \in Nat /\ Len(w) <= Len(entries)
      /\ \E at \in [DOMAIN w -> K] :
           /\ \A i \in DOMAIN w : w[i] = entries[at[i]]
           /\ \A i, j \in DOMAIN w : i # j => at[i] # at[j]
  BY <1>2, PickedPlaces
<1> HIDE DEF w
<1>4. PICK at \in [DOMAIN w -> K] :
        /\ \A i \in DOMAIN w : w[i] = entries[at[i]]
        /\ \A i, j \in DOMAIN w : i # j => at[i] # at[j]
  BY <1>3
<1>5. IsFiniteSet(Places(entries))
  <2> DEFINE row == [i \in DOMAIN entries |-> {i} \X DOMAIN entries[i].patches]
             rows == {{i} \X DOMAIN entries[i].patches : i \in DOMAIN entries}
  <2>1. DOMAIN entries = 1..Len(entries) /\ Len(entries) \in Nat
    OBVIOUS
  <2>2. IsFiniteSet(DOMAIN entries)
    BY <2>1, FS_Interval
  <2>3. row \in Surjection(DOMAIN entries, rows)
    BY DEF Surjection
  <2> HIDE DEF row
  <2>4. IsFiniteSet(rows)
    <3> HIDE DEF rows
    <3> QED
      BY <2>2, <2>3, FS_Surjection
  <2>5. ASSUME NEW i \in DOMAIN entries
        PROVE  IsFiniteSet({i} \X DOMAIN entries[i].patches)
    <3>0. entries[i] \in Entries(P)
      OBVIOUS
    <3>1. entries[i].patches \in Seq(P)
      BY <3>0 DEF Entries
    <3>2. /\ DOMAIN entries[i].patches = 1..Len(entries[i].patches)
          /\ Len(entries[i].patches) \in Nat
      BY <3>1
    <3>3. IsFiniteSet(DOMAIN entries[i].patches)
      BY <3>2, FS_Interval
    <3> QED
      BY <3>3, FS_Singleton, FS_Product
  <2>6. \A r \in rows : IsFiniteSet(r)
    BY <2>5
  <2> HIDE DEF rows
  <2>7. IsFiniteSet(UNION rows)
    BY <2>4, <2>6, FS_UNION
  <2> QED
    BY <2>7 DEF rows
<1>6. \E f : f \in Injection(Places(w), Places(entries))
  <2> DEFINE f == [q \in Places(w) |-> <<at[q[1]], q[2]>>]
  <2>1. ASSUME NEW q \in Places(w)
        PROVE  /\ q[1] \in DOMAIN w /\ q[2] \in DOMAIN w[q[1]].patches
               /\ q = <<q[1], q[2]>> /\ f[q] = <<at[q[1]], q[2]>>
               /\ f[q] \in Places(entries)
    <3>1. PICK i \in DOMAIN w : q \in {i} \X DOMAIN w[i].patches
      BY <2>1
    <3>2. q[1] = i /\ q[2] \in DOMAIN w[i].patches /\ q = <<q[1], q[2]>>
      BY <3>1
    <3>3. at[i] \in DOMAIN entries /\ w[i] = entries[at[i]]
      BY <1>2, <1>4, <3>1
    <3>4. <<at[i], q[2]>> \in {at[i]} \X DOMAIN entries[at[i]].patches
      BY <3>2, <3>3
    <3> QED
      BY <3>1, <3>2, <3>3, <3>4
  <2>2. ASSUME NEW q \in Places(w), NEW r \in Places(w), f[q] = f[r]
        PROVE  q = r
    <3>1. at[q[1]] = at[r[1]] /\ q[2] = r[2]
      BY <2>1, <2>2
    <3>2. q[1] = r[1]
      BY <1>4, <2>1, <3>1
    <3> QED
      BY <2>1, <3>1, <3>2
  <2>3. f \in [Places(w) -> Places(entries)]
    <3>1. \A q \in Places(w) : f[q] \in Places(entries)
      BY <2>1
    <3>2. f = [q \in Places(w) |-> f[q]]
      OBVIOUS
    <3> HIDE DEF f, Places
    <3> QED
      BY <3>1, <3>2
  <2> HIDE DEF f, Places
  <2>4. f \in Injection(Places(w), Places(entries))
    BY <2>2, <2>3 DEF Injection, IsInjective
  <2> QED
    BY <2>4
<1>7. PatchesIn(w) <= PatchesIn(entries) /\ PatchesIn(w) \in Nat /\ PatchesIn(entries) \in Nat
  <2>1. PatchesIn(w) = Cardinality(Places(w)) /\ PatchesIn(entries) = Cardinality(Places(entries))
    BY DEF PatchesIn
  <2> HIDE DEF Places
  <2>2. IsFiniteSet(Places(w)) /\ Cardinality(Places(w)) <= Cardinality(Places(entries))
    BY <1>5, <1>6, FS_Injection
  <2> QED
    BY <1>5, <2>1, <2>2, FS_CardinalityType
<1>8. ActivityLimit \in Nat /\ PatchLimit \in Nat /\ Len(entries) \in Nat
  BY RetentionAssumption
<1> QED
  BY <1>1, <1>3, <1>7, <1>8 DEF Fits

(* The steps of compaction. *)

\* filter keeps the entries that are not gone, and the newest if that one is not.
LEMMA WithoutIs ==
  ASSUME NEW T, NEW entries \in Seq(T), NEW gone
  PROVE  /\ Without(entries, gone) \in Seq(T)
         /\ Ids(Without(entries, gone)) = Ids(entries) \ gone
         /\ \A i \in DOMAIN Without(entries, gone) :
              \E k \in DOMAIN entries : Without(entries, gone)[i] = entries[k]
         /\ Distinct(entries) => Distinct(Without(entries, gone))
         /\ Len(Without(entries, gone)) \in Nat
         /\ Len(Without(entries, gone)) <= Len(entries)
         /\ entries # << >> /\ entries[Len(entries)].id \notin gone =>
              /\ Without(entries, gone) # << >>
              /\ Without(entries, gone)[Len(Without(entries, gone))] = entries[Len(entries)]
<1> DEFINE K == {i \in DOMAIN entries : entries[i].id \notin gone}
           w == Picked(entries, K)
<1>1. Without(entries, gone) = w
  BY DEF Without
<1>2. K \in SUBSET DOMAIN entries
  OBVIOUS
<1>3. /\ w \in Seq(T)
      /\ \A i \in DOMAIN w : \E k \in K : w[i] = entries[k]
      /\ \A k \in K : \E i \in DOMAIN w : w[i] = entries[k]
  BY <1>2, PickedIs
<1>4. ASSUME entries # << >>, entries[Len(entries)].id \notin gone
      PROVE  w # << >> /\ w[Len(w)] = entries[Len(entries)]
  <2>1. Len(entries) \in DOMAIN entries
    BY <1>4
  <2>2. Len(entries) \in K
    BY <1>4, <2>1
  <2> HIDE DEF K
  <2> QED
    BY <1>2, <2>2, PickedLast
<1>5. Ids(w) = Ids(entries) \ gone
  <2> HIDE DEF w
  <2>1. \A i \in DOMAIN w : w[i].id \in Ids(entries) \ gone
    BY <1>3 DEF Ids
  <2>2. \A k \in DOMAIN entries : entries[k].id \notin gone => entries[k].id \in Ids(w)
    BY <1>3 DEF Ids
  <2> QED
    BY <2>1, <2>2 DEF Ids
<1>6. (Distinct(entries) => Distinct(w)) /\ Len(w) \in Nat /\ Len(w) <= Len(entries)
  <2> HIDE DEF K
  <2> QED
    BY <1>2, PickedDistinct
<1> HIDE DEF w
<1> QED
  BY <1>1, <1>3, <1>4, <1>5, <1>6

\* The removable ids are a sequence of ids that are not kept.
LEMMA RemovableIs ==
  ASSUME NEW T, NEW entries \in Seq(T), NEW kept, NEW n
  PROVE  /\ Len(Removable(entries, kept)) \in Nat
         /\ n \in 0..Len(Removable(entries, kept)) =>
              First(Removable(entries, kept), n) \cap kept = {}
         /\ First(Removable(entries, kept), Len(Removable(entries, kept)))
              = Ids(entries) \ kept
<1> DEFINE w == Without(entries, kept)
           r == Removable(entries, kept)
<1>1. w \in Seq(T) /\ Ids(w) = Ids(entries) \ kept
  BY WithoutIs
<1>2. r = [i \in DOMAIN w |-> w[i].id]
  BY DEF Removable, IdsOf
<1> HIDE DEF w, r
<1>3. Len(w) \in Nat /\ DOMAIN w = 1..Len(w)
  BY <1>1
<1>4. Len(r) = Len(w) /\ \A i \in 1..Len(w) : r[i] = w[i].id
  BY <1>2, <1>3
<1>5. \A i \in 1..Len(w) : r[i] \in Ids(entries) \ kept
  BY <1>1, <1>3, <1>4 DEF Ids
<1>6. First(r, Len(r)) = Ids(w)
  BY <1>3, <1>4 DEF First, Ids
<1>7. n \in 0..Len(r) => First(r, n) \cap kept = {}
  BY <1>3, <1>4, <1>5 DEF First
<1> QED
  BY <1>1, <1>3, <1>4, <1>6, <1>7 DEF r

\* Of entries with different ids, as many go as of the removable are named.
LEMMA DropCounted ==
  ASSUME NEW T, NEW entries \in Seq(T), Distinct(entries), NEW kept,
         NEW m \in 0..Len(Removable(entries, kept))
  PROVE  Len(Without(entries, First(Removable(entries, kept), m))) = Len(entries) - m
<1> DEFINE w == Without(entries, kept)
           r == Removable(entries, kept)
           gone == First(r, m)
           left == Without(entries, gone)
           f == [i \in 1..m |-> r[i]]
<1>1. w \in Seq(T) /\ Distinct(w) /\ Ids(w) = Ids(entries) \ kept
  BY WithoutIs
<1>2. r = [i \in DOMAIN w |-> w[i].id]
  BY DEF Removable, IdsOf
<1> HIDE DEF w
<1>3. Len(w) \in Nat /\ DOMAIN w = 1..Len(w)
  BY <1>1
<1>4. Len(r) = Len(w) /\ \A i \in 1..Len(w) : r[i] = w[i].id
  BY <1>2, <1>3
<1>5. m \in Nat /\ \A i \in 1..m : i \in 1..Len(w)
  <2>1. m \in 0..Len(r)
    OBVIOUS
  <2> HIDE DEF r
  <2> QED
    BY <1>3, <1>4, <2>1
<1> HIDE DEF r
<1>6. \A i \in 1..m : r[i] \in Ids(entries)
  <2>1. \A i \in 1..Len(w) : w[i].id \in Ids(w)
    BY <1>3 DEF Ids
  <2> QED
    BY <1>1, <1>4, <1>5, <2>1
<1>7. \A i, j \in 1..m : r[i] = r[j] => i = j
  BY <1>1, <1>3, <1>4, <1>5 DEF Distinct
<1>8. f \in [1..m -> gone] /\ DOMAIN f = 1..m
      /\ (\A i, j \in 1..m : f[i] = f[j] => i = j)
      /\ (\A x \in gone : \E i \in 1..m : f[i] = x)
  BY <1>7 DEF First
<1>9. gone \subseteq Ids(entries)
  BY <1>6 DEF First
<1> HIDE DEF f, gone
<1>10. ExistsBijection(1..m, gone)
  BY <1>8 DEF ExistsBijection, Bijection, Injection, Surjection, IsInjective
<1>11. IsFiniteSet(1..m) /\ Cardinality(1..m) = m
  <2>1. 1 \in Int /\ m \in Int /\ (IF 1 > m THEN 0 ELSE m - 1 + 1) = m
    BY <1>5
  <2> QED
    BY <2>1, FS_Interval
<1>12. Cardinality(gone) = m
  BY <1>10, <1>11, FS_Bijection
<1>13. left \in Seq(T) /\ Distinct(left) /\ Ids(left) = Ids(entries) \ gone
  BY WithoutIs
<1> HIDE DEF left
<1>14. Cardinality(Ids(left)) = Len(left)
  BY <1>13, CountedById
<1>15. IsFiniteSet(Ids(entries)) /\ Cardinality(Ids(entries)) = Len(entries)
  BY CountedById
<1>16. Ids(entries) \cap gone = gone
  BY <1>9
<1>17. Cardinality(Ids(left)) = Len(entries) - m
  BY <1>12, <1>13, <1>15, <1>16, FS_Difference
<1> QED
  BY <1>14, <1>17 DEF left, gone, r

\* All of them but one are removable when one is protected.
LEMMA RemovableCounted ==
  ASSUME NEW T, NEW entries \in Seq(T), Distinct(entries), NEW kept,
         kept = {} \/ \E x : kept = {x}
  PROVE  /\ Len(Removable(entries, kept)) \in Nat
         /\ Len(entries) - 1 <= Len(Removable(entries, kept))
<1> DEFINE w == Without(entries, kept)
           r == Removable(entries, kept)
<1>1. w \in Seq(T) /\ Distinct(w) /\ Ids(w) = Ids(entries) \ kept
  BY WithoutIs
<1>2. r = [i \in DOMAIN w |-> w[i].id]
  BY DEF Removable, IdsOf
<1> HIDE DEF w, r
<1>3. Len(r) = Len(w) /\ Len(w) \in Nat
  <2>1. Len(w) \in Nat /\ DOMAIN w = 1..Len(w)
    BY <1>1
  <2> QED
    BY <1>2, <2>1
<1>4. Cardinality(Ids(w)) = Len(w)
  BY <1>1, CountedById
<1>5. /\ IsFiniteSet(Ids(entries)) /\ Cardinality(Ids(entries)) = Len(entries)
      /\ Len(entries) \in Nat
  BY CountedById
<1>6. Len(entries) - 1 <= Cardinality(Ids(w))
  <2>1. CASE kept = {}
    <3>1. Ids(w) = Ids(entries)
      BY <1>1, <2>1
    <3> QED
      BY <1>5, <3>1
  <2>2. ASSUME NEW x, kept = {x}
        PROVE  Len(entries) - 1 <= Cardinality(Ids(w))
    <3> DEFINE S == Ids(entries)
    <3>1. Ids(w) = S \ {x} /\ IsFiniteSet(S) /\ Cardinality(S) = Len(entries)
      BY <1>1, <1>5, <2>2
    <3> HIDE DEF S
    <3>2. Cardinality(S \ {x}) = IF x \in S THEN Cardinality(S) - 1 ELSE Cardinality(S)
      BY <3>1, FS_RemoveElement
    <3> QED
      BY <1>5, <3>1, <3>2
  <2> QED
    BY <2>1, <2>2
<1> QED
  BY <1>3, <1>4, <1>6 DEF r

\* The removable ids are a list, and so are those that are dropped.
LEMMA RemovableList ==
  ASSUME NEW h, IsHistory(h), NEW kept
  PROVE  Removable(h.audit, kept) \in Seq(Nat)
<1> DEFINE w == Without(h.audit, kept)
<1>1. h.audit \in Seq(Events)
  BY DEF IsHistory, Histories
<1>2. w \in Seq(Events)
  BY <1>1, WithoutIs
<1> HIDE DEF w
<1>3. ASSUME NEW i \in DOMAIN w
      PROVE  w[i].id \in Nat
  <2>1. w[i] \in Events
    BY <1>2
  <2> QED
    BY <2>1 DEF Events
<1>4. IdsOf(w) \in Seq(Nat)
  BY <1>2, <1>3, IdsList
<1> QED
  BY <1>4 DEF Removable, w

LEMMA DroppedList ==
  ASSUME NEW h, IsHistory(h), NEW gone
  PROVE  /\ Dropped(h.activities, gone) \in Seq(Nat)
         /\ Dropped(h.audit, gone) \in Seq(Nat)
<1>1. ASSUME NEW S, NEW s \in Seq(S), \A e \in S : e.id \in Nat
      PROVE  Dropped(s, gone) \in Seq(Nat)
  <2> DEFINE K == {i \in DOMAIN s : s[i].id \in gone}
             p == Picked(s, K)
  <2>1. K \in SUBSET DOMAIN s
    OBVIOUS
  <2>2. Dropped(s, gone) = IdsOf(p)
    BY DEF Dropped
  <2> HIDE DEF K
  <2>3. p \in Seq(S)
    BY <2>1, PickedIs
  <2> HIDE DEF p
  <2>4. \A i \in DOMAIN p : p[i].id \in Nat
    BY <1>1, <2>3
  <2> QED
    BY <2>2, <2>3, <2>4, IdsList
<1>2. PICK P : h.activities \in Seq(Entries(P)) /\ h.audit \in Seq(Events)
  BY DEF IsHistory, Histories
<1>3. (\A e \in Entries(P) : e.id \in Nat) /\ (\A e \in Events : e.id \in Nat)
  BY DEF Entries, Events
<1> QED
  BY <1>1, <1>2, <1>3

\* Receipts take nothing away.
LEMMA ReceiptsKeep ==
  ASSUME NEW h, IsHistory(h), NEW r \in Seq(Nat), NEW acts, NEW audits,
         Len(r) <= ReceiptLimit \/ Len(r) <= Len(h.receipts)
  PROVE  LET g == [h EXCEPT !.receipts = r]
         IN /\ Keeps(h, g, acts, audits)
            /\ g.activities = h.activities /\ g.audit = h.audit /\ g.receipts = r
<1> DEFINE g == [h EXCEPT !.receipts = r]
<1>1. PICK P : h \in Histories(P)
  BY DEF IsHistory
<1>2. /\ g \in Histories(P)
      /\ g.activities = h.activities /\ g.audit = h.audit /\ g.receipts = r
  BY <1>1 DEF Histories
<1> HIDE DEF g
<1>3. IsHistory(g)
  BY <1>2 DEF IsHistory
<1>4. /\ ActivityIds(g) = ActivityIds(h) /\ EventIds(g) = EventIds(h)
      /\ Knows(h) => Knows(g)
      /\ \A n, T : LastIs(h, n, T) => LastIs(g, n, T)
  BY <1>2 DEF ActivityIds, EventIds, Knows, LastIs
<1>5. Len(h.receipts) <= ReceiptLimit => Len(g.receipts) <= ReceiptLimit
  <2>1. h.receipts \in Seq(Nat)
    BY <1>1 DEF Histories
  <2>2. Len(h.receipts) \in Nat /\ Len(r) \in Nat /\ ReceiptLimit \in Nat
    BY <2>1, RetentionAssumption
  <2> QED
    BY <1>2, <2>2
<1>6. Keeps(h, g, acts, audits)
  BY <1>2, <1>3, <1>4, <1>5 DEF Keeps
<1> QED
  BY <1>2, <1>6 DEF g

\* withCommandReceipts takes nothing away, and keeps no more than the limit.
LEMMA WithReceiptsKeeps ==
  ASSUME NEW h, IsHistory(h), NEW ids \in Seq(Nat), NEW acts, NEW audits
  PROVE  LET g == WithReceipts(h, ids)
         IN /\ Keeps(h, g, acts, audits)
            /\ g.activities = h.activities /\ g.audit = h.audit
            /\ Len(g.receipts) <= ReceiptLimit
<1> DEFINE K == {i \in DOMAIN ids : ~ Contains(h.receipts, ids[i])}
           new == Picked(ids, K)
           all == h.receipts \o new
           d == Max({0, Len(all) - ReceiptLimit})
           r == SubSeq(all, 1 + d, Len(all))
<1>1. WithReceipts(h, ids) = [h EXCEPT !.receipts = r]
  BY DEF WithReceipts
<1>2. new \in Seq(Nat)
  <2>1. K \in SUBSET DOMAIN ids
    OBVIOUS
  <2> HIDE DEF K
  <2> QED
    BY <2>1, PickedIs
<1> HIDE DEF new
<1>3. h.receipts \in Seq(Nat)
  BY DEF IsHistory, Histories
<1>4. all \in Seq(Nat)
  BY <1>2, <1>3
<1> HIDE DEF all
<1>5. ReceiptLimit \in Nat /\ Len(all) \in Nat
  BY <1>4, RetentionAssumption
<1>6. d = IF Len(all) > ReceiptLimit THEN Len(all) - ReceiptLimit ELSE 0
  <2> DEFINE e == Len(all) - ReceiptLimit
  <2>1. e \in Int /\ (e > 0 <=> Len(all) > ReceiptLimit)
    BY <1>5
  <2> HIDE DEF e
  <2>2. Max({0, e}) = IF e > 0 THEN e ELSE 0
    BY <2>1 DEF Max
  <2> QED
    BY <2>1, <2>2 DEF e
<1> HIDE DEF d
<1>7. d \in Nat /\ d <= Len(all) /\ Len(all) - d <= ReceiptLimit
  BY <1>5, <1>6
<1>8. r \in Seq(Nat) /\ Len(r) = Len(all) - d
  BY <1>4, <1>5, <1>7
<1> HIDE DEF r
<1>9. Len(r) <= ReceiptLimit
  BY <1>7, <1>8
<1> QED
  BY <1>1, <1>8, <1>9, ReceiptsKeep

\* normalizeAudit leaves events about activities that exist, of those that were
\* there, and the newest with all it names if all of that is kept.
LEMMA TrimmedIs ==
  ASSUME NEW audit \in Seq(Events), NEW kept
  PROVE  LET t == TrimmedAudit(audit, kept) IN
         /\ t \in Seq(Events)
         /\ Ids(t) \subseteq Ids(audit)
         /\ Distinct(audit) => Distinct(t)
         /\ Len(t) \in Nat /\ Len(t) <= Len(audit)
         /\ \A i \in DOMAIN t : ToSet(t[i].targets) \subseteq kept
         /\ audit # << >> =>
              LET T == ToSet(audit[Len(audit)].targets) IN
              T # {} /\ T \subseteq kept =>
                /\ t # << >> /\ t[Len(t)].id = audit[Len(audit)].id
                /\ ToSet(t[Len(t)].targets) = T
<1> DEFINE Places(e) == {i \in DOMAIN e.targets : e.targets[i] \in kept}
           Kept(e) == Picked(e.targets, Places(e))
           left == [i \in DOMAIN audit |-> [audit[i] EXCEPT !.targets = Kept(audit[i])]]
           K == {i \in DOMAIN audit : left[i].targets # << >>}
           t == TrimmedAudit(audit, kept)
<1>1. t = Picked(left, K)
  BY DEF TrimmedAudit
<1>2. Len(audit) \in Nat /\ DOMAIN audit = 1..Len(audit)
      /\ \A i \in DOMAIN audit : audit[i] \in Events
  OBVIOUS
<1>3. ASSUME NEW e \in Events
      PROVE  /\ Kept(e) \in Seq(Nat) /\ ToSet(Kept(e)) \subseteq kept
             /\ ToSet(e.targets) \subseteq kept => ToSet(Kept(e)) = ToSet(e.targets)
  <2>1. e.targets \in Seq(Nat) /\ Places(e) \in SUBSET DOMAIN e.targets
    BY DEF Events
  <2> DEFINE s == e.targets
             Q == Places(e)
             p == Kept(e)
  <2>2. /\ p \in Seq(Nat)
        /\ \A i \in DOMAIN p : \E k \in Q : p[i] = s[k]
        /\ \A k \in Q : \E i \in DOMAIN p : p[i] = s[k]
    BY <2>1, PickedIs
  <2> HIDE DEF p
  <2>3. ToSet(p) \subseteq kept
    BY <2>2 DEF ToSet
  <2>4. ASSUME ToSet(s) \subseteq kept
        PROVE  ToSet(p) = ToSet(s)
    <3>1. Q = DOMAIN s
      BY <2>4 DEF ToSet
    <3> QED
      BY <2>2, <3>1 DEF ToSet
  <2> QED
    BY <2>2, <2>3, <2>4 DEF p
<1> HIDE DEF Kept
<1>4. ASSUME NEW i \in DOMAIN audit
      PROVE  left[i] \in Events /\ left[i].id = audit[i].id /\ left[i].targets = Kept(audit[i])
  <2>1. audit[i] \in Events /\ Kept(audit[i]) \in Seq(Nat)
    BY <1>2, <1>3
  <2> QED
    BY <2>1 DEF Events
<1>5. left \in Seq(Events) /\ DOMAIN left = DOMAIN audit /\ Len(left) = Len(audit)
  <2>1. left \in [1..Len(audit) -> Events]
    BY <1>2, <1>4
  <2>2. DOMAIN left = DOMAIN audit
    OBVIOUS
  <2> HIDE DEF left
  <2> QED
    BY <1>2, <2>1, <2>2
<1>6. K \in SUBSET DOMAIN left
  BY <1>5
<1> HIDE DEF left
<1>7. /\ t \in Seq(Events)
      /\ \A i \in DOMAIN t : \E k \in K : t[i] = left[k]
      /\ \A k \in K : \E i \in DOMAIN t : t[i] = left[k]
  <2> HIDE DEF K, t
  <2> QED
    BY <1>1, <1>5, <1>6, PickedIs
<1>8. \A i \in DOMAIN t : t[i].id \in Ids(audit) /\ ToSet(t[i].targets) \subseteq kept
  <2>1. \A k \in DOMAIN audit :
          left[k].id \in Ids(audit) /\ ToSet(left[k].targets) \subseteq kept
    BY <1>2, <1>3, <1>4 DEF Ids
  <2>2. \A i \in DOMAIN t : \E k \in DOMAIN audit : t[i] = left[k]
    BY <1>7
  <2> HIDE DEF t, K
  <2> QED
    BY <2>1, <2>2
<1>9. ASSUME audit # << >>, NEW T, T = ToSet(audit[Len(audit)].targets), T # {}, T \subseteq kept
      PROVE  /\ t # << >> /\ t[Len(t)].id = audit[Len(audit)].id
             /\ ToSet(t[Len(t)].targets) = T
  <2> DEFINE n == Len(audit)
  <2>1. n \in DOMAIN audit /\ audit[n] \in Events
    BY <1>2, <1>9
  <2>2. left[n].id = audit[n].id /\ ToSet(left[n].targets) = T
    BY <1>3, <1>4, <1>9, <2>1
  <2>3. left[n].targets # << >>
    <3>1. ToSet(<< >>) = {}
      BY DEF ToSet
    <3> QED
      BY <1>9, <2>2, <3>1
  <2>4. Len(left) \in K
    BY <1>5, <2>1, <2>3
  <2> HIDE DEF K, t
  <2>5. t # << >> /\ t[Len(t)] = left[Len(left)]
    BY <1>1, <1>5, <1>6, <2>4, PickedLast
  <2> QED
    BY <1>5, <2>2, <2>5
<1>10. /\ Distinct(audit) => Distinct(t)
       /\ Len(t) \in Nat /\ Len(t) <= Len(audit)
  <2>1. Distinct(audit) => Distinct(left)
    BY <1>4, <1>5 DEF Distinct
  <2> HIDE DEF K, t
  <2> QED
    BY <1>1, <1>5, <1>6, <2>1, PickedDistinct
<1>11. Ids(t) \subseteq Ids(audit)
  <2> HIDE DEF t, K
  <2> QED
    BY <1>8 DEF Ids
<1> HIDE DEF t, K
<1> QED
  BY <1>7, <1>8, <1>9, <1>10, <1>11 DEF t

\* withoutActivities keeps what is protected when that is not to go.
LEMMA WithoutActivitiesKeeps ==
  ASSUME NEW h, IsHistory(h), NEW gone, NEW acts, NEW audits, gone \cap acts = {}
  PROVE  /\ Keeps(h, WithoutActivities(h, gone), acts, audits)
         /\ gone # {} => WithoutActivities(h, gone).activities = Without(h.activities, gone)
         /\ gone = {} => WithoutActivities(h, gone) = h
         /\ ActivityIds(WithoutActivities(h, gone)) = ActivityIds(h) \ gone
<1> DEFINE activities == Without(h.activities, gone)
           audit == TrimmedAudit(h.audit, ToSet(IdsOf(activities)))
           lost == Dropped(h.activities, gone)
                     \o Removable(h.audit, ToSet(IdsOf(audit)))
           g == [h EXCEPT !.activities = activities, !.audit = audit]
<1>1. WithoutActivities(h, gone) = IF gone = {} THEN h ELSE WithReceipts(g, lost)
  BY DEF WithoutActivities
<1>0. lost \in Seq(Nat)
  <2>1. Dropped(h.activities, gone) \in Seq(Nat)
    BY DroppedList
  <2>2. Removable(h.audit, ToSet(IdsOf(audit))) \in Seq(Nat)
    BY RemovableList
  <2> QED
    BY <2>1, <2>2
<1> HIDE DEF lost
<1>2. CASE gone = {}
  BY <1>1, <1>2, KeepsSame
<1>3. CASE gone # {}
  <2>1. PICK P : h \in Histories(P)
    BY DEF IsHistory
  <2>2. h.activities \in Seq(Entries(P)) /\ h.audit \in Seq(Events)
    BY <2>1 DEF Histories
  <2>3. activities \in Seq(Entries(P)) /\ Ids(activities) = ActivityIds(h) \ gone
    BY <2>2, WithoutIs DEF ActivityIds
  <2>4. ToSet(IdsOf(activities)) = Ids(activities)
    BY IdsAre
  <2> HIDE DEF activities
  <2>5. /\ audit \in Seq(Events)
        /\ Ids(audit) \subseteq EventIds(h)
        /\ Distinct(h.audit) => Distinct(audit)
        /\ Len(audit) \in Nat /\ Len(audit) <= Len(h.audit)
        /\ \A i \in DOMAIN audit : ToSet(audit[i].targets) \subseteq Ids(activities)
        /\ h.audit # << >> =>
             LET T == ToSet(h.audit[Len(h.audit)].targets) IN
             T # {} /\ T \subseteq Ids(activities) =>
               /\ audit # << >> /\ audit[Len(audit)].id = h.audit[Len(h.audit)].id
               /\ ToSet(audit[Len(audit)].targets) = T
    <3> HIDE DEF audit
    <3>1. audit = TrimmedAudit(h.audit, Ids(activities))
      BY <2>4 DEF audit
    <3> QED
      BY <2>2, <3>1, TrimmedIs DEF EventIds
  <2> HIDE DEF audit
  <2>6. /\ g \in Histories(P)
        /\ g.activities = activities /\ g.audit = audit /\ g.receipts = h.receipts
    BY <2>1, <2>3, <2>5 DEF Histories
  <2> HIDE DEF g
  <2>7. IsHistory(g) /\ ActivityIds(g) = ActivityIds(h) \ gone /\ EventIds(g) \subseteq EventIds(h)
    BY <2>3, <2>5, <2>6 DEF IsHistory, ActivityIds, EventIds
  <2>8. Knows(g)
    BY <2>5, <2>6 DEF Knows, ActivityIds
  <2>9. ASSUME NEW n \in audits, NEW T \in SUBSET (ActivityIds(h) \cap acts),
               T # {}, LastIs(h, n, T)
        PROVE  LastIs(g, n, T)
    <3>1. T \subseteq Ids(activities)
      BY <2>3
    <3> QED
      BY <2>5, <2>6, <2>9, <3>1 DEF LastIs
  <2>10. Len(h.audit) <= AuditLimit => Len(g.audit) <= AuditLimit
    BY <2>2, <2>5, <2>6, RetentionAssumption
  <2>11. Keeps(h, g, acts, audits)
    BY <2>3, <2>5, <2>6, <2>7, <2>8, <2>9, <2>10 DEF Keeps
  <2>12. Keeps(g, WithReceipts(g, lost), acts, audits)
         /\ WithReceipts(g, lost).activities = g.activities
    BY <1>0, <2>7, WithReceiptsKeeps
  <2>13. Keeps(h, WithReceipts(g, lost), acts, audits)
    BY <2>11, <2>12, KeepsAfter
  <2> QED
    BY <1>1, <1>3, <2>3, <2>6, <2>12, <2>13 DEF ActivityIds, activities
<1> QED
  BY <1>2, <1>3

\* withoutAudits too, and no activity goes.
LEMMA WithoutAuditsKeeps ==
  ASSUME NEW h, IsHistory(h), NEW gone, NEW acts, NEW audits, gone \cap audits = {}
  PROVE  /\ Keeps(h, WithoutAudits(h, gone), acts, audits)
         /\ WithoutAudits(h, gone).activities = h.activities
         /\ WithoutAudits(h, gone).audit = Without(h.audit, gone)
<1> DEFINE audit == Without(h.audit, gone)
           lost == Dropped(h.audit, gone)
           g == [h EXCEPT !.audit = audit]
<1>0. lost \in Seq(Nat)
  BY DroppedList
<1>1. PICK P : h \in Histories(P)
  BY DEF IsHistory
<1>2. h.audit \in Seq(Events)
  BY <1>1 DEF Histories
<1>3. WithoutAudits(h, gone) = WithReceipts(g, lost)
  <2>1. g = [h EXCEPT !.audit = Without(@, gone)]
    OBVIOUS
  <2> QED
    BY <2>1 DEF WithoutAudits
<1> HIDE DEF lost
<1>4. /\ audit \in Seq(Events)
      /\ Ids(audit) = EventIds(h) \ gone
      /\ Distinct(h.audit) => Distinct(audit)
      /\ Len(audit) \in Nat /\ Len(audit) <= Len(h.audit)
      /\ \A i \in DOMAIN audit : \E k \in DOMAIN h.audit : audit[i] = h.audit[k]
      /\ h.audit # << >> /\ h.audit[Len(h.audit)].id \notin gone =>
           audit # << >> /\ audit[Len(audit)] = h.audit[Len(h.audit)]
  <2> HIDE DEF audit
  <2>1. audit = Without(h.audit, gone)
    BY DEF audit
  <2> QED
    BY <1>2, <2>1, WithoutIs DEF EventIds
<1>5. audit = Without(h.audit, gone)
  OBVIOUS
<1> HIDE DEF audit
<1>6. /\ g \in Histories(P)
      /\ g.activities = h.activities /\ g.audit = audit /\ g.receipts = h.receipts
  BY <1>1, <1>4 DEF Histories
<1> HIDE DEF g
<1>7. IsHistory(g) /\ ActivityIds(g) = ActivityIds(h) /\ EventIds(g) \subseteq EventIds(h)
  BY <1>4, <1>6 DEF IsHistory, ActivityIds, EventIds
<1>8. Knows(h) => Knows(g)
  BY <1>4, <1>6 DEF Knows, ActivityIds
<1>9. ASSUME NEW n \in audits, NEW T, LastIs(h, n, T)
      PROVE  LastIs(g, n, T)
  BY <1>4, <1>6, <1>9 DEF LastIs
<1>10. Len(h.audit) <= AuditLimit => Len(g.audit) <= AuditLimit
  BY <1>2, <1>4, <1>6, RetentionAssumption
<1>11. Keeps(h, g, acts, audits)
  BY <1>4, <1>6, <1>7, <1>8, <1>9, <1>10 DEF Keeps
<1>12. /\ Keeps(g, WithReceipts(g, lost), acts, audits)
       /\ WithReceipts(g, lost).activities = g.activities
       /\ WithReceipts(g, lost).audit = g.audit
  BY <1>0, <1>7, WithReceiptsKeeps
<1> QED
  BY <1>3, <1>6, <1>11, <1>5, <1>12, KeepsAfter

(* What is dropped to be within the limits. *)

\* The least number that will do, or the largest there is.
LEMMA LeastIs ==
  ASSUME NEW n \in Nat, NEW K \in SUBSET (0..n)
  PROVE  LET m == IF K = {} THEN n ELSE Min(K)
         IN m \in 0..n /\ (m = n \/ m \in K)
<1>1. CASE K = {}
  BY <1>1
<1>2. CASE K # {}
  <2>1. Min(K) \in K
    BY <1>2, HasSmallest DEF Min
  <2> QED
    BY <1>2, <2>1
<1> QED
  BY <1>1, <1>2

\* Either nothing is dropped, for the size is within its limit, or as much as it
\* takes, or all, and then only protected events are left.
LEMMA ShortenedAudits ==
  ASSUME NEW h, IsHistory(h), NEW acts, NEW audits
  PROVE  LET g == Shortened(h, Removable(h.audit, audits), WithoutAudits)
         IN /\ Keeps(h, g, acts, audits) /\ g.activities = h.activities
            /\ Size(g) <= SizeLimit \/ EventIds(g) \subseteq audits
<1> DEFINE ids == Removable(h.audit, audits)
           fits == {n \in 1..Len(ids) : Size(WithoutAudits(h, First(ids, n))) <= SizeLimit}
           m == IF fits = {} THEN Len(ids) ELSE Min(fits)
           g == Shortened(h, ids, WithoutAudits)
<1>1. g = IF ids = << >> \/ Size(h) <= SizeLimit THEN h ELSE WithoutAudits(h, First(ids, m))
  BY DEF Shortened
<1>2. h.audit \in Seq(Events)
  BY DEF IsHistory, Histories
<1>3. /\ Len(ids) \in Nat /\ \A n : n \in 0..Len(ids) => First(ids, n) \cap audits = {}
      /\ First(ids, Len(ids)) = EventIds(h) \ audits
  <2> HIDE DEF ids
  <2>1. ids = Removable(h.audit, audits)
    BY DEF ids
  <2> QED
    BY <1>2, <2>1, RemovableIs DEF EventIds
<1> HIDE DEF ids
<1>4. m \in 0..Len(ids) /\ (m = Len(ids) \/ Size(WithoutAudits(h, First(ids, m))) <= SizeLimit)
  <2>1. fits \in SUBSET (0..Len(ids))
    BY <1>3
  <2>2. \A n \in fits : Size(WithoutAudits(h, First(ids, n))) <= SizeLimit
    OBVIOUS
  <2> HIDE DEF fits
  <2>3. m \in 0..Len(ids) /\ (m = Len(ids) \/ m \in fits)
    BY <1>3, <2>1, LeastIs
  <2> QED
    BY <2>2, <2>3
<1> HIDE DEF m, g
<1>5. CASE ids = << >> \/ Size(h) <= SizeLimit
  <2>1. g = h
    BY <1>1, <1>5
  <2>2. ids = << >> => EventIds(h) \subseteq audits
    <3>1. ids = << >> => Len(ids) = 0
      OBVIOUS
    <3>2. First(ids, 0) = {}
      BY DEF First
    <3> QED
      BY <1>3, <3>1, <3>2
  <2> QED
    BY <1>5, <2>1, <2>2, KeepsSame DEF g, ids
<1>6. CASE ~ (ids = << >> \/ Size(h) <= SizeLimit)
  <2> DEFINE gone == First(ids, m)
  <2>1. gone \cap audits = {}
    BY <1>3, <1>4
  <2>2. g = WithoutAudits(h, gone)
    BY <1>1, <1>6
  <2> HIDE DEF gone
  <2>3. /\ Keeps(h, g, acts, audits) /\ g.activities = h.activities
        /\ g.audit = Without(h.audit, gone)
    BY <2>1, <2>2, WithoutAuditsKeeps
  <2>4. EventIds(g) = EventIds(h) \ gone
    BY <1>2, <2>3, WithoutIs DEF EventIds
  <2>5. Size(g) <= SizeLimit \/ EventIds(g) \subseteq audits
    BY <1>3, <1>4, <2>2, <2>4 DEF gone
  <2> QED
    BY <2>3, <2>5 DEF g, ids
<1> QED
  BY <1>5, <1>6

\* The same of activities; when all were dropped, only protected ones are left.
LEMMA ShortenedActivities ==
  ASSUME NEW h, IsHistory(h), NEW acts, NEW audits
  PROVE  LET g == Shortened(h, Removable(h.activities, acts), WithoutActivities)
         IN /\ Keeps(h, g, acts, audits)
            /\ Fits(h.activities) => Fits(g.activities)
            /\ Size(g) <= SizeLimit \/ ActivityIds(g) \subseteq acts
            /\ Size(h) <= SizeLimit => g = h
<1> DEFINE ids == Removable(h.activities, acts)
           fits == {n \in 1..Len(ids) : Size(WithoutActivities(h, First(ids, n))) <= SizeLimit}
           m == IF fits = {} THEN Len(ids) ELSE Min(fits)
           g == Shortened(h, ids, WithoutActivities)
<1>1. g = IF ids = << >> \/ Size(h) <= SizeLimit THEN h ELSE WithoutActivities(h, First(ids, m))
  BY DEF Shortened
<1>2. PICK P : h.activities \in Seq(Entries(P))
  BY DEF IsHistory, Histories
<1>3. /\ Len(ids) \in Nat /\ \A n : n \in 0..Len(ids) => First(ids, n) \cap acts = {}
      /\ First(ids, Len(ids)) = ActivityIds(h) \ acts
  <2> HIDE DEF ids
  <2>1. ids = Removable(h.activities, acts)
    BY DEF ids
  <2> QED
    BY <1>2, <2>1, RemovableIs DEF ActivityIds
<1> HIDE DEF ids
<1>4. m \in 0..Len(ids) /\ (m = Len(ids) \/ Size(WithoutActivities(h, First(ids, m))) <= SizeLimit)
  <2>1. fits \in SUBSET (0..Len(ids))
    BY <1>3
  <2>2. \A n \in fits : Size(WithoutActivities(h, First(ids, n))) <= SizeLimit
    OBVIOUS
  <2> HIDE DEF fits
  <2>3. m \in 0..Len(ids) /\ (m = Len(ids) \/ m \in fits)
    BY <1>3, <2>1, LeastIs
  <2> QED
    BY <2>2, <2>3
<1> HIDE DEF m, g
<1>5. CASE ids = << >> \/ Size(h) <= SizeLimit
  <2>1. g = h
    BY <1>1, <1>5
  <2>2. ids = << >> => ActivityIds(h) \subseteq acts
    <3>1. ids = << >> => Len(ids) = 0
      OBVIOUS
    <3>2. First(ids, 0) = {}
      BY DEF First
    <3> QED
      BY <1>3, <3>1, <3>2
  <2> QED
    BY <1>5, <2>1, <2>2, KeepsSame DEF g, ids
<1>6. CASE ~ (ids = << >> \/ Size(h) <= SizeLimit)
  <2> DEFINE gone == First(ids, m)
  <2>1. gone \cap acts = {}
    BY <1>3, <1>4
  <2>2. g = WithoutActivities(h, gone)
    BY <1>1, <1>6
  <2> HIDE DEF gone
  <2>3. /\ Keeps(h, g, acts, audits)
        /\ gone # {} => g.activities = Without(h.activities, gone)
        /\ gone = {} => g = h
        /\ ActivityIds(g) = ActivityIds(h) \ gone
    BY <2>1, <2>2, WithoutActivitiesKeeps
  <2>4. Fits(h.activities) => Fits(g.activities)
    BY <1>2, <2>3, WithoutFits
  <2>5. Size(g) <= SizeLimit \/ ActivityIds(g) \subseteq acts
    BY <1>3, <1>4, <2>2, <2>3 DEF gone
  <2> QED
    BY <1>6, <2>3, <2>4, <2>5 DEF g, ids
<1> QED
  BY <1>5, <1>6

\* Receipts last; nothing else goes with them, and at most the newest stays when
\* that is not enough.
LEMMA ShortenedReceipts ==
  ASSUME NEW h, IsHistory(h), NEW acts, NEW audits
  PROVE  LET g == Shortened(h, SubSeq(h.receipts, 1, Len(h.receipts) - 1), WithoutReceipts)
         IN /\ Keeps(h, g, acts, audits)
            /\ g.activities = h.activities /\ g.audit = h.audit
            /\ Size(h) <= SizeLimit => g = h
            /\ Size(g) <= SizeLimit \/ Len(g.receipts) <= 1
<1> DEFINE s == h.receipts
           ids == SubSeq(s, 1, Len(s) - 1)
           fits == {n \in 1..Len(ids) : Size(WithoutReceipts(h, First(ids, n))) <= SizeLimit}
           m == IF fits = {} THEN Len(ids) ELSE Min(fits)
           gone == First(ids, m)
           K == {i \in DOMAIN s : s[i] \notin gone}
           r == Picked(s, K)
           g == Shortened(h, ids, WithoutReceipts)
<1>1. g = IF ids = << >> \/ Size(h) <= SizeLimit THEN h ELSE WithoutReceipts(h, gone)
  BY DEF Shortened
<1>2. WithoutReceipts(h, gone) = [h EXCEPT !.receipts = r]
  BY DEF WithoutReceipts
<1>3. s \in Seq(Nat) /\ Len(s) \in Nat /\ DOMAIN s = 1..Len(s)
  BY DEF IsHistory, Histories
<1>4. /\ s # << >> => Len(ids) = Len(s) - 1 /\ \A i \in 1..(Len(s) - 1) : ids[i] = s[i]
      /\ s = << >> => ids = << >>
      /\ Len(ids) \in Nat
  <2> HIDE DEF s
  <2> QED
    BY <1>3
<1> HIDE DEF s, ids
<1>5. m \in 0..Len(ids) /\ (m = Len(ids) \/ Size(WithoutReceipts(h, First(ids, m))) <= SizeLimit)
  <2>1. fits \in SUBSET (0..Len(ids))
    BY <1>4
  <2>2. \A n \in fits : Size(WithoutReceipts(h, First(ids, n))) <= SizeLimit
    OBVIOUS
  <2> HIDE DEF fits
  <2>3. m \in 0..Len(ids) /\ (m = Len(ids) \/ m \in fits)
    BY <1>4, <2>1, LeastIs
  <2> QED
    BY <2>2, <2>3
<1> HIDE DEF m
<1>6. m = Len(ids) /\ ids # << >> => K \subseteq {Len(s)}
  <2> SUFFICES ASSUME m = Len(ids), ids # << >>, NEW i \in K, i # Len(s)
               PROVE  FALSE
    OBVIOUS
  <2>0. Len(ids) = Len(s) - 1 /\ \A k \in 1..(Len(s) - 1) : ids[k] = s[k]
    BY <1>4
  <2>1. i \in 1..(Len(s) - 1) /\ ids[i] = s[i] /\ i \in 1..Len(ids)
    <3>1. i \in 1..Len(s)
      BY <1>3
    <3>2. i \in 1..(Len(s) - 1)
      BY <1>3, <3>1
    <3> QED
      BY <2>0, <3>2
  <2>2. s[i] \in gone
    BY <2>1 DEF First
  <2> QED
    BY <2>2
<1> HIDE DEF gone
<1>7. K \in SUBSET DOMAIN s
  OBVIOUS
<1> HIDE DEF K
<1>8. r \in Seq(Nat) /\ Len(r) \in Nat /\ Len(r) <= Len(s)
  BY <1>3, <1>7, PickedIs, PickedPlaces
<1>9. m = Len(ids) /\ ids # << >> => Len(r) <= 1
  <2> SUFFICES ASSUME m = Len(ids), ids # << >>, ~ (Len(r) <= 1)
               PROVE  FALSE
    OBVIOUS
  <2>1. PICK at \in [DOMAIN r -> K] : \A i, j \in DOMAIN r : i # j => at[i] # at[j]
    BY <1>3, <1>7, PickedPlaces
  <2> HIDE DEF r
  <2>2. 1 \in DOMAIN r /\ 2 \in DOMAIN r
    BY <1>8
  <2>3. at[1] = Len(s) /\ at[2] = Len(s)
    BY <1>6, <2>1, <2>2
  <2> QED
    BY <2>1, <2>2, <2>3
<1> HIDE DEF r, g
<1>10. CASE ids = << >> \/ Size(h) <= SizeLimit
  <2>1. g = h
    BY <1>1, <1>10
  <2>2. ids = << >> => Len(s) <= 1
    <3>1. ids = << >> => Len(ids) = 0
      OBVIOUS
    <3>2. s = << >> => Len(s) = 0
      OBVIOUS
    <3> QED
      BY <1>3, <1>4, <3>1, <3>2
  <2> QED
    BY <1>10, <2>1, <2>2, KeepsSame DEF g, ids, s
<1>11. CASE ~ (ids = << >> \/ Size(h) <= SizeLimit)
  <2>1. g = [h EXCEPT !.receipts = r]
    BY <1>1, <1>2, <1>11
  <2>2. /\ Keeps(h, g, acts, audits)
        /\ g.activities = h.activities /\ g.audit = h.audit /\ g.receipts = r
    BY <1>8, <2>1, ReceiptsKeep DEF s
  <2>3. Size(g) <= SizeLimit \/ Len(g.receipts) <= 1
    BY <1>1, <1>5, <1>9, <1>11, <2>2 DEF gone
  <2> QED
    BY <1>11, <2>2, <2>3 DEF g, ids, s
<1> QED
  BY <1>10, <1>11

\* Enough activities overflow to be within the limits, or all that may.
LEMMA OverflowingIs ==
  ASSUME NEW h, IsHistory(h), NEW acts
  PROVE  LET gone == Overflowing(h, acts)
         IN /\ gone \cap acts = {}
            /\ Fits(Without(h.activities, gone)) \/ ActivityIds(h) \ gone \subseteq acts
<1> DEFINE ids == Removable(h.activities, acts)
           enough == {n \in 0..Len(ids) : Fits(Without(h.activities, First(ids, n)))}
           m == IF enough = {} THEN Len(ids) ELSE Min(enough)
<1>1. Overflowing(h, acts) = First(ids, m)
  BY DEF Overflowing, Fits
<1>2. PICK P : h.activities \in Seq(Entries(P))
  BY DEF IsHistory, Histories
<1>3. /\ Len(ids) \in Nat /\ \A n : n \in 0..Len(ids) => First(ids, n) \cap acts = {}
      /\ First(ids, Len(ids)) = ActivityIds(h) \ acts
  <2> HIDE DEF ids
  <2>1. ids = Removable(h.activities, acts)
    BY DEF ids
  <2> QED
    BY <1>2, <2>1, RemovableIs DEF ActivityIds
<1> HIDE DEF ids
<1>4. m \in 0..Len(ids) /\ (m = Len(ids) \/ Fits(Without(h.activities, First(ids, m))))
  <2>1. enough \in SUBSET (0..Len(ids))
    BY <1>3
  <2>2. \A n \in enough : Fits(Without(h.activities, First(ids, n)))
    OBVIOUS
  <2> HIDE DEF enough
  <2>3. m \in 0..Len(ids) /\ (m = Len(ids) \/ m \in enough)
    BY <1>3, <2>1, LeastIs
  <2> QED
    BY <2>2, <2>3
<1> HIDE DEF m
<1> QED
  BY <1>1, <1>3, <1>4

\* As many of the oldest audit events go as there are too many.
LEMMA OldAuditsGo ==
  ASSUME NEW h, IsHistory(h), Distinct(h.audit),
         NEW acts, NEW audits, audits = {} \/ \E x : audits = {x}
  PROVE  LET old == Removable(h.audit, audits)
             over == Min({Len(old), Max({0, Len(h.audit) - AuditLimit})})
             g == WithoutAudits(h, First(old, over))
         IN /\ Keeps(h, g, acts, audits) /\ g.activities = h.activities
            /\ Len(g.audit) <= AuditLimit
<1> DEFINE old == Removable(h.audit, audits)
           d == Len(h.audit) - AuditLimit
           over == Min({Len(old), Max({0, Len(h.audit) - AuditLimit})})
           gone == First(old, over)
           g == WithoutAudits(h, gone)
<1>1. h.audit \in Seq(Events) /\ Len(h.audit) \in Nat
  BY DEF IsHistory, Histories
<1>2. Len(old) \in Nat /\ Len(h.audit) - 1 <= Len(old)
  BY <1>1, RemovableCounted
<1>3. AuditLimit \in Nat /\ AuditLimit >= 1
  BY RetentionAssumption
<1>4. \A n : n \in 0..Len(old) => First(old, n) \cap audits = {}
  BY <1>1, RemovableIs
<1>5. \A n \in 0..Len(old) : Len(Without(h.audit, First(old, n))) = Len(h.audit) - n
  BY <1>1, DropCounted
<1>6. over \in 0..Len(old) /\ d <= over
  <2> DEFINE N == Len(old)
  <2>1. N \in Nat /\ d \in Int /\ d <= N
    BY <1>1, <1>2, <1>3
  <2>2. over = Min({N, Max({0, d})})
    OBVIOUS
  <2> HIDE DEF d, N, over
  <2>3. Max({0, d}) = IF d > 0 THEN d ELSE 0
    BY <2>1 DEF Max
  <2>4. PICK x \in Nat : x = Max({0, d})
    BY <2>1, <2>3
  <2>5. Min({N, x}) = IF x < N THEN x ELSE N
    BY <2>1, <2>4 DEF Min
  <2>6. d <= x
    BY <2>1, <2>3, <2>4
  <2> QED
    BY <2>1, <2>2, <2>4, <2>5, <2>6 DEF N
<1> HIDE DEF over, old
<1>7. gone \cap audits = {} /\ Len(Without(h.audit, gone)) = Len(h.audit) - over
  BY <1>4, <1>5, <1>6
<1>8. Len(h.audit) - over <= AuditLimit
  BY <1>1, <1>2, <1>3, <1>6
<1> HIDE DEF gone, d
<1>9. /\ Keeps(h, g, acts, audits) /\ g.activities = h.activities
      /\ g.audit = Without(h.audit, gone)
  BY <1>7, WithoutAuditsKeeps
<1> HIDE DEF g
<1>10. Len(g.audit) <= AuditLimit
  BY <1>7, <1>8, <1>9
<1> QED
  BY <1>9, <1>10 DEF g, gone, over, old

\* Compaction as a whole: what is protected stays, and the limits hold, or only
\* what is protected is left.
LEMMA CompactedIs ==
  ASSUME NEW h, IsHistory(h), Distinct(h.audit),
         NEW acts, NEW audits, audits = {} \/ \E x : audits = {x}
  PROVE  LET g == Compacted(h, acts, audits)
         IN /\ Keeps(h, g, acts, audits)
            /\ Len(g.audit) <= AuditLimit /\ Len(g.receipts) <= ReceiptLimit
            /\ Fits(g.activities) \/ ActivityIds(g) \subseteq acts
            /\ \/ Size(g) <= SizeLimit
               \/ /\ ActivityIds(g) \subseteq acts /\ EventIds(g) \subseteq audits
                  /\ Len(g.receipts) <= 1
<1> DEFINE h1 == WithReceipts(h, << >>)
           gone == Overflowing(h1, acts)
           h2 == WithoutActivities(h1, gone)
           old == Removable(h2.audit, audits)
           over == Min({Len(old), Max({0, Len(h2.audit) - AuditLimit})})
           h3 == WithoutAudits(h2, First(old, over))
           h4 == Shortened(h3, Removable(h3.audit, audits), WithoutAudits)
           h5 == Shortened(h4, Removable(h4.activities, acts), WithoutActivities)
           g == Shortened(h5, SubSeq(h5.receipts, 1, Len(h5.receipts) - 1), WithoutReceipts)
           Small(f) == Fits(f.activities) \/ ActivityIds(f) \subseteq acts
<1>1. Compacted(h, acts, audits) = g
  BY DEF Compacted, CompactSize
<1>2. Keeps(h, h1, acts, audits) /\ Len(h1.receipts) <= ReceiptLimit
  <2>1. << >> \in Seq(Nat)
    OBVIOUS
  <2> QED
    BY <2>1, WithReceiptsKeeps
<1> HIDE DEF h1
<1>3. IsHistory(h1) /\ Distinct(h1.audit)
  BY <1>2 DEF Keeps
<1>4. gone \cap acts = {} /\ (Fits(Without(h1.activities, gone)) \/ ActivityIds(h1) \ gone \subseteq acts)
  BY <1>3, OverflowingIs
<1> HIDE DEF gone
<1>5. Keeps(h1, h2, acts, audits) /\ Small(h2)
  <2>1. /\ Keeps(h1, h2, acts, audits)
        /\ gone # {} => h2.activities = Without(h1.activities, gone)
        /\ gone = {} => h2 = h1
        /\ ActivityIds(h2) = ActivityIds(h1) \ gone
    BY <1>3, <1>4, WithoutActivitiesKeeps
  <2>2. gone = {} => Without(h1.activities, gone) = h1.activities
    <3>1. PICK P : h1.activities \in Seq(Entries(P))
      BY <1>3 DEF IsHistory, Histories
    <3> DEFINE s == h1.activities
    <3>2. Picked(s, DOMAIN s) = s
      BY <3>1, PickedAll
    <3>3. {i \in DOMAIN s : s[i].id \notin {}} = DOMAIN s
      OBVIOUS
    <3> QED
      BY <3>2, <3>3 DEF Without
  <2>3. Fits(Without(h1.activities, gone)) => Fits(h2.activities)
    BY <2>1, <2>2
  <2> HIDE DEF h2
  <2> QED
    BY <1>4, <2>1, <2>3
<1> HIDE DEF h2
<1>6. IsHistory(h2) /\ Distinct(h2.audit)
  BY <1>3, <1>5 DEF Keeps
<1>7. /\ Keeps(h2, h3, acts, audits) /\ h3.activities = h2.activities
      /\ Len(h3.audit) <= AuditLimit
  BY <1>6, OldAuditsGo
<1> HIDE DEF h3
<1>8. IsHistory(h3) /\ Small(h3)
  BY <1>5, <1>7 DEF Keeps, ActivityIds
<1>9. /\ Keeps(h3, h4, acts, audits) /\ h4.activities = h3.activities
      /\ Size(h4) <= SizeLimit \/ EventIds(h4) \subseteq audits
  BY <1>8, ShortenedAudits
<1> HIDE DEF h4
<1>10. IsHistory(h4) /\ Small(h4)
  BY <1>8, <1>9 DEF Keeps, ActivityIds
<1>11. /\ Keeps(h4, h5, acts, audits)
       /\ Fits(h4.activities) => Fits(h5.activities)
       /\ Size(h5) <= SizeLimit \/ ActivityIds(h5) \subseteq acts
       /\ Size(h4) <= SizeLimit => h5 = h4
  BY <1>10, ShortenedActivities
<1> HIDE DEF h5
<1>12. IsHistory(h5) /\ Small(h5)
  BY <1>10, <1>11 DEF Keeps
<1>13. /\ Keeps(h5, g, acts, audits)
       /\ g.activities = h5.activities /\ g.audit = h5.audit
       /\ Size(h5) <= SizeLimit => g = h5
       /\ Size(g) <= SizeLimit \/ Len(g.receipts) <= 1
  BY <1>12, ShortenedReceipts
<1> HIDE DEF g
<1>14. Keeps(h, h2, acts, audits)
  BY <1>2, <1>5, KeepsAfter
<1>15. Keeps(h, h4, acts, audits)
  BY <1>7, <1>9, <1>14, KeepsAfter
<1>16. Keeps(h, g, acts, audits)
  BY <1>11, <1>13, <1>15, KeepsAfter
<1>17. Len(g.audit) <= AuditLimit
  BY <1>7, <1>9, <1>11, <1>13 DEF Keeps
<1>18. Len(g.receipts) <= ReceiptLimit
  BY <1>2, <1>5, <1>7, <1>9, <1>11, <1>13 DEF Keeps
<1>19. Small(g)
  BY <1>12, <1>13 DEF ActivityIds
<1>20. \/ Size(g) <= SizeLimit
       \/ /\ ActivityIds(g) \subseteq acts /\ EventIds(g) \subseteq audits
          /\ Len(g.receipts) <= 1
  <2>1. CASE Size(h4) <= SizeLimit
    BY <1>11, <1>13, <2>1
  <2>2. CASE ~ (Size(h4) <= SizeLimit)
    <3>1. EventIds(h5) \subseteq audits
      BY <1>9, <1>11, <2>2 DEF Keeps
    <3>2. EventIds(g) \subseteq audits /\ ActivityIds(g) = ActivityIds(h5)
      BY <1>13, <3>1 DEF EventIds, ActivityIds
    <3> QED
      BY <1>11, <1>13, <3>2
  <2> QED
    BY <2>1, <2>2
<1> QED
  BY <1>1, <1>16, <1>17, <1>18, <1>19, <1>20

(* What an accepted command leaves. *)

\* The inductive invariant: audit events name activities that exist, no two are
\* the same, and nothing in the history is newer than the workspace.
HistoryInvariant ==
  /\ revision \in Nat
  /\ IsHistory(history) /\ Knows(history) /\ Distinct(history.audit)
  /\ \A n \in ActivityIds(history) \cup EventIds(history) : n <= revision

IsList(s) == \E S : s \in Seq(S)

\* Appending to the history.
LEMMA AppendIs ==
  ASSUME NEW T, NEW s \in Seq(T), NEW e \in T
  PROVE  /\ Append(s, e) \in Seq(T) /\ Append(s, e) # << >>
         /\ Ids(Append(s, e)) = Ids(s) \cup {e.id}
         /\ Append(s, e)[Len(Append(s, e))] = e
         /\ Distinct(s) /\ e.id \notin Ids(s) => Distinct(Append(s, e))
         /\ \A i \in DOMAIN Append(s, e) : Append(s, e)[i] = e \/ \E k \in DOMAIN s : Append(s, e)[i] = s[k]
<1> DEFINE a == Append(s, e)
<1>1. /\ a \in Seq(T) /\ Len(a) = Len(s) + 1 /\ Len(s) \in Nat
      /\ DOMAIN a = 1..Len(a) /\ DOMAIN s = 1..Len(s)
      /\ a[Len(s) + 1] = e /\ \A i \in 1..Len(s) : a[i] = s[i]
  OBVIOUS
<1> HIDE DEF a
<1>2. Len(s) + 1 \in DOMAIN a /\ \A i \in DOMAIN a : i = Len(s) + 1 \/ i \in DOMAIN s
  BY <1>1
<1>3. \A i \in DOMAIN s : i \in DOMAIN a
  BY <1>1
<1>4. Ids(a) = Ids(s) \cup {e.id}
  <2>1. \A i \in DOMAIN a : a[i].id \in Ids(s) \cup {e.id}
    BY <1>1, <1>2 DEF Ids
  <2>2. \A i \in DOMAIN s : s[i].id \in Ids(a)
    BY <1>1, <1>3 DEF Ids
  <2>3. e.id \in Ids(a)
    BY <1>1, <1>2 DEF Ids
  <2> QED
    BY <2>1, <2>2, <2>3 DEF Ids
<1>5. a # << >>
  BY <1>1
<1>6. ASSUME Distinct(s), e.id \notin Ids(s)
      PROVE  Distinct(a)
  <2>1. \A i \in DOMAIN s : s[i].id # e.id
    BY <1>6 DEF Ids
  <2> QED
    BY <1>1, <1>2, <1>6, <2>1 DEF Distinct
<1> QED
  BY <1>1, <1>2, <1>4, <1>5, <1>6 DEF a

\* What compaction leaves of a history whose newest entry is of the command
\* accepted now.
LEMMA Accepted ==
  ASSUME HistoryInvariant, NEW h, NEW acts, NEW audits,
         IsHistory(h), Knows(h), Distinct(h.audit),
         \A n \in ActivityIds(h) \cup EventIds(h) : n <= Now,
         history' = Compacted(h, acts, audits), revision' = Now,
         \/ /\ acts = {Now} /\ audits = {}
            /\ Now \in ActivityIds(h) /\ Now \notin EventIds(h)
         \/ /\ audits = {Now} /\ acts # {} /\ acts \subseteq ActivityIds(h)
            /\ LastIs(h, Now, acts)
  PROVE  HistoryInvariant' /\ AcceptedChangeKept'
<1> DEFINE g == history'
<1>1. /\ Keeps(h, g, acts, audits)
      /\ Len(g.audit) <= AuditLimit /\ Len(g.receipts) <= ReceiptLimit
      /\ Fits(g.activities) \/ ActivityIds(g) \subseteq acts
      /\ \/ Size(g) <= SizeLimit
         \/ /\ ActivityIds(g) \subseteq acts /\ EventIds(g) \subseteq audits
            /\ Len(g.receipts) <= 1
  <2>1. audits = {} \/ \E x : audits = {x}
    OBVIOUS
  <2> QED
    BY <2>1, CompactedIs
<1>2. HistoryInvariant'
  <2>1. Now \in Nat
    BY DEF HistoryInvariant, Now
  <2>2. IsHistory(g) /\ Knows(g) /\ Distinct(g.audit) /\ \A n \in ActivityIds(g) \cup EventIds(g) : n <= Now
    BY <1>1 DEF Keeps
  <2> QED
    BY <2>1, <2>2 DEF HistoryInvariant, IsHistory, Knows, Distinct, ActivityIds, EventIds
<1> DEFINE last == g.audit[Len(g.audit)]
           own == IF g.audit # << >> /\ last.id = Now
                  THEN {Now} \cup ToSet(last.targets) ELSE {Now}
<1>3. own \subseteq ActivityIds(g) \cup EventIds(g) /\ acts \cup audits \subseteq own
  <2>0. g.audit # << >> => last.id \in EventIds(g)
    <3>1. g.audit \in Seq(Events)
      BY <1>1 DEF Keeps, IsHistory, Histories
    <3>2. g.audit # << >> => Len(g.audit) \in DOMAIN g.audit
      BY <3>1
    <3> QED
      BY <3>2 DEF EventIds, Ids
  <2>1. CASE /\ acts = {Now} /\ audits = {}
             /\ Now \in ActivityIds(h) /\ Now \notin EventIds(h)
    <3>1. Now \in ActivityIds(g) /\ Now \notin EventIds(g)
      BY <1>1, <2>1 DEF Keeps
    <3>2. own = {Now}
      BY <2>0, <3>1
    <3> QED
      BY <2>1, <3>1, <3>2
  <2>2. CASE /\ audits = {Now} /\ acts # {} /\ acts \subseteq ActivityIds(h)
             /\ LastIs(h, Now, acts)
    <3>1. LastIs(g, Now, acts) /\ acts \subseteq ActivityIds(g)
      BY <1>1, <2>2 DEF Keeps
    <3>2. own = {Now} \cup acts /\ Now \in EventIds(g)
      BY <2>0, <3>1 DEF LastIs
    <3> QED
      BY <2>2, <3>1, <3>2
  <2> QED
    BY <2>1, <2>2
<1>4. AcceptedChangeKept'
  <2>1. /\ ToSet(IdsOf(g.activities)) = ActivityIds(g)
        /\ ToSet(IdsOf(g.audit)) = EventIds(g)
    BY IdsAre DEF ActivityIds, EventIds
  <2>2. /\ \/ /\ Len(g.activities) <= ActivityLimit
              /\ PatchesIn(g.activities) <= PatchLimit
           \/ ActivityIds(g) \subseteq own
        /\ \/ Size(g) <= SizeLimit
           \/ ActivityIds(g) \cup EventIds(g) \subseteq own /\ Len(g.receipts) <= 1
    <3> HIDE DEF own
    <3> QED
      BY <1>1, <1>3 DEF Fits
  <2> HIDE DEF own
  <2>3. own = IF g.audit # << >> /\ last.id = revision'
              THEN {revision'} \cup ToSet(last.targets) ELSE {revision'}
    BY DEF own
  <2> QED
    BY <1>1, <1>3, <2>1, <2>2, <2>3 DEF AcceptedChangeKept
<1> QED
  BY <1>2, <1>4

\* A command that writes patches leaves its activity.
LEMMA WriteIs ==
  ASSUME HistoryInvariant, NEW ps, IsList(ps), Write(ps)
  PROVE  HistoryInvariant' /\ AcceptedChangeKept'
<1> DEFINE a == [id |-> Now, patches |-> Meaningful(ps), status |-> "applied"]
           h == [history EXCEPT !.activities = Append(@, a)]
<1>1. history' = Compacted(h, {Now}, {}) /\ revision' = Now
  BY DEF Write, Commit
<1>2. PICK P : history \in Histories(P)
  BY DEF HistoryInvariant, IsHistory
<1>3. PICK S : ps \in Seq(S)
  BY DEF IsList
<1>4. Meaningful(ps) \in Seq(S)
  <2> DEFINE K == {i \in DOMAIN ps : ps[i].field # "stamp"}
  <2>1. K \in SUBSET DOMAIN ps
    OBVIOUS
  <2> HIDE DEF K
  <2>2. Picked(ps, K) \in Seq(S)
    BY <1>3, <2>1, PickedIs
  <2> QED
    BY <2>2 DEF Meaningful, K
<1>5. Now \in Nat /\ revision \in Nat /\ revision < Now
  BY DEF HistoryInvariant, Now
<1> DEFINE Q == P \cup S
<1>6. Meaningful(ps) \in Seq(Q)
  BY <1>4
<1>7. a \in Entries(Q) /\ a.id = Now
  BY <1>5, <1>6 DEF Entries
<1>8. history.activities \in Seq(Entries(Q)) /\ history.audit \in Seq(Events)
  <2>1. history.activities \in Seq(Entries(P)) /\ history.audit \in Seq(Events)
    BY <1>2 DEF Histories
  <2>2. Seq(P) \subseteq Seq(Q)
    BY WiderList
  <2>3. Entries(P) \subseteq Entries(Q)
    BY <2>2 DEF Entries
  <2> QED
    BY <2>1, <2>3, WiderList
<1> HIDE DEF a, Q
<1>9. /\ Append(history.activities, a) \in Seq(Entries(Q))
      /\ Ids(Append(history.activities, a)) = ActivityIds(history) \cup {Now}
  BY <1>7, <1>8, AppendIs DEF ActivityIds
<1>10. /\ h \in Histories(Q) /\ h.activities = Append(history.activities, a)
       /\ h.audit = history.audit
  BY <1>2, <1>8, <1>9 DEF Histories
<1> HIDE DEF h
<1>11. /\ IsHistory(h) /\ ActivityIds(h) = ActivityIds(history) \cup {Now}
       /\ EventIds(h) = EventIds(history)
  BY <1>9, <1>10 DEF IsHistory, ActivityIds, EventIds
<1>12. Knows(h) /\ Distinct(h.audit)
  BY <1>10, <1>11 DEF HistoryInvariant, Knows
<1>13. \A n \in ActivityIds(history) \cup EventIds(history) : n <= revision /\ n \in Nat
  BY IdsAreNumbers DEF HistoryInvariant
<1>14. /\ \A n \in ActivityIds(h) \cup EventIds(h) : n <= Now
       /\ Now \in ActivityIds(h) /\ Now \notin EventIds(h)
  BY <1>5, <1>11, <1>13
<1> QED
  BY <1>1, <1>11, <1>12, <1>14, Accepted

\* Undoing or redoing activities that exist leaves an audit event that names
\* them.
LEMMA HistoryCommandIs ==
  ASSUME HistoryInvariant, NEW ids \in Seq(Nat), ids # << >>,
         ToSet(ids) \subseteq ActivityIds(history),
         NEW undo, HistoryCommand(ids, undo)
  PROVE  HistoryInvariant' /\ AcceptedChangeKept'
<1> DEFINE status == IF undo THEN "undone" ELSE "applied"
           as == [i \in DOMAIN history.activities |->
                    IF Contains(ids, history.activities[i].id)
                    THEN [history.activities[i] EXCEPT !.status = status]
                    ELSE history.activities[i]]
           e == [id |-> Now, targets |-> ids, type |-> IF undo THEN "undo" ELSE "redo"]
           h == [history EXCEPT !.activities = as, !.audit = Append(@, e)]
<1>1. history' = Compacted(h, ToSet(ids), {Now}) /\ revision' = Now
  <2>1. /\ revision' = Now
        /\ history' = Compacted([history EXCEPT
             !.activities = [i \in DOMAIN @ |->
                IF Contains(ids, @[i].id)
                THEN [@[i] EXCEPT !.status = IF undo THEN "undone" ELSE "applied"]
                ELSE @[i]],
             !.audit = Append(@, [id |-> Now, targets |-> ids,
                                  type |-> IF undo THEN "undo" ELSE "redo"])],
             ToSet(ids), {Now})
    BY DEF HistoryCommand, Commit
  <2> QED
    BY <2>1
<1>2. PICK P : history \in Histories(P)
  BY DEF HistoryInvariant, IsHistory
<1>3. history.activities \in Seq(Entries(P)) /\ history.audit \in Seq(Events)
  BY <1>2 DEF Histories
<1>4. Now \in Nat /\ revision \in Nat /\ revision < Now
  BY DEF HistoryInvariant, Now
<1> DEFINE s == history.activities
<1>5. ASSUME NEW i \in DOMAIN s
      PROVE  as[i] \in Entries(P) /\ as[i].id = s[i].id
  <2>1. s[i] \in Entries(P)
    BY <1>3
  <2>2. status \in {"applied", "undone"}
    OBVIOUS
  <2> HIDE DEF status
  <2>3. /\ [s[i] EXCEPT !.status = status] \in Entries(P)
        /\ [s[i] EXCEPT !.status = status].id = s[i].id
    BY <2>1, <2>2 DEF Entries
  <2> QED
    BY <2>1, <2>3
<1>6. as \in Seq(Entries(P)) /\ Ids(as) = ActivityIds(history)
  <2>1. DOMAIN s = 1..Len(s) /\ Len(s) \in Nat
    BY <1>3
  <2>2. DOMAIN as = DOMAIN s
    OBVIOUS
  <2>3. as \in [1..Len(s) -> Entries(P)]
    BY <1>5, <2>1
  <2> HIDE DEF as, s
  <2>4. as \in Seq(Entries(P))
    BY <2>1, <2>3, ListIs
  <2>5. Ids(as) = Ids(s)
    BY <1>5, <2>2 DEF Ids
  <2> QED
    BY <2>4, <2>5 DEF ActivityIds, s
<1> HIDE DEF as
<1>7. e \in Events /\ e.id = Now /\ e.targets = ids
  BY <1>4 DEF Events
<1> HIDE DEF e
<1> DEFINE audit == Append(history.audit, e)
<1>8. /\ audit \in Seq(Events) /\ audit # << >> /\ Ids(audit) = EventIds(history) \cup {Now}
      /\ audit[Len(audit)] = e
      /\ Distinct(history.audit) /\ e.id \notin EventIds(history) => Distinct(audit)
      /\ \A i \in DOMAIN audit : audit[i] = e \/ \E k \in DOMAIN history.audit : audit[i] = history.audit[k]
  <2> DEFINE old == history.audit
  <2>1. old \in Seq(Events) /\ e \in Events
    BY <1>3, <1>7
  <2> HIDE DEF old
  <2>2. /\ Append(old, e) \in Seq(Events) /\ Append(old, e) # << >>
        /\ Ids(Append(old, e)) = Ids(old) \cup {e.id}
        /\ Append(old, e)[Len(Append(old, e))] = e
        /\ Distinct(old) /\ e.id \notin Ids(old) => Distinct(Append(old, e))
    BY <2>1, AppendIs
  <2>3. \A i \in DOMAIN Append(old, e) :
          Append(old, e)[i] = e \/ \E k \in DOMAIN old : Append(old, e)[i] = old[k]
    BY <2>1, AppendIs
  <2> QED
    BY <1>7, <2>2, <2>3 DEF EventIds, old
<1> HIDE DEF audit
<1>9. h \in Histories(P) /\ h.activities = as /\ h.audit = audit
  BY <1>2, <1>6, <1>8 DEF Histories, audit
<1> HIDE DEF h
<1>10. /\ IsHistory(h) /\ ActivityIds(h) = ActivityIds(history)
       /\ EventIds(h) = EventIds(history) \cup {Now}
  BY <1>6, <1>8, <1>9 DEF IsHistory, ActivityIds, EventIds
<1>11. Knows(h) /\ Distinct(h.audit)
  <2>1. \A n \in EventIds(history) : n <= revision /\ n \in Nat
    BY IdsAreNumbers DEF HistoryInvariant
  <2>2. Now \notin EventIds(history)
    BY <1>4, <2>1
  <2>3. Distinct(audit)
    BY <1>7, <1>8, <2>2 DEF HistoryInvariant
  <2> QED
    BY <1>7, <1>8, <1>9, <1>10, <2>3 DEF HistoryInvariant, Knows
<1>12. \A n \in ActivityIds(h) \cup EventIds(h) : n <= Now
  <2>1. \A n \in ActivityIds(history) \cup EventIds(history) : n \in Nat
    BY IdsAreNumbers DEF HistoryInvariant
  <2>2. \A n \in ActivityIds(history) \cup EventIds(history) : n <= revision
    BY DEF HistoryInvariant
  <2>3. \A n \in ActivityIds(history) \cup EventIds(history) : n <= Now
    BY <1>4, <2>1, <2>2
  <2> QED
    BY <1>4, <1>10, <2>3
<1>13. ToSet(ids) # {}
  <2>1. 1 \in DOMAIN ids
    OBVIOUS
  <2> QED
    BY <2>1 DEF ToSet
<1>14. LastIs(h, Now, ToSet(ids))
  BY <1>7, <1>8, <1>9 DEF LastIs
<1> QED
  BY <1>1, <1>10, <1>11, <1>12, <1>13, <1>14, Accepted

(* Which activities are undone and redone. *)

\* The ids of the activities with a status.
LEMMA WithStatusIs ==
  ASSUME HistoryInvariant, NEW status
  PROVE  /\ WithStatus(status) \in Seq(Nat)
         /\ ToSet(WithStatus(status)) \subseteq ActivityIds(history)
<1> DEFINE as == history.activities
           K == {i \in DOMAIN as : as[i].status = status}
           p == Picked(as, K)
<1>1. PICK P : as \in Seq(Entries(P))
  BY DEF HistoryInvariant, IsHistory, Histories
<1>2. K \in SUBSET DOMAIN as
  OBVIOUS
<1>3. WithStatus(status) = [i \in DOMAIN p |-> p[i].id]
  BY DEF WithStatus, IdsOf
<1> HIDE DEF K
<1>4. p \in Seq(Entries(P)) /\ \A i \in DOMAIN p : \E k \in DOMAIN as : p[i] = as[k]
  BY <1>1, <1>2, PickedIs
<1> HIDE DEF p
<1>5. \A i \in DOMAIN p : p[i].id \in Nat /\ p[i].id \in ActivityIds(history)
  <2>1. \A i \in DOMAIN p : p[i].id \in ActivityIds(history)
    BY <1>4 DEF ActivityIds, Ids
  <2> QED
    BY <2>1, IdsAreNumbers DEF HistoryInvariant
<1> DEFINE w == [i \in DOMAIN p |-> p[i].id]
<1>6. w \in Seq(Nat)
  <2>1. DOMAIN p = 1..Len(p) /\ Len(p) \in Nat
    BY <1>4
  <2>2. w \in [1..Len(p) -> Nat]
    BY <1>5, <2>1
  <2> HIDE DEF w
  <2> QED
    BY <2>1, <2>2
<1>7. ToSet(w) \subseteq ActivityIds(history)
  BY <1>5 DEF ToSet
<1> QED
  BY <1>3, <1>6, <1>7

\* Newest first.
LEMMA ReverseIs ==
  ASSUME NEW T, NEW s \in Seq(T)
  PROVE  /\ Reverse(s) \in Seq(T) /\ Len(Reverse(s)) = Len(s)
         /\ ToSet(Reverse(s)) \subseteq ToSet(s)
<1> DEFINE r == [i \in 1..Len(s) |-> s[(Len(s) - i) + 1]]
<1>1. Reverse(s) = r
  BY DEF Reverse
<1>2. \A i \in 1..Len(s) : (Len(s) - i) + 1 \in DOMAIN s /\ s[(Len(s) - i) + 1] \in T
  <2>1. Len(s) \in Nat /\ DOMAIN s = 1..Len(s)
    OBVIOUS
  <2>2. \A i \in 1..Len(s) : (Len(s) - i) + 1 \in DOMAIN s
    BY <2>1
  <2> QED
    BY <2>2
<1>3. r \in [1..Len(s) -> T] /\ DOMAIN r = 1..Len(s) /\ Len(s) \in Nat
  BY <1>2
<1>4. ToSet(r) \subseteq ToSet(s)
  BY <1>2 DEF ToSet
<1> HIDE DEF r
<1>5. r \in Seq(T) /\ Len(r) = Len(s)
  BY <1>3
<1> QED
  BY <1>1, <1>4, <1>5

\* The first of a list.
LEMMA PrefixIs ==
  ASSUME NEW T, NEW s \in Seq(T), NEW n \in 1..Len(s)
  PROVE  /\ SubSeq(s, 1, n) \in Seq(T) /\ SubSeq(s, 1, n) # << >>
         /\ ToSet(SubSeq(s, 1, n)) \subseteq ToSet(s)
<1> DEFINE p == SubSeq(s, 1, n)
<1>1. Len(s) \in Nat /\ n \in Nat /\ 1 <= n /\ n <= Len(s) /\ DOMAIN s = 1..Len(s)
  OBVIOUS
<1>2. p \in Seq(T) /\ Len(p) = n /\ \A i \in 1..n : p[i] = s[i]
  BY <1>1
<1> HIDE DEF p
<1>3. DOMAIN p = 1..n /\ p # << >>
  BY <1>1, <1>2
<1>4. \A i \in 1..n : i \in DOMAIN s
  BY <1>1
<1>5. ToSet(p) \subseteq ToSet(s)
  BY <1>2, <1>3, <1>4 DEF ToSet
<1> QED
  BY <1>2, <1>3, <1>5 DEF p

\* What follows from each list in a list of them, one after another.
LEMMA FlattenIs ==
  ASSUME NEW T, NEW ss \in Seq(Seq(T))
  PROVE  FlattenSeq(ss) \in Seq(T)
<1> DEFINE n == Len(ss)
           Flat(f) == f = [i \in 1..n |-> IF i = 1 THEN ss[i] ELSE f[i - 1] \o ss[i]]
           run == CHOOSE f : Flat(f)
<1>1. n \in Nat /\ DOMAIN ss = 1..n /\ \A i \in 1..n : ss[i] \in Seq(T)
  OBVIOUS
<1>2. FlattenSeq(ss) = IF n = 0 THEN ss ELSE run[n]
  BY DEF FlattenSeq
<1>3. CASE n = 0
  <2>1. ss = << >>
    BY <1>3
  <2> QED
    BY <1>2, <1>3, <2>1
<1>4. CASE n # 0
  <2> DEFINE G == Seq(T)
             g == [k \in 1..n |-> [x \in G |-> IF k = 1 THEN ss[k] ELSE x \o ss[k]]]
  <2>1. << >> \in G /\ \A x, y \in G : x \o y \in G
    OBVIOUS
  <2> HIDE DEF G
  <2>2. \A k \in 1..n : ss[k] \in G
    BY <1>1 DEF G
  <2> HIDE DEF n
  <2>3. g \in [1..n -> [G -> G]]
    BY <2>1, <2>2
  <2>4. \A k \in 1..n : \A x \in G : g[k][x] = IF k = 1 THEN ss[k] ELSE x \o ss[k]
    OBVIOUS
  <2> HIDE DEF g
  <2> DEFINE f == RunOf(n, G, << >>, g)
  <2>5. f \in [0..n -> G] /\ f[0] = << >> /\ \A k \in 1..n : f[k] = g[k][f[k - 1]]
    BY <1>1, <2>1, <2>3, RunIs
  <2> HIDE DEF f
  <2>6. \A k \in 1..n : /\ k \in 0..n /\ k - 1 \in 0..n /\ (k # 1 => k - 1 \in 1..n)
                        /\ f[k] \in G
                        /\ f[k] = IF k = 1 THEN ss[k] ELSE f[k - 1] \o ss[k]
    <3>1. \A k \in 1..n : k \in 0..n /\ k - 1 \in 0..n /\ (k # 1 => k - 1 \in 1..n)
      BY <1>1
    <3> QED
      BY <2>4, <2>5, <3>1
  <2> DEFINE h == [i \in 1..n |-> f[i]]
  <2>7. \A i \in 1..n : h[i] = IF i = 1 THEN ss[i] ELSE h[i - 1] \o ss[i]
    BY <2>6
  <2>8. h = [i \in 1..n |-> h[i]]
    OBVIOUS
  <2> HIDE DEF h
  <2>9. Flat(h)
    BY <2>7, <2>8
  <2>10. Flat(run)
    BY <2>9
  <2> HIDE DEF run
  <2>11. \A i \in 1..n : run[i] = IF i = 1 THEN ss[i] ELSE run[i - 1] \o ss[i]
    BY <2>10
  <2> HIDE DEF Flat
  <2> DEFINE Q == {k \in 0..n : k = 0 \/ run[k] \in G}
  <2>12. 0 \in Q
    BY <1>1
  <2>13. ASSUME NEW k \in 1..n, k - 1 \in Q
         PROVE  k \in Q
    <3>1. k \in 0..n /\ (k # 1 => k - 1 # 0)
      BY <1>1
    <3>2. k # 1 => run[k - 1] \in G
      BY <2>13, <3>1
    <3>3. run[k] \in G
      BY <2>1, <2>2, <2>11, <3>2
    <3> QED
      BY <3>1, <3>3
  <2>14. Q \in SUBSET (0..n)
    OBVIOUS
  <2> HIDE DEF Q
  <2>15. Q = 0..n
    BY <1>1, <2>12, <2>13, <2>14, Induction
  <2>16. n \in Q
    BY <1>1, <2>15
  <2> QED
    BY <1>2, <1>4, <2>16 DEF Q, G
<1> QED
  BY <1>3, <1>4

\* batchUndo and batchRedo name activities that exist.
LEMMA NewestAppliedIs ==
  ASSUME HistoryInvariant, NEW n \in 1..Len(WithStatus("applied"))
  PROVE  /\ NewestApplied(n) \in Seq(Nat) /\ NewestApplied(n) # << >>
         /\ ToSet(NewestApplied(n)) \subseteq ActivityIds(history)
<1> DEFINE w == WithStatus("applied")
           r == Reverse(w)
<1>1. w \in Seq(Nat) /\ ToSet(w) \subseteq ActivityIds(history)
  BY WithStatusIs
<1> HIDE DEF w
<1>2. r \in Seq(Nat) /\ ToSet(r) \subseteq ToSet(w) /\ Len(r) = Len(w)
  BY <1>1, ReverseIs
<1> HIDE DEF r
<1>3. n \in 1..Len(r)
  BY <1>2 DEF w
<1>4. /\ SubSeq(r, 1, n) \in Seq(Nat) /\ SubSeq(r, 1, n) # << >>
      /\ ToSet(SubSeq(r, 1, n)) \subseteq ToSet(r)
  BY <1>2, <1>3, PrefixIs
<1> QED
  BY <1>1, <1>2, <1>4 DEF NewestApplied, r, w

\* So does what can be redone.
LEMMA RedoableIs ==
  ASSUME HistoryInvariant
  PROVE  /\ Redoable \in Seq(Nat)
         /\ ToSet(Redoable) \subseteq ActivityIds(history)
<1> DEFINE audit == Reverse(history.audit)
           U == {i \in DOMAIN audit : audit[i].type = "undo"}
           undos == Picked(audit, U)
           targets == [i \in DOMAIN undos |-> Reverse(undos[i].targets)]
           named == FlattenSeq(targets)
           w == WithStatus("undone")
           all == named \o w
           K == {i \in DOMAIN all : Contains(w, all[i]) /\ \A j \in 1..(i - 1) : all[j] # all[i]}
<1>1. Redoable = Picked(all, K)
  BY DEF Redoable
<1>2. w \in Seq(Nat) /\ ToSet(w) \subseteq ActivityIds(history)
  BY WithStatusIs
<1> HIDE DEF w
<1>3. audit \in Seq(Events)
  <2>1. history.audit \in Seq(Events)
    BY DEF HistoryInvariant, IsHistory, Histories
  <2> QED
    BY <2>1, ReverseIs
<1> HIDE DEF audit
<1>4. undos \in Seq(Events)
  <2>1. U \in SUBSET DOMAIN audit
    OBVIOUS
  <2> HIDE DEF U
  <2> QED
    BY <1>3, <2>1, PickedIs
<1> HIDE DEF undos
<1>5. targets \in Seq(Seq(Nat))
  <2>1. Len(undos) \in Nat /\ DOMAIN undos = 1..Len(undos)
    BY <1>4
  <2>2. ASSUME NEW i \in DOMAIN undos
        PROVE  Reverse(undos[i].targets) \in Seq(Nat)
    <3>1. undos[i] \in Events
      BY <1>4
    <3>2. undos[i].targets \in Seq(Nat)
      BY <3>1 DEF Events
    <3> QED
      BY <3>2, ReverseIs
  <2>3. targets \in [1..Len(undos) -> Seq(Nat)]
    BY <2>1, <2>2
  <2> HIDE DEF targets
  <2> QED
    BY <2>1, <2>3, ListIs
<1> HIDE DEF targets
<1>6. named \in Seq(Nat)
  BY <1>5, FlattenIs
<1> HIDE DEF named
<1>7. all \in Seq(Nat)
  BY <1>2, <1>6
<1>8. K \in SUBSET DOMAIN all /\ \A i \in K : Contains(w, all[i])
  OBVIOUS
<1> HIDE DEF all, K
<1>9. /\ Picked(all, K) \in Seq(Nat)
      /\ \A i \in DOMAIN Picked(all, K) : \E k \in K : Picked(all, K)[i] = all[k]
  BY <1>7, <1>8, PickedIs
<1>10. \A k \in K : all[k] \in ToSet(w)
  <2>1. DOMAIN w = 1..Len(w)
    BY <1>2
  <2> QED
    BY <1>8, <2>1 DEF Contains, ToSet
<1>11. ToSet(Picked(all, K)) \subseteq ToSet(w)
  BY <1>9, <1>10 DEF ToSet
<1> QED
  BY <1>1, <1>2, <1>9, <1>11

\* Each command of undo and redo.
LEMMA UndoRedoIs ==
  ASSUME HistoryInvariant, NEW n, NEW undo, Pluck(n, undo) \/ UndoLast(n) \/ RedoLast(n)
  PROVE  HistoryInvariant' /\ AcceptedChangeKept'
<1>1. CASE Pluck(n, undo)
  <2>1. n \in ActivityIds(history) /\ HistoryCommand(<<n>>, undo)
    BY <1>1, IdsAre DEF Pluck, ActivityIds
  <2>2. n \in Nat
    BY <2>1, IdsAreNumbers DEF HistoryInvariant
  <2>3. <<n>> \in Seq(Nat) /\ <<n>> # << >> /\ ToSet(<<n>>) = {n}
    BY <2>2 DEF ToSet
  <2> QED
    BY <2>1, <2>3, HistoryCommandIs
<1>2. CASE UndoLast(n)
  <2>1. n \in 1..Len(WithStatus("applied")) /\ HistoryCommand(NewestApplied(n), TRUE)
    BY <1>2 DEF UndoLast
  <2> QED
    BY <2>1, NewestAppliedIs, HistoryCommandIs
<1>3. CASE RedoLast(n)
  <2> DEFINE ids == SubSeq(Redoable, 1, n)
  <2>1. n \in 1..Len(Redoable) /\ HistoryCommand(ids, FALSE)
    BY <1>3 DEF RedoLast
  <2>2. ids \in Seq(Nat) /\ ids # << >> /\ ToSet(ids) \subseteq ToSet(Redoable)
    BY <2>1, RedoableIs, PrefixIs
  <2> QED
    BY <2>1, <2>2, RedoableIs, HistoryCommandIs
<1> QED
  BY <1>1, <1>2, <1>3

(* The patches of a command are a list. *)

\* Any function on the numbers to n.
LEMMA SomeList ==
  ASSUME NEW n \in Nat, NEW f, f = [i \in 1..n |-> f[i]]
  PROVE  IsList(f)
<1>1. f \in [1..n -> {f[i] : i \in 1..n}]
  OBVIOUS
<1> QED
  BY <1>1, ListIs DEF IsList

\* Two lists, joined.
LEMMA OneAfterAnother ==
  ASSUME NEW s, NEW t, IsList(s), IsList(t)
  PROVE  IsList(s \o t)
<1>1. PICK S, T : s \in Seq(S) /\ t \in Seq(T)
  BY DEF IsList
<1>2. s \in Seq(S \cup T) /\ t \in Seq(S \cup T)
  BY <1>1, WiderList
<1> DEFINE U == S \cup T
<1>3. s \in Seq(U) /\ t \in Seq(U)
  BY <1>2
<1> HIDE DEF U
<1>4. s \o t \in Seq(U)
  BY <1>3
<1> QED
  BY <1>4 DEF IsList

\* Lists written out.
LEMMA ShortLists ==
  /\ IsList(<< >>)
  /\ \A a : IsList(<<a>>)
  /\ \A a, b : IsList(<<a, b>>)
  /\ \A a, b, c : IsList(<<a, b, c>>)
<1>1. << >> \in Seq({})
  OBVIOUS
<1>2. \A a : <<a>> \in Seq({a})
  OBVIOUS
<1>3. \A a, b : <<a, b>> \in Seq({a, b})
  OBVIOUS
<1>4. \A a, b, c : <<a, b, c>> \in Seq({a, b, c})
  OBVIOUS
<1> QED
  BY <1>1, <1>2, <1>3, <1>4 DEF IsList

\* The elements of a finite set, in some order.
LEMMA SetToSeqIs ==
  ASSUME NEW S, IsFiniteSet(S)
  PROVE  SetToSeq(S) \in Seq(S) /\ Len(SetToSeq(S)) \in Nat
         /\ DOMAIN SetToSeq(S) = 1..Len(SetToSeq(S))
<1> DEFINE n == Cardinality(S)
<1>1. n \in Nat /\ ExistsBijection(1..n, S)
  BY FS_CardinalityType
<1> HIDE DEF n
<1>2. \E f \in [1..n -> S] : IsInjective(f)
  BY <1>1 DEF ExistsBijection, Bijection, Injection, IsInjective
<1>3. SetToSeq(S) \in [1..n -> S]
  BY <1>2 DEF SetToSeq, n
<1> HIDE DEF n
<1> QED
  BY <1>1, <1>3, ListIs

\* planStatusPatches, and what else the commands put their patches together from.
LEMMA StatusList ==
  ASSUME NEW w, NEW ps, IsFiniteSet(ps), NEW status
  PROVE  IsList(PlanStatusAll(w, ps, status))
<1> DEFINE rs == SetToSeq(ps)
<1>1. Len(rs) \in Nat
  BY SetToSeqIs
<1>2. PlanStatusAll(w, ps, status) = [i \in 1..Len(rs) |-> Set(w, rs[i], "status", status)]
  BY DEF PlanStatusAll
<1> HIDE DEF rs
<1> QED
  BY <1>1, <1>2, SomeList

LEMMA InvalidationList ==
  ASSUME NEW w, NEW xs, NEW ls
  PROVE  IsList(Invalidation(w, xs, ls))
<1>1. Invalidated(w, xs, ls) \in SUBSET Plan
  BY DEF Invalidated, ActivePlans, Plans
<1>2. IsFiniteSet(Invalidated(w, xs, ls))
  BY <1>1, InventoryAssumption, FS_Subset
<1> QED
  BY <1>2, StatusList DEF Invalidation

LEMMA SetEachList ==
  ASSUME NEW w, NEW R, IsFiniteSet(R), NEW field, NEW f, NEW now
  PROVE  IsList(SetEach(w, R, field, f, now))
<1> DEFINE rs == SetToSeq(R)
           a == [i \in 1..Len(rs) |-> Set(w, rs[i], field, f[rs[i]])]
           b == [i \in 1..Len(rs) |-> Set(w, rs[i], "stamp", now)]
<1>1. Len(rs) \in Nat
  BY SetToSeqIs
<1>2. SetEach(w, R, field, f, now) = a \o b
  BY DEF SetEach
<1> HIDE DEF rs
<1>3. IsList(a)
  BY <1>1, SomeList
<1>4. IsList(b)
  BY <1>1, SomeList
<1> QED
  BY <1>2, <1>3, <1>4, OneAfterAnother

LEMMA TakeOutAllList ==
  ASSUME NEW w, NEW R, IsFiniteSet(R)
  PROVE  IsList(TakeOutAll(w, R))
<1> DEFINE rs == SetToSeq(R)
<1>1. Len(rs) \in Nat
  BY SetToSeqIs
<1>2. TakeOutAll(w, R) = [i \in 1..Len(rs) |-> TakeOut(w, rs[i])]
  BY DEF TakeOutAll
<1> HIDE DEF rs
<1> QED
  BY <1>1, <1>2, SomeList

LEMMA InProgressList ==
  ASSUME NEW w, NEW ls, IsFiniteSet(ls), NEW now
  PROVE  IsList(InProgress(w, ls, now))
BY SetEachList DEF InProgress

LEMMA MoveProgressList ==
  ASSUME NEW w, NEW ls, NEW to, NEW reopen, NEW now
  PROVE  IsList(MoveProgress(w, ls, to, reopen, now))
<1> DEFINE S == IF reopen THEN Reopened(w, ls, to) ELSE Started(w, {to})
<1>1. S \in SUBSET Loc
  BY DEF Reopened, Started, Locs
<1> HIDE DEF S
<1>2. IsFiniteSet(S)
  BY <1>1, InventoryAssumption, FS_Subset
<1> QED
  BY <1>2, InProgressList DEF MoveProgress, S

LEMMA MovePartsList ==
  ASSUME NEW w, NEW x, NEW to, NEW q, NEW split, NEW now
  PROVE  IsList(MoveParts(w, x, to, q, split, now))
<1> DEFINE rest == w[x].qty - q
           same == {y \in Contents(w, to) \ {x} : w[y].kind = w[x].kind}
           y == CHOOSE z \in same : TRUE
           a == <<Set(w, y, "qty", w[y].qty + q), Set(w, y, "stamp", now)>>
           b == <<Set(w, x, "loc", to), Set(w, x, "order", now), Set(w, x, "stamp", now)>>
           c == <<Put(split, [w[x] EXCEPT !.loc = to, !.qty = q,
                                     !.order = now, !.stamp = now])>>
           r == Remainder(w, x, rest, now)
<1>1. MoveParts(w, x, to, q, split, now) =
        CASE same # {} -> a \o r
          [] same = {} /\ rest = 0 -> b
          [] OTHER -> r \o c
  BY DEF MoveParts
<1>2. IsList(r)
  BY ShortLists DEF Remainder
<1>3. IsList(a) /\ IsList(b) /\ IsList(c)
  BY ShortLists
<1> HIDE DEF a, b, c, r, rest, same
<1>4. IsList(a \o r) /\ IsList(r \o c)
  BY <1>2, <1>3, OneAfterAnother
<1> QED
  BY <1>1, <1>3, <1>4

\* The items are moved one after another: what is done so far is a function of
\* how many.
LEMMA BulkMovePartsList ==
  ASSUME NEW w, NEW X, IsFiniteSet(X), NEW to, NEW now
  PROVE  IsList(BulkMoveParts(w, X, to, now))
<1> DEFINE xs == SetToSeq(X)
           n == Len(xs)
           After(ps, i) ==
             LET v == PatchedAll(w, ps)
             IN ps \o MoveParts(v, xs[i], to, v[xs[i]].qty, xs[i], now)
           Goes(f, m) == f = [i \in 0..m |-> IF i = 0 THEN << >> ELSE After(f[i - 1], i)]
           run == CHOOSE f : Goes(f, n)
<1>1. n \in Nat
  BY SetToSeqIs
<1>2. BulkMoveParts(w, X, to, now) = run[n]
  BY DEF BulkMoveParts
<1>3. \A ps, i : IsList(ps) => IsList(After(ps, i))
  BY MovePartsList, OneAfterAnother
<1> HIDE DEF n, After
<1> DEFINE P == {m \in 0..n : \E f : Goes(f, m)}
<1>4. 0 \in P
  <2> DEFINE f == [i \in 0..0 |-> << >>]
  <2>1. Goes(f, 0)
    <3>1. \A i \in 0..0 : i = 0
      OBVIOUS
    <3> QED
      BY <3>1
  <2> HIDE DEF Goes, f
  <2> QED
    BY <1>1, <2>1
<1>5. ASSUME NEW m \in 1..n, m - 1 \in P
      PROVE  m \in P
  <2>1. PICK f : Goes(f, m - 1)
    BY <1>5
  <2> DEFINE h == [i \in 0..m |-> IF i = m THEN After(f[m - 1], m) ELSE f[i]]
  <2>2. m # 0 /\ m \in 0..n /\ \A i \in 0..m : i = m \/ i \in 0..(m - 1)
    BY <1>1
  <2>3. ASSUME NEW i \in 0..m
        PROVE  h[i] = IF i = 0 THEN << >> ELSE After(h[i - 1], i)
    <3>1. i # 0 => i - 1 \in 0..m /\ i - 1 # m
      BY <1>1
    <3>2. i # 0 => h[i - 1] = f[i - 1]
      BY <3>1
    <3>3. CASE i = m
      BY <2>2, <3>2, <3>3
    <3>4. CASE i # m
      <4>1. i \in 0..(m - 1)
        BY <2>2, <3>4
      <4>2. f[i] = IF i = 0 THEN << >> ELSE After(f[i - 1], i)
        BY <2>1, <4>1
      <4> QED
        BY <3>2, <3>4, <4>2
    <3> QED
      BY <3>3, <3>4
  <2>4. h = [i \in 0..m |-> h[i]]
    OBVIOUS
  <2> HIDE DEF h
  <2>5. Goes(h, m)
    BY <2>3, <2>4
  <2> HIDE DEF Goes
  <2> QED
    BY <2>2, <2>5
<1>6. P \in SUBSET (0..n)
  OBVIOUS
<1>7. \E f : Goes(f, n)
  <2> HIDE DEF P
  <2>1. P = 0..n
    BY <1>1, <1>4, <1>5, <1>6, Induction
  <2>2. n \in P
    BY <1>1, <2>1
  <2> QED
    BY <2>2 DEF P
<1>8. Goes(run, n)
  BY <1>7
<1> HIDE DEF run
<1>9. \A i \in 0..n : run[i] = IF i = 0 THEN << >> ELSE After(run[i - 1], i)
  BY <1>8
<1> HIDE DEF Goes, P
<1> DEFINE Q == {k \in 0..n : IsList(run[k])}
<1>10. 0 \in Q
  BY <1>1, <1>9, ShortLists
<1>11. ASSUME NEW k \in 1..n, k - 1 \in Q
       PROVE  k \in Q
  <2>1. k \in 0..n /\ k # 0
    BY <1>1
  <2> QED
    BY <1>3, <1>9, <1>11, <2>1
<1>12. Q \in SUBSET (0..n)
  OBVIOUS
<1> HIDE DEF Q
<1>13. Q = 0..n
  BY <1>1, <1>10, <1>11, <1>12, Induction
<1>14. n \in Q
  BY <1>1, <1>13
<1> QED
  BY <1>2, <1>14 DEF Q

LEMMA StepPartsList ==
  ASSUME NEW w, NEW st, NEW now
  PROVE  IsList(StepParts(w, st, now))
BY MovePartsList, ShortLists DEF StepParts

(* The commands. *)

\* Writes a list of patches.
Writes == \E ps : IsList(ps) /\ Write(ps)

\* Any part of the records there are is finite.
LEMMA FiniteParts ==
  ASSUME NEW w
  PROVE  /\ \A S \in SUBSET Locs(w) : IsFiniteSet(S)
         /\ \A S \in SUBSET Items(w) : IsFiniteSet(S)
         /\ \A S \in SUBSET Plans(w) : IsFiniteSet(S)
         /\ \A a, b : IsFiniteSet({a}) /\ IsFiniteSet({a, b})
<1>1. \A S \in SUBSET Locs(w) : S \in SUBSET Loc
  BY DEF Locs
<1>2. \A S \in SUBSET Items(w) : S \in SUBSET Item
  BY DEF Items
<1>3. \A S \in SUBSET Plans(w) : S \in SUBSET Plan
  BY DEF Plans
<1>4. \A a, b : IsFiniteSet({a}) /\ IsFiniteSet({a, b})
  <2> TAKE a, b
  <2>1. {a, b} = {a} \cup {b} /\ IsFiniteSet({a}) /\ IsFiniteSet({b})
    BY FS_Singleton
  <2>2. IsFiniteSet({a} \cup {b})
    BY <2>1, FS_Union
  <2> QED
    BY <2>1, <2>2
<1> QED
  BY <1>1, <1>2, <1>3, <1>4, InventoryAssumption, FS_Subset

\* Every command on spaces writes a list of patches.
LEMMA SpaceCommandWrites ==
  ASSUME SpaceCommand
  PROVE  Writes
<1>0. \A a, b : IsFiniteSet({a}) /\ IsFiniteSet({a, b})
  BY FiniteParts
<1>1. CASE RenameWorkspace
  BY <1>1, ShortLists DEF RenameWorkspace, Writes
<1>2. ASSUME NEW l, NEW parent, NEW code, CreateSpace(l, parent, code)
      PROVE  Writes
  <2> DEFINE a == Invalidation(content, {}, {parent})
             b == <<Put(l, [parent |-> parent, archived |-> 0, code |-> code,
                        status |-> "uncounted", order |-> Now, stamp |-> Now])>>
             c == InProgress(content, Started(content, {parent}), Now)
  <2>1. Write(a \o b \o c)
    BY <1>2 DEF CreateSpace
  <2>2. Started(content, {parent}) \in SUBSET Locs(content)
    BY DEF Started
  <2>3. IsList(a) /\ IsList(b) /\ IsList(c)
    BY <2>2, FiniteParts, InvalidationList, ShortLists, InProgressList
  <2> QED
    BY <2>1, <2>3, OneAfterAnother DEF Writes
<1>3. ASSUME NEW l, NEW parent, NEW reopen, MoveSpace(l, parent, reopen)
      PROVE  Writes
  <2> DEFINE from == content[l].parent
             a == <<Set(content, l, "parent", parent)>>
             b == Invalidation(content, {}, {l, parent})
             c == <<Set(content, l, "stamp", Now)>>
             d == MoveProgress(content, {from}, parent, reopen, Now)
  <2>1. Write(a \o b \o c \o d)
    BY <1>3 DEF MoveSpace
  <2>2. IsList(a) /\ IsList(b) /\ IsList(c) /\ IsList(d)
    BY InvalidationList, ShortLists, MoveProgressList
  <2> HIDE DEF a, b, c, d
  <2>3. IsList(a \o b \o c)
    BY <2>2, OneAfterAnother
  <2> QED
    BY <2>1, <2>2, <2>3, OneAfterAnother DEF Writes
<1>4. ASSUME NEW l, NEW code, RecodeSpace(l, code)
      PROVE  Writes
  <2>1. Write(SetEach(content, {l}, "code", [m \in {l} |-> code], Now))
    BY <1>4 DEF RecodeSpace
  <2> QED
    BY <1>0, <2>1, SetEachList DEF Writes
<1>5. ASSUME NEW l, ReorderSpace(l)
      PROVE  Writes
  <2>1. Write(SetEach(content, {l}, "order", [m \in {l} |-> Now], Now))
    BY <1>5 DEF ReorderSpace
  <2> QED
    BY <1>0, <2>1, SetEachList DEF Writes
<1>6. ASSUME NEW l, ArchiveSpace(l)
      PROVE  Writes
  <2> DEFINE a == SetEach(content, {l}, "archived", [m \in {l} |-> Now], Now)
             b == Invalidation(content, {}, {l} \cup {content[l].parent})
  <2>1. Write(a \o b)
    BY <1>6 DEF ArchiveSpace
  <2>2. IsList(a) /\ IsList(b)
    BY <1>0, SetEachList, InvalidationList
  <2> QED
    BY <2>1, <2>2, OneAfterAnother DEF Writes
<1>7. ASSUME NEW l, RestoreSpace(l)
      PROVE  Writes
  <2> DEFINE up == {content[l].parent}
             a == SetEach(content, {l}, "archived", [m \in {l} |-> 0], Now)
             b == Invalidation(content, {}, {l} \cup up)
             c == InProgress(content, Started(content, up), Now)
  <2>1. Write(a \o b \o c)
    BY <1>7 DEF RestoreSpace
  <2>2. Started(content, up) \in SUBSET Locs(content)
    BY DEF Started
  <2>3. IsList(a) /\ IsList(b) /\ IsList(c)
    BY <1>0, <2>2, FiniteParts, SetEachList, InvalidationList, InProgressList
  <2> QED
    BY <2>1, <2>3, OneAfterAnother DEF Writes
<1>8. ASSUME NEW l, DeleteSpace(l)
      PROVE  Writes
  <2> DEFINE down == Within(content, l)
             inside == UNION {Contents(content, m) : m \in down}
             a == Invalidation(content, inside, down)
             b == TakeOutAll(content, inside)
             c == TakeOutAll(content, down \ {l})
             d == <<TakeOut(content, l)>>
  <2>1. Write(a \o b \o c \o d)
    BY <1>8 DEF DeleteSpace
  <2>2. inside \in SUBSET Items(content) /\ down \ {l} \in SUBSET Locs(content)
    BY DEF Within, Contents
  <2> HIDE DEF inside, down
  <2>3. IsList(a) /\ IsList(b) /\ IsList(c) /\ IsList(d)
    BY <2>2, FiniteParts, TakeOutAllList, InvalidationList, ShortLists
  <2> HIDE DEF a, b, c, d
  <2>4. IsList(a \o b \o c)
    BY <2>3, OneAfterAnother
  <2> QED
    BY <2>1, <2>3, <2>4, OneAfterAnother DEF Writes
<1>9. ASSUME NEW l, EmptySpace(l)
      PROVE  Writes
  <2> DEFINE inside == Contents(content, l)
             a == Invalidation(content, inside, {l})
             b == TakeOutAll(content, inside)
             c == SetEach(content, {l}, "status", [m \in {l} |-> "known_empty"], Now)
  <2>1. Write(a \o b \o c)
    BY <1>9 DEF EmptySpace
  <2>2. inside \in SUBSET Items(content)
    BY DEF Contents
  <2>3. IsList(a) /\ IsList(b) /\ IsList(c)
    BY <1>0, <2>2, FiniteParts, TakeOutAllList, InvalidationList, SetEachList
  <2> QED
    BY <2>1, <2>3, OneAfterAnother DEF Writes
<1>10. ASSUME NEW l, NEW status, Capture(l, status)
       PROVE  Writes
  <2> DEFINE a == Invalidation(content, {}, {l})
             b == SetEach(content, {l}, "status", [m \in {l} |-> status], Now)
  <2>1. Write(a \o b)
    BY <1>10 DEF Capture
  <2>2. IsList(a) /\ IsList(b)
    BY <1>0, SetEachList, InvalidationList
  <2> QED
    BY <2>1, <2>2, OneAfterAnother DEF Writes
<1> QED
  BY <1>1, <1>2, <1>3, <1>4, <1>5, <1>6, <1>7, <1>8, <1>9, <1>10 DEF SpaceCommand

\* So does adding a list of items, made by hand or imported.
LEMMA AddItemsWrites ==
  ASSUME NEW new, IsList(new), NEW reopen, AddItems(new, reopen)
  PROVE  Writes
<1> DEFINE ids == SetToSeq(Unused(Item))
           ls == {x.loc : x \in ToSet(new)}
           open == {l \in ls : content[l].status = "uncounted"
                               \/ (reopen /\ content[l].status \in Complete)}
           a == Invalidation(content, {}, ls)
           b == [i \in DOMAIN new |-> Put(ids[i], new[i])]
           c == InProgress(content, open, Now)
<1>1. ls \subseteq Live(content) /\ Write(a \o b \o c)
  BY DEF AddItems
<1>2. open \in SUBSET Locs(content)
  BY <1>1 DEF Live
<1> HIDE DEF open, ls
<1>3. IsList(a) /\ IsList(c)
  BY <1>2, FiniteParts, InvalidationList, InProgressList
<1>4. IsList(b)
  <2>1. PICK S : new \in Seq(S)
    BY DEF IsList
  <2>2. DOMAIN new = 1..Len(new) /\ Len(new) \in Nat
    BY <2>1
  <2> HIDE DEF ids
  <2>3. b = [i \in 1..Len(new) |-> b[i]]
    BY <2>2
  <2> QED
    BY <2>2, <2>3, SomeList
<1> QED
  BY <1>1, <1>3, <1>4, OneAfterAnother DEF Writes

LEMMA CreateItemsWrites ==
  ASSUME NEW l, NEW m, NEW kind, NEW reopen, CreateItems({l, m}, kind, reopen)
  PROVE  Writes
<1> DEFINE at == SetToSeq({l, m})
           new == [i \in DOMAIN at |-> [loc |-> at[i], qty |-> 1, kind |-> kind,
                                        order |-> Now, stamp |-> Now]]
<1>1. AddItems(new, reopen)
  BY DEF CreateItems
<1>2. DOMAIN at = 1..Len(at) /\ Len(at) \in Nat
  BY FiniteParts, SetToSeqIs
<1> HIDE DEF at
<1>3. new = [i \in 1..Len(at) |-> new[i]]
  BY <1>2
<1>4. IsList(new)
  BY <1>2, <1>3, SomeList
<1> QED
  BY <1>1, <1>4, AddItemsWrites

LEMMA ImportCommandWrites ==
  ASSUME ImportCommand
  PROVE  Writes
<1>0. PICK table \in Tables :
        \E mapping, shown, assigned :
          ImportItems(table, mapping, assigned, shown)
  BY DEF ImportCommand
<1>1. PICK mapping, shown, assigned :
        ImportItems(table, mapping, assigned, shown)
  BY <1>0
<1> DEFINE w == trail[shown]
           plan == PlanImport(w, table, mapping, assigned, Now)
           K == {i \in DOMAIN table.rows :
                   RowFaults(w, table, mapping, assigned, table.rows[i]) = {}}
           ready == IF MappingIssues(w, table, mapping, assigned) # {} THEN << >>
                    ELSE Picked(table.rows, K)
           items == [i \in DOMAIN ready |->
                       ItemOf(w, table, mapping, assigned, ready[i], Now)]
<1>2. AddItems(plan.items, plan.reopen)
  BY <1>1 DEF ImportItems
<1>3. plan.items = items
  BY DEF PlanImport
<1>4. IsList(ready)
  <2>1. table.rows \in Seq(ToSet(table.rows)) /\ K \in SUBSET DOMAIN table.rows
    BY TablesAssumption
  <2> HIDE DEF K
  <2>2. IsList(Picked(table.rows, K))
    BY <2>1, PickedIs DEF IsList
  <2> QED
    BY <2>2, ShortLists
<1> HIDE DEF ready
<1>5. DOMAIN ready = 1..Len(ready) /\ Len(ready) \in Nat
  BY <1>4 DEF IsList
<1>6. items = [i \in 1..Len(ready) |-> items[i]]
  BY <1>5
<1>7. IsList(items)
  BY <1>5, <1>6, SomeList
<1> QED
  BY <1>2, <1>3, <1>7, AddItemsWrites

\* So does every command on items.
LEMMA ItemCommandWrites ==
  ASSUME ItemCommand
  PROVE  Writes
<1>0. \A a, b : IsFiniteSet({a}) /\ IsFiniteSet({a, b})
  BY FiniteParts
<1>1. ASSUME NEW l, NEW m, NEW kind, NEW reopen, CreateItems({l, m}, kind, reopen)
      PROVE  Writes
  BY <1>1, CreateItemsWrites
<1>2. ASSUME NEW x, NEW field, NEW v, UpdateItem(x, field, v)
      PROVE  Writes
  <2> DEFINE a == Invalidation(content, {x}, {content[x].loc})
             b == SetEach(content, {x}, field, [y \in {x} |-> v], Now)
  <2>1. Write(a \o b)
    BY <1>2 DEF UpdateItem
  <2>2. IsList(a) /\ IsList(b)
    BY <1>0, SetEachList, InvalidationList
  <2> QED
    BY <2>1, <2>2, OneAfterAnother DEF Writes
<1>3. ASSUME NEW x, ReorderItem(x)
      PROVE  Writes
  <2>1. Write(SetEach(content, {x}, "order", [y \in {x} |-> Now], Now))
    BY <1>3 DEF ReorderItem
  <2> QED
    BY <1>0, <2>1, SetEachList DEF Writes
<1>4. ASSUME NEW x, DeleteItem(x)
      PROVE  Writes
  <2> DEFINE a == Invalidation(content, {x}, {content[x].loc})
             b == <<TakeOut(content, x)>>
  <2>1. Write(a \o b)
    BY <1>4 DEF DeleteItem
  <2>2. IsList(a) /\ IsList(b)
    BY ShortLists, InvalidationList
  <2> QED
    BY <2>1, <2>2, OneAfterAnother DEF Writes
<1>5. ASSUME NEW x, NEW to, NEW q, NEW reopen, MoveItem(x, to, q, reopen)
      PROVE  Writes
  <2> DEFINE from == content[x].loc
             split == CHOOSE y \in Unused(Item) : TRUE
             a == Invalidation(content, {x}, {from, to})
             b == MoveParts(content, x, to, q, split, Now)
             c == MoveProgress(content, {from}, to, reopen, Now)
  <2>1. Write(a \o b \o c)
    BY <1>5 DEF MoveItem
  <2>2. IsList(a) /\ IsList(b) /\ IsList(c)
    BY InvalidationList, MovePartsList, MoveProgressList
  <2> QED
    BY <2>1, <2>2, OneAfterAnother DEF Writes
<1>6. ASSUME NEW X, IsFiniteSet(X), NEW kind, NEW shown, BulkUpdate(X, kind, shown)
      PROVE  Writes
  <2> DEFINE w == trail[shown]
             Y == PlanBulkEdit(w, X, kind)
             at == {w[x].loc : x \in Y}
             a == Invalidation(content, Y, at)
             b == SetEach(content, Y, "kind", [x \in Y |-> kind], Now)
             c == InProgress(content, Reopened(content, at, Top), Now)
  <2>1. Write(a \o b \o c)
    BY <1>6 DEF BulkUpdate
  <2>2. Y \in SUBSET X
    BY DEF PlanBulkEdit
  <2> HIDE DEF Y
  <2>3. Reopened(content, at, Top) \in SUBSET Locs(content)
    BY DEF Reopened
  <2> HIDE DEF at
  <2>4. IsFiniteSet(Y) /\ IsFiniteSet(Reopened(content, at, Top))
    BY <1>6, <2>2, <2>3, FiniteParts, FS_Subset
  <2>5. IsList(a) /\ IsList(b) /\ IsList(c)
    BY <2>4, InvalidationList, SetEachList, InProgressList
  <2> QED
    BY <2>1, <2>5, OneAfterAnother DEF Writes
<1>7. ASSUME NEW X, IsFiniteSet(X), NEW to, NEW reopen, BulkMove(X, to, reopen)
      PROVE  Writes
  <2> DEFINE Y == {x \in X : content[x].loc # to}
             at == {content[x].loc : x \in Y}
             a == Invalidation(content, Y, at \cup {to})
             b == BulkMoveParts(content, Y, to, Now)
             c == MoveProgress(content, at, to, reopen, Now)
  <2>1. Write(a \o b \o c)
    BY <1>7 DEF BulkMove
  <2>2. Y \in SUBSET X
    OBVIOUS
  <2> HIDE DEF Y, at
  <2>3. IsFiniteSet(Y)
    BY <1>7, <2>2, FS_Subset
  <2>4. IsList(a) /\ IsList(b) /\ IsList(c)
    BY <2>3, InvalidationList, BulkMovePartsList, MoveProgressList
  <2> QED
    BY <2>1, <2>4, OneAfterAnother DEF Writes
<1> QED
  BY <1>0, <1>1, <1>2, <1>3, <1>4, <1>5, <1>6, <1>7 DEF ItemCommand

\* So does every command on plans.
LEMMA PlanCommandWrites ==
  ASSUME PlanCommand
  PROVE  Writes
<1>1. ASSUME NEW p, NEW route, NEW s, CreatePlan(p, route, s)
      PROVE  Writes
  <2> DEFINE plan == [status |-> "active", steps |-> Projected(route)[Len(route)].steps,
                      selection |-> s]
             a == PlanStatusAll(content, ActivePlans(content), "discarded")
             b == <<Put(p, plan)>>
  <2>1. Write(a \o b)
    BY <1>1 DEF CreatePlan
  <2>2. ActivePlans(content) \in SUBSET Plans(content)
    BY DEF ActivePlans
  <2>3. IsList(a) /\ IsList(b)
    BY <2>2, FiniteParts, StatusList, ShortLists
  <2> QED
    BY <2>1, <2>3, OneAfterAnother DEF Writes
<1>2. ASSUME NEW p, NEW status, MarkPlan(p, status)
      PROVE  Writes
  <2>1. Write(PlanStatusAll(content, {p}, status))
    BY <1>2 DEF MarkPlan
  <2> QED
    BY <2>1, FiniteParts, StatusList DEF Writes
<1>3. ASSUME NEW p, CompleteStep(p)
      PROVE  Writes
  <2> DEFINE plan == content[p]
             i == Min(Pending(plan))
             st == plan.steps[i]
             done == [plan.steps EXCEPT ![i].done = Now]
             a == StepParts(content, st, Now)
             b == MoveProgress(content, {st.from}, st.to, TRUE, Now)
             c == <<Set(content, p, "steps", done),
                    Set(content, p, "status",
                        IF Pending(plan) = {i} THEN "completed" ELSE "active")>>
  <2>1. Write(a \o b \o c)
    BY <1>3 DEF CompleteStep
  <2> HIDE DEF st, done, i, plan
  <2>2. IsList(a) /\ IsList(b) /\ IsList(c)
    BY StepPartsList, MoveProgressList, ShortLists
  <2> QED
    BY <2>1, <2>2, OneAfterAnother DEF Writes
<1> QED
  BY <1>1, <1>2, <1>3 DEF PlanCommand

(* The theorems. *)

\* An empty history is one.
LEMMA InitIs ==
  ASSUME Init
  PROVE  HistoryInvariant /\ AcceptedChangeKept
<1>1. history = [activities |-> << >>, audit |-> << >>, receipts |-> << >>] /\ revision = 0
  BY DEF Init, EmptyHistory
<1>2. /\ history.activities = << >> /\ history.audit = << >>
      /\ history.activities \in Seq(Entries({})) /\ history.audit \in Seq(Events)
  BY <1>1
<1>3. history \in Histories({})
  BY <1>1, <1>2 DEF Histories
<1>4. ActivityIds(history) = {} /\ EventIds(history) = {} /\ Knows(history)
      /\ Distinct(history.audit)
  BY <1>2 DEF ActivityIds, EventIds, Ids, Knows, Distinct
<1>5. IsHistory(history)
  BY <1>3 DEF IsHistory
<1>6. HistoryInvariant
  BY <1>1, <1>4, <1>5 DEF HistoryInvariant
<1>7. AcceptedChangeKept
  BY <1>1 DEF AcceptedChangeKept
<1> QED
  BY <1>6, <1>7

\* And every step leaves one.
LEMMA NextIs ==
  ASSUME HistoryInvariant, AcceptedChangeKept, [Next]_vars
  PROVE  HistoryInvariant' /\ AcceptedChangeKept'
<1>1. CASE SpaceCommand \/ ItemCommand \/ ImportCommand \/ PlanCommand
  <2>1. Writes
    BY <1>1, SpaceCommandWrites, ItemCommandWrites, ImportCommandWrites, PlanCommandWrites
  <2> QED
    BY <2>1, WriteIs DEF Writes
<1>2. CASE \E id \in 1..revision, undo \in BOOLEAN : Pluck(id, undo)
  BY <1>2, UndoRedoIs
<1>3. CASE \E n \in 1..MaxBatch : UndoLast(n) \/ RedoLast(n)
  BY <1>3, UndoRedoIs
<1>4. CASE UNCHANGED vars
  <2>1. history' = history /\ revision' = revision
    BY <1>4 DEF vars
  <2>2. HistoryInvariant'
    BY <2>1 DEF HistoryInvariant, IsHistory, Knows, Distinct, ActivityIds, EventIds
  <2>3. AcceptedChangeKept'
    BY <2>1 DEF AcceptedChangeKept
  <2> QED
    BY <2>2, <2>3
<1> QED
  BY <1>1, <1>2, <1>3, <1>4 DEF Next

\* The invariant of the history: audit events name only activities that exist,
\* so that undo and redo find what they are about (normalizeAudit), no two of
\* them are of one command, and nothing in it is newer than the workspace.
THEOREM HistoryHolds == Spec => []HistoryInvariant
<1>1. Init => HistoryInvariant /\ AcceptedChangeKept
  BY InitIs
<1>2. HistoryInvariant /\ AcceptedChangeKept /\ [Next]_vars
        => (HistoryInvariant /\ AcceptedChangeKept)'
  BY NextIs
<1> QED
  BY <1>1, <1>2, PTL DEF Spec

\* compactWorkspaceHistory never takes what the accepted command just did.  Audit
\* events and receipts are always within their limits; activities and patches
\* are unless only that change's own activities are left, and the size is unless
\* only that change and the newest receipt are.
THEOREM AcceptedChangesAreKept == Spec => []AcceptedChangeKept
<1>1. Init => HistoryInvariant /\ AcceptedChangeKept
  BY InitIs
<1>2. HistoryInvariant /\ AcceptedChangeKept /\ [Next]_vars
        => (HistoryInvariant /\ AcceptedChangeKept)'
  BY NextIs
<1> QED
  BY <1>1, <1>2, PTL DEF Spec
=============================================================================
