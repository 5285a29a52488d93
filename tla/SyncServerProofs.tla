--------------------------- MODULE SyncServerProofs ---------------------------
(***************************************************************************)
(* Theorems about SyncServer for every number of requests, accounts,       *)
(* fields, commands, retries and every ledger limit.                       *)
(***************************************************************************)
EXTENDS SyncServer, SequenceTheorems, TLAPS

-----------------------------------------------------------------------------
(* Snapshots: what applying commands preserves, types and the consistency of a *)
(* snapshot with its log.                                                      *)

\* A partial assignment maps some fields to values.
LEMMA PartialShape ==
  ASSUME NEW p \in Partial
  PROVE  DOMAIN p \subseteq Field /\ \A x \in DOMAIN p : p[x] \in Value
<1>1. PICK D \in SUBSET Field : p \in [D -> Value]
  BY DEF Partial
<1> QED BY <1>1

\* Writing a command's fields over the values of a snapshot (applyPatches)
\* gives one value per field again.
LEMMA OverwriteType ==
  ASSUME NEW val \in [Field -> Value], NEW p \in Partial
  PROVE  Overwrite(val, p) \in [Field -> Value]
BY PartialShape DEF Overwrite

\* A backup sets every field: its values are a legal assignment.
LEMMA FullAssignment ==
  ASSUME NEW val \in [Field -> Value]
  PROVE  val \in Partial
BY DEF Partial

\* A restore expects nothing: the empty assignment is a legal one.
LEMMA EmptyAssignment ==
  [f \in {} |-> Blank] \in Partial
<1>1. [f \in {} |-> Blank] \in [{} -> Value]
  OBVIOUS
<1>2. {} \in SUBSET Field
  OBVIOUS
<1> QED BY <1>1, <1>2, Zenon DEF Partial

\* The snapshot of a workspace that was just created is a snapshot.
LEMMA EmptySnapshotType ==
  EmptySnapshot \in Snapshot
BY CommandAssumption DEF EmptySnapshot, Snapshot

\* Applying a command yields a snapshot one revision and one entry further.
LEMMA ApplyType ==
  ASSUME NEW s \in Snapshot, NEW c \in Envelope, NEW who \in Account
  PROVE  ApplyCommand(s, c, who) \in Snapshot
<1>1. s.val \in [Field -> Value] /\ c.sets \in Partial /\ c.expect \in Partial
  BY DEF Snapshot, Envelope
<1>2. Overwrite(s.val, c.sets) \in [Field -> Value]
  BY <1>1, OverwriteType
<1>3. [id |-> c.id, by |-> who, sets |-> c.sets, expect |-> c.expect] \in Entry
  BY <1>1 DEF Entry, Envelope
<1>4. Append(s.log, [id |-> c.id, by |-> who, sets |-> c.sets,
                     expect |-> c.expect]) \in Seq(Entry)
  BY <1>3 DEF Snapshot
<1>5. Append(s.ledger, c.id) \in Seq(Edit) /\ s.rev + 1 \in Nat
  BY DEF Snapshot, Envelope
<1> QED BY <1>2, <1>4, <1>5 DEF ApplyCommand, Snapshot

\* Forgetting the oldest ids keeps the newest LedgerLimit, in order.
LEMMA NewestShape ==
  ASSUME NEW ids \in Seq(Edit)
  PROVE  /\ Newest(ids) \in Seq(Edit)
         /\ Len(Newest(ids)) = IF Len(ids) <= LedgerLimit
                               THEN Len(ids) ELSE LedgerLimit
         /\ \A k \in 1..Len(Newest(ids)) :
              Newest(ids)[k] = ids[Len(ids) - Len(Newest(ids)) + k]
<1>1. CASE Len(ids) <= LedgerLimit
  BY <1>1 DEF Newest
<1>2. CASE ~(Len(ids) <= LedgerLimit)
  <2>1. LedgerLimit \in Nat /\ LedgerLimit > 0 /\ Len(ids) \in Nat
    BY CommandAssumption
  <2>2. Newest(ids) = SubSeq(ids, Len(ids) - LedgerLimit + 1, Len(ids))
    BY <1>2 DEF Newest
  <2> QED BY <1>2, <2>1, <2>2
<1> QED BY <1>1, <1>2

\* compactWorkspaceHistory keeps a snapshot a snapshot.
LEMMA CompactType ==
  ASSUME NEW s \in Snapshot
  PROVE  Compact(s) \in Snapshot
<1>1. Newest(s.ledger) \in Seq(Edit)
  BY NewestShape DEF Snapshot
<1> QED BY <1>1 DEF Compact, Snapshot

\* One command of a batch: a snapshot and a receipt come out of it.
LEMMA VerdictType ==
  ASSUME NEW s \in Snapshot, NEW c \in Envelope, NEW who \in Account,
         NEW start, NEW done
  PROVE  LET verdict == Verdict(s, c, start, done, who)
             after == AfterVerdict(s, c, verdict, who)
         IN /\ verdict \in {"applied", "duplicate", "rejected"}
            /\ after \in Snapshot
            /\ ReceiptOf(c, verdict, after) \in Receipt
<1> DEFINE verdict == Verdict(s, c, start, done, who)
           after == AfterVerdict(s, c, verdict, who)
<1>1. verdict \in {"applied", "duplicate", "rejected"}
  BY DEF Verdict
<1>2. after \in Snapshot
  BY ApplyType, CompactType DEF AfterVerdict
<1>3. ReceiptOf(c, verdict, after) \in Receipt
  <2> HIDE DEF verdict, after
  <2> QED BY <1>1, <1>2 DEF ReceiptOf, Receipt, Snapshot, Envelope
<1> QED BY <1>1, <1>2, <1>3

-----------------------------------------------------------------------------
(* Consistency with the log. *)

\* A log agrees with another one on its first n entries.
SameUpTo(s, t, n) == \A i \in 1..n : s[i] = t[i]

\* What the first n entries say depends on them alone.
LEMMA ValueAfterPrefix ==
  ASSUME NEW s, NEW t, NEW n \in Nat, SameUpTo(s, t, n), NEW x, NEW v
  PROVE  ValueAfter(s, n, x, v) <=> ValueAfter(t, n, x, v)
<1>1. \A i \in 1..n : s[i] = t[i]
  BY DEF SameUpTo
<1>2. \A i \in 1..n : \A j \in (i+1)..n : j \in 1..n
  OBVIOUS
<1> QED BY <1>1, <1>2 DEF ValueAfter

\* One more entry: the field it sets has its value, the others keep theirs.
LEMMA ValueAfterAppend ==
  ASSUME NEW log, NEW n \in Nat, NEW x, NEW v
  PROVE  /\ (x \in DOMAIN log[n + 1].sets /\ log[n + 1].sets[x] = v)
              => ValueAfter(log, n + 1, x, v)
         /\ (x \notin DOMAIN log[n + 1].sets /\ ValueAfter(log, n, x, v))
              => ValueAfter(log, n + 1, x, v)
<1>1. ASSUME x \in DOMAIN log[n + 1].sets, log[n + 1].sets[x] = v
      PROVE  ValueAfter(log, n + 1, x, v)
  <2>1. n + 1 \in 1..(n + 1) /\ ((n + 1) + 1)..(n + 1) = {}
    OBVIOUS
  <2> QED BY <1>1, <2>1 DEF ValueAfter
<1>2. ASSUME x \notin DOMAIN log[n + 1].sets, ValueAfter(log, n, x, v)
      PROVE  ValueAfter(log, n + 1, x, v)
  <2>1. \A i \in 1..(n + 1) : i \in 1..n \/ i = n + 1
    OBVIOUS
  <2>2. CASE v = Blank /\ \A i \in 1..n : x \notin DOMAIN log[i].sets
    BY <1>2, <2>1, <2>2 DEF ValueAfter
  <2>3. CASE \E i \in 1..n : /\ x \in DOMAIN log[i].sets
                             /\ log[i].sets[x] = v
                             /\ \A j \in (i+1)..n : x \notin DOMAIN log[j].sets
    <3>1. PICK i \in 1..n : /\ x \in DOMAIN log[i].sets
                            /\ log[i].sets[x] = v
                            /\ \A j \in (i+1)..n : x \notin DOMAIN log[j].sets
      BY <2>3
    <3>2. i \in 1..(n + 1) /\ \A j \in (i+1)..(n+1) : j \in (i+1)..n \/ j = n + 1
      OBVIOUS
    <3> QED BY <1>2, <3>1, <3>2 DEF ValueAfter
  <2> QED BY <1>2, <2>2, <2>3 DEF ValueAfter
<1> QED BY <1>1, <1>2

\* What a snapshot's next entry leaves of the facts about the older ones.
LEMMA EarlierEntriesStay ==
  ASSUME NEW log \in Seq(Entry), NEW e \in Entry
  PROVE  LET t == Append(log, e) IN
         /\ Len(t) = Len(log) + 1
         /\ t[Len(log) + 1] = e
         /\ \A i \in 1..Len(log) : t[i] = log[i]
OBVIOUS

\* applyCommand extends the log by exactly the entry that explains the new
\* values and the new revision.
LEMMA ExplainedPreserved ==
  ASSUME NEW s \in Snapshot, NEW c \in Envelope, NEW who \in Account,
         ExplainedByLog(s)
  PROVE  ExplainedByLog(ApplyCommand(s, c, who))
<1> DEFINE e == [id |-> c.id, by |-> who, sets |-> c.sets, expect |-> c.expect]
           n == Len(s.log)
           t == Append(s.log, e)
<1>0. e \in Entry /\ s.log \in Seq(Entry) /\ n \in Nat
  BY DEF Entry, Envelope, Snapshot
<1>1. Len(t) = n + 1 /\ t[n + 1] = e /\ SameUpTo(t, s.log, n)
  BY <1>0, EarlierEntriesStay DEF SameUpTo
<1>2. ASSUME NEW x \in Field
      PROVE  ValueAfter(t, n + 1, x, Overwrite(s.val, c.sets)[x])
  <2>1. Overwrite(s.val, c.sets)[x] =
          IF x \in DOMAIN c.sets THEN c.sets[x] ELSE s.val[x]
    BY DEF Overwrite
  <2>2. t[n + 1].sets = c.sets
    BY <1>1
  <2>3. CASE x \in DOMAIN c.sets
    <3> HIDE DEF t
    <3> QED BY <2>1, <2>2, <2>3, <1>0, ValueAfterAppend
  <2>4. CASE x \notin DOMAIN c.sets
    <3>1. ValueAfter(s.log, n, x, s.val[x])
      BY DEF ExplainedByLog
    <3> HIDE DEF t
    <3>2. ValueAfter(t, n, x, s.val[x])
      BY <3>1, <1>0, <1>1, ValueAfterPrefix
    <3> QED BY <2>1, <2>2, <2>4, <3>2, <1>0, ValueAfterAppend
  <2> QED BY <2>3, <2>4
<1>3. s.rev + 1 = n + 1
  BY DEF ExplainedByLog
<1>4. /\ ApplyCommand(s, c, who).rev = s.rev + 1
      /\ ApplyCommand(s, c, who).val = Overwrite(s.val, c.sets)
      /\ ApplyCommand(s, c, who).log = t
  BY DEF ApplyCommand
<1> HIDE DEF t
<1> QED BY <1>1, <1>2, <1>3, <1>4 DEF ExplainedByLog

\* An entry is only added when its expectations hold (expectationConflicts),
\* and adding it does not change what earlier entries found.
LEMMA ExpectationsPreserved ==
  ASSUME NEW s \in Snapshot, NEW c \in Envelope, NEW who \in Account,
         ExplainedByLog(s), ExpectationsHeld(s), Conflicts(s, c) = {}
  PROVE  ExpectationsHeld(ApplyCommand(s, c, who))
<1> DEFINE e == [id |-> c.id, by |-> who, sets |-> c.sets, expect |-> c.expect]
           n == Len(s.log)
           t == Append(s.log, e)
<1>0. e \in Entry /\ s.log \in Seq(Entry) /\ n \in Nat
  BY DEF Entry, Envelope, Snapshot
<1>1. Len(t) = n + 1 /\ t[n + 1] = e /\ SameUpTo(t, s.log, n)
  BY <1>0, EarlierEntriesStay DEF SameUpTo
<1>2. ASSUME NEW k \in 1..(n + 1), NEW x \in DOMAIN t[k].expect
      PROVE  ValueAfter(t, k - 1, x, t[k].expect[x])
  <2>0. k - 1 \in Nat /\ SameUpTo(t, s.log, k - 1)
    BY <1>0, <1>1 DEF SameUpTo
  <2>1. CASE k \in 1..n
    <3>1. t[k] = s.log[k] /\ k \in DOMAIN s.log
      BY <1>0, <1>1, <2>1 DEF SameUpTo
    <3>2. ValueAfter(s.log, k - 1, x, s.log[k].expect[x])
      BY <3>1, <1>2 DEF ExpectationsHeld
    <3> HIDE DEF t
    <3> QED BY <2>0, <3>1, <3>2, ValueAfterPrefix
  <2>2. CASE k = n + 1
    <3>1. t[k].expect = c.expect /\ k - 1 = n
      BY <1>0, <1>1, <2>2
    <3>2. x \in Field /\ c.expect[x] = s.val[x]
      <4>1. c.expect \in Partial
        BY DEF Envelope
      <4> QED BY <1>2, <3>1, <4>1, PartialShape DEF Conflicts
    <3>3. ValueAfter(s.log, n, x, s.val[x])
      BY <3>2 DEF ExplainedByLog
    <3> HIDE DEF t
    <3> QED BY <2>0, <3>1, <3>2, <3>3, ValueAfterPrefix
  <2> QED BY <1>0, <2>1, <2>2
<1>3. ApplyCommand(s, c, who).log = t /\ DOMAIN t = 1..(n + 1)
  BY <1>0, <1>1 DEF ApplyCommand
<1> HIDE DEF t
<1> QED BY <1>2, <1>3 DEF ExpectationsHeld

\* A restore within a range is one within any wider range of a longer log.
LEMMA RestoredWithinWider ==
  ASSUME NEW s, NEW t, NEW i \in Nat, NEW j \in Nat, NEW k \in Nat,
         i >= 1, j <= k, SameUpTo(t, s, j), RestoredWithin(s, i, j)
  PROVE  RestoredWithin(t, i, k)
BY DEF RestoredWithin, SameUpTo

\* An id the ledger does not remember (wasApplied) last entered the log more
\* than LedgerLimit entries ago, or before a restore.
LEMMA OncePreserved ==
  ASSUME NEW s \in Snapshot, NEW c \in Envelope, NEW who \in Account,
         OnceWithinWindow(s), LedgerCoversWindow(s), ~WasApplied(s, c.id)
  PROVE  OnceWithinWindow(ApplyCommand(s, c, who))
<1> DEFINE e == [id |-> c.id, by |-> who, sets |-> c.sets, expect |-> c.expect]
           n == Len(s.log)
           t == Append(s.log, e)
<1>0. /\ e \in Entry /\ s.log \in Seq(Entry) /\ n \in Nat
      /\ LedgerLimit \in Nat /\ s.ledger \in Seq(Edit)
  BY CommandAssumption DEF Entry, Envelope, Snapshot
<1>1. Len(t) = n + 1 /\ t[n + 1] = e /\ SameUpTo(t, s.log, n)
  BY <1>0, EarlierEntriesStay DEF SameUpTo
<1>2. ASSUME NEW i \in 1..(n + 1), NEW j \in 1..(n + 1), i < j,
             t[i].id = t[j].id, t[i].id # Restored
      PROVE  j - i > LedgerLimit \/ RestoredWithin(t, i, j)
  <2>1. i \in 1..n /\ t[i] = s.log[i]
    BY <1>0, <1>1, <1>2 DEF SameUpTo
  <2>2. CASE j \in 1..n
    <3>1. t[j] = s.log[j]
      BY <1>1, <2>2 DEF SameUpTo
    <3>2. j - i > LedgerLimit \/ RestoredWithin(s.log, i, j)
      BY <1>0, <1>2, <2>1, <2>2, <3>1 DEF OnceWithinWindow
    <3>3. SameUpTo(t, s.log, j)
      BY <1>0, <1>1, <2>2 DEF SameUpTo
    <3> HIDE DEF t
    <3> QED BY <1>0, <2>1, <2>2, <3>2, <3>3, RestoredWithinWider
  <2>3. CASE j = n + 1
    <3>1. s.log[i].id = c.id
      BY <1>1, <1>2, <2>1, <2>3
    <3>2. CASE RestoredWithin(s.log, i, n)
      <4> HIDE DEF t
      <4> QED BY <1>0, <1>1, <2>1, <2>3, <3>2, RestoredWithinWider
    <3>3. CASE ~RestoredWithin(s.log, i, n)
      <4>1. ASSUME n - i < LedgerLimit
            PROVE  FALSE
        <5>0. i \in DOMAIN s.log
          BY <1>0, <2>1
        <5>1. /\ Len(s.ledger) > n - i
              /\ s.ledger[Len(s.ledger) - (n - i)] = s.log[i].id
          BY <3>3, <4>1, <5>0 DEF LedgerCoversWindow
        <5>2. Len(s.ledger) - (n - i) \in 1..Len(s.ledger)
          <6> DEFINE size == Len(s.ledger)
          <6>1. size \in Nat /\ size > n - i
            BY <1>0, <5>1
          <6> HIDE DEF n, size
          <6>2. size - (n - i) \in 1..size
            BY <1>0, <2>1, <6>1
          <6> QED BY <6>2 DEF size
        <5>3. DOMAIN s.ledger = 1..Len(s.ledger)
          BY <1>0
        <5> QED BY <3>1, <5>1, <5>2, <5>3 DEF WasApplied
      <4> QED BY <1>0, <2>1, <2>3, <4>1
    <3> QED BY <3>2, <3>3
  <2> QED BY <1>0, <2>2, <2>3
<1>3. ApplyCommand(s, c, who).log = t /\ DOMAIN t = 1..(n + 1)
  BY <1>0, <1>1 DEF ApplyCommand
<1> HIDE DEF t
<1> QED BY <1>2, <1>3 DEF OnceWithinWindow

\* What Newest keeps of a window, counted from the newest id back.
LEMMA WindowShift ==
  ASSUME NEW ids \in Seq(Edit), NEW id \in Edit, NEW back \in Nat,
         back < LedgerLimit,
         back > 0 => Len(ids) >= back
  PROVE  LET kept == Newest(Append(ids, id)) IN
         /\ Len(kept) > back
         /\ kept[Len(kept) - back] =
              IF back = 0 THEN id ELSE ids[Len(ids) - (back - 1)]
<1> DEFINE grown == Append(ids, id)
           kept == Newest(grown)
           size == Len(ids)
<1>0. size \in Nat /\ LedgerLimit \in Nat /\ LedgerLimit > 0
  BY CommandAssumption
<1>1. /\ grown \in Seq(Edit) /\ Len(grown) = size + 1
      /\ grown[size + 1] = id
      /\ \A k \in 1..size : grown[k] = ids[k]
  OBVIOUS
<1>2. /\ Len(kept) = IF size + 1 <= LedgerLimit THEN size + 1 ELSE LedgerLimit
      /\ \A k \in 1..Len(kept) : kept[k] = grown[size + 1 - Len(kept) + k]
  <2> HIDE DEF grown, size, kept
  <2>1. /\ Len(kept) = IF Len(grown) <= LedgerLimit
                      THEN Len(grown) ELSE LedgerLimit
        /\ \A k \in 1..Len(kept) : kept[k] = grown[Len(grown) - Len(kept) + k]
    BY <1>1, NewestShape, Zenon DEF kept
  <2>2. Len(grown) = size + 1
    BY <1>1
  <2> QED BY <1>0, <2>1, <2>2
<1> HIDE DEF grown, kept, size
<1>3. Len(kept) > back /\ Len(kept) - back \in 1..Len(kept)
  BY <1>0, <1>2 DEF size
<1>4. kept[Len(kept) - back] = grown[size + 1 - Len(kept) + (Len(kept) - back)]
  BY <1>2, <1>3
<1>5. size + 1 - Len(kept) + (Len(kept) - back) = size + 1 - back
  BY <1>0, <1>2
<1>6. CASE back = 0
  BY <1>0, <1>1, <1>3, <1>4, <1>5, <1>6 DEF kept, grown
<1>7. CASE back > 0
  <2>1. size + 1 - back \in 1..size /\ size + 1 - back = size - (back - 1)
    BY <1>0, <1>7 DEF size
  <2>2. grown[size + 1 - back] = ids[size - (back - 1)]
    BY <1>1, <2>1
  <2> QED BY <1>3, <1>4, <1>5, <1>7, <2>2 DEF kept, grown, size
<1> QED BY <1>6, <1>7

\* After applying and compacting, the ledger still remembers the newest
\* LedgerLimit entries (compactWorkspaceHistory with withCommandReceipts).
LEMMA CoversPreserved ==
  ASSUME NEW s \in Snapshot, NEW c \in Envelope, NEW who \in Account,
         LedgerCoversWindow(s)
  PROVE  LedgerCoversWindow(Compact(ApplyCommand(s, c, who)))
<1> DEFINE e == [id |-> c.id, by |-> who, sets |-> c.sets, expect |-> c.expect]
           n == Len(s.log)
           t == Append(s.log, e)
           kept == Newest(Append(s.ledger, c.id))
<1>0. /\ e \in Entry /\ s.log \in Seq(Entry) /\ n \in Nat
      /\ LedgerLimit \in Nat
      /\ s.ledger \in Seq(Edit) /\ c.id \in Edit
  BY CommandAssumption DEF Entry, Envelope, Snapshot
<1>1. Len(t) = n + 1 /\ t[n + 1] = e /\ SameUpTo(t, s.log, n)
  BY <1>0, EarlierEntriesStay DEF SameUpTo
<1>2. t[n + 1].id = c.id
  BY <1>1
<1>shift. ASSUME NEW back \in Nat, back < LedgerLimit,
                 back > 0 => Len(s.ledger) >= back
          PROVE  /\ Len(kept) > back
                 /\ kept[Len(kept) - back] =
                      IF back = 0 THEN c.id ELSE s.ledger[Len(s.ledger) - (back - 1)]
  BY <1>0, <1>shift, WindowShift, Zenon
<1>3. /\ Compact(ApplyCommand(s, c, who)).log = t
      /\ Compact(ApplyCommand(s, c, who)).ledger = kept
      /\ DOMAIN t = 1..(n + 1)
  BY <1>0, <1>1 DEF ApplyCommand, Compact
<1> HIDE DEF t
<1>4. ASSUME NEW i \in 1..(n + 1), n + 1 - i < LedgerLimit,
             ~RestoredWithin(t, i, n + 1)
      PROVE  /\ Len(kept) > n + 1 - i
             /\ kept[Len(kept) - (n + 1 - i)] = t[i].id
  <2> DEFINE back == n + 1 - i
  <2>0. back \in Nat /\ back < LedgerLimit
    BY <1>0, <1>4
  <2>1. CASE i = n + 1
    <3>1. back = 0
      BY <1>0, <2>1
    <3> HIDE DEF back
    <3>2. Len(kept) > back /\ kept[Len(kept) - back] = c.id
      <4> HIDE DEF kept
      <4> QED BY <2>0, <3>1, <1>shift
    <3> QED BY <1>2, <2>1, <3>2 DEF back
  <2>2. CASE i \in 1..n
    <3> HIDE DEF n
    <3>1. ~RestoredWithin(s.log, i, n)
      BY <1>0, <1>1, <1>4, <2>2, RestoredWithinWider
    <3>2. n - i < LedgerLimit /\ back - 1 = n - i /\ back > 0
      BY <1>0, <1>4, <2>2
    <3>3. Len(s.ledger) > n - i /\ s.ledger[Len(s.ledger) - (n - i)] = s.log[i].id
      <4>1. i \in DOMAIN s.log
        BY <1>0, <2>2 DEF n
      <4> QED BY <3>1, <3>2, <4>1 DEF LedgerCoversWindow, n
    <3>4. Len(s.ledger) >= back
      <4>1. Len(s.ledger) \in Nat
        BY <1>0
      <4> QED BY <1>0, <2>2, <3>3, <4>1
    <3>5. t[i] = s.log[i]
      BY <1>1, <2>2 DEF SameUpTo
    <3> HIDE DEF back
    <3>6. /\ Len(kept) > back
          /\ kept[Len(kept) - back] = s.ledger[Len(s.ledger) - (back - 1)]
      <4>1. back > 0 => Len(s.ledger) >= back
        BY <3>4
      <4>2. back # 0
        BY <2>0, <3>2
      <4> HIDE DEF kept
      <4> QED BY <2>0, <4>1, <4>2, <1>shift
    <3> QED BY <3>2, <3>3, <3>5, <3>6 DEF back
  <2>3. i \in 1..n \/ i = n + 1
    <3> HIDE DEF n
    <3> QED BY <1>0
  <2> QED BY <2>1, <2>2, <2>3
<1> DEFINE u == Compact(ApplyCommand(s, c, who))
<1>5. u.log = t /\ u.ledger = kept /\ Len(t) = n + 1 /\ DOMAIN t = 1..(n + 1)
  BY <1>1, <1>3
<1> HIDE DEF kept, u, n
<1>6. LedgerCoversWindow(u)
  <2> SUFFICES ASSUME NEW i \in DOMAIN u.log, Len(u.log) - i < LedgerLimit,
                      ~RestoredWithin(u.log, i, Len(u.log))
               PROVE  /\ Len(u.ledger) > Len(u.log) - i
                      /\ u.ledger[Len(u.ledger) - (Len(u.log) - i)] = u.log[i].id
    BY DEF LedgerCoversWindow
  <2>1. i \in 1..(n + 1)
    BY <1>0, <1>5
  <2>2. n + 1 - i < LedgerLimit
    BY <1>0, <1>5
  <2>3. ~RestoredWithin(t, i, n + 1)
    BY <1>5
  <2>4. /\ Len(kept) > n + 1 - i
        /\ kept[Len(kept) - (n + 1 - i)] = t[i].id
    BY <1>4, <2>1, <2>2, <2>3
  <2> QED BY <1>0, <1>5, <2>1, <2>4
<1> QED BY <1>6 DEF u

\* A command that is new and finds what it expects keeps a snapshot consistent.
LEMMA ApplyConsistent ==
  ASSUME NEW s \in Snapshot, NEW c \in Envelope, NEW who \in Account,
         Consistent(s), ~WasApplied(s, c.id), Conflicts(s, c) = {}
  PROVE  Consistent(Compact(ApplyCommand(s, c, who)))
<1> DEFINE u == ApplyCommand(s, c, who)
<1>1. ExplainedByLog(u) /\ ExpectationsHeld(u) /\ OnceWithinWindow(u)
  BY ExplainedPreserved, ExpectationsPreserved, OncePreserved DEF Consistent
<1>2. u \in Snapshot
  BY ApplyType
<1>4. LedgerCoversWindow(Compact(u))
  BY CoversPreserved DEF Consistent
<1> HIDE DEF u
<1>3. Compact(u).rev = u.rev /\ Compact(u).val = u.val /\ Compact(u).log = u.log
  BY <1>2 DEF Compact, Snapshot
<1>5. Consistent(Compact(u))
  BY <1>1, <1>3, <1>4
     DEF Consistent, ExplainedByLog, ExpectationsHeld, OnceWithinWindow
<1> QED BY <1>5 DEF u

\* Whatever the verdict on a command, the snapshot it leaves is consistent.
LEMMA VerdictConsistent ==
  ASSUME NEW s \in Snapshot, NEW c \in Envelope, NEW who \in Account,
         NEW start, NEW done, Consistent(s)
  PROVE  Consistent(AfterVerdict(s, c, Verdict(s, c, start, done, who), who))
<1>1. ASSUME Verdict(s, c, start, done, who) = "applied"
      PROVE  ~WasApplied(s, c.id) /\ CanApply(s, c)
  BY <1>1 DEF Verdict
<1>2. CASE Verdict(s, c, start, done, who) = "applied"
  BY <1>1, <1>2, ApplyConsistent DEF AfterVerdict, CanApply
<1>3. CASE Verdict(s, c, start, done, who) # "applied"
  BY <1>3 DEF AfterVerdict
<1> QED BY <1>2, <1>3
-----------------------------------------------------------------------------
(* Logs that continue each other. *)

\* A log that extends an extension of a log extends that log.
LEMMA ContinuesTransitive ==
  ASSUME NEW s \in Seq(Entry), NEW t \in Seq(Entry), NEW u \in Seq(Entry),
         Continues(t, s), Continues(u, t)
  PROVE  Continues(u, s)
<1>1. Len(s) \in Nat /\ Len(t) \in Nat /\ Len(u) \in Nat
  OBVIOUS
<1> QED BY <1>1 DEF Continues

\* Every log extends itself: a handler starts from the store as it is.
LEMMA ContinuesItself ==
  ASSUME NEW s \in Seq(Entry)
  PROVE  Continues(s, s)
BY DEF Continues

\* What a command does to the log.
LEMMA VerdictLog ==
  ASSUME NEW s \in Snapshot, NEW c \in Envelope, NEW who \in Account,
         NEW verdict
  PROVE  LET t == AfterVerdict(s, c, verdict, who).log IN
         /\ Continues(t, s.log)
         /\ verdict = "applied" =>
              /\ Len(t) = Len(s.log) + 1
              /\ t[Len(t)].by = who /\ t[Len(t)].id = c.id
         /\ verdict # "applied" => t = s.log
<1> DEFINE e == [id |-> c.id, by |-> who, sets |-> c.sets, expect |-> c.expect]
           t == Append(s.log, e)
<1>1. e \in Entry /\ s.log \in Seq(Entry)
  BY DEF Entry, Envelope, Snapshot
<1>2. CASE verdict = "applied"
  <2>1. AfterVerdict(s, c, verdict, who).log = t
    BY <1>2 DEF AfterVerdict, ApplyCommand, Compact
  <2>2. e.by = who /\ e.id = c.id
    OBVIOUS
  <2> HIDE DEF e
  <2>3. Len(t) = Len(s.log) + 1 /\ t[Len(t)] = e /\ Continues(t, s.log)
    BY <1>1 DEF Continues
  <2> HIDE DEF t
  <2> QED BY <1>2, <2>1, <2>2, <2>3
<1>3. CASE verdict # "applied"
  BY <1>1, <1>3, ContinuesItself DEF AfterVerdict
<1> QED BY <1>2, <1>3

\* A swap that finds the revision of the base stores the draft: nobody else's
\* entry is between them.
LEMMA InstallIsDraft ==
  ASSUME NEW s \in Snapshot, NEW base \in Snapshot, NEW draft \in Snapshot,
         ExplainedByLog(s), ExplainedByLog(base), s.rev = base.rev,
         Continues(s.log, base.log), Continues(draft.log, base.log)
  PROVE  s.log = base.log /\ Install(s, base, draft) = draft
<1> DEFINE n == Len(base.log)
           m == Len(draft.log)
           added == SubSeq(draft.log, n + 1, m)
<1>0. /\ s.log \in Seq(Entry) /\ base.log \in Seq(Entry)
      /\ draft.log \in Seq(Entry) /\ n \in Nat /\ m \in Nat /\ n <= m
  BY DEF Snapshot, Continues
<1>1. Len(s.log) = n /\ \A i \in 1..n : base.log[i] = s.log[i]
  BY DEF ExplainedByLog, Continues
<1>2. s.log = base.log
  <2> HIDE DEF n
  <2>1. Len(s.log) = Len(base.log) /\ \A i \in 1..Len(s.log) : s.log[i] = base.log[i]
    BY <1>1 DEF n
  <2> QED BY <1>0, <2>1, SeqEqual
<1>3. /\ added \in Seq(Entry) /\ Len(added) = m - n
      /\ \A i \in 1..(m - n) : added[i] = draft.log[n + i]
  <2>1. \A i \in (n + 1)..m : draft.log[i] \in Entry
    BY <1>0
  <2> HIDE DEF n, m
  <2>2. /\ added \in Seq(Entry)
        /\ Len(added) = IF n + 1 <= m THEN m - (n + 1) + 1 ELSE 0
        /\ \A i \in 1..(m - (n + 1) + 1) : added[i] = draft.log[(n + 1) + i - 1]
    BY <1>0, <2>1, SubSeqProperties
  <2> HIDE DEF added
  <2>3. Len(added) = m - n /\ m - (n + 1) + 1 = m - n
    BY <1>0, <2>2
  <2>4. \A i \in 1..(m - n) : (n + 1) + i - 1 = n + i
    BY <1>0
  <2> QED BY <2>2, <2>3, <2>4
<1> HIDE DEF added
<1>4. base.log \o added = draft.log
  <2> DEFINE whole == base.log \o added
  <2>1. /\ whole \in Seq(Entry) /\ Len(whole) = n + Len(added)
        /\ \A i \in 1..(n + Len(added)) :
             whole[i] = IF i <= n THEN base.log[i] ELSE added[i - n]
    BY <1>0, <1>3, ConcatProperties
  <2>2. \A i \in 1..n : base.log[i] = draft.log[i]
    BY DEF Continues
  <2> HIDE DEF whole, n
  <2>3. Len(whole) = m
    BY <1>0, <1>3, <2>1
  <2>4. ASSUME NEW i \in 1..m
        PROVE  whole[i] = draft.log[i]
    <3> HIDE DEF m
    <3>0. i \in 1..(n + Len(added))
      BY <1>0, <1>3
    <3>1. CASE i <= n
      <4>1. i \in 1..n
        BY <3>1
      <4>2. whole[i] = base.log[i]
        BY <2>1, <3>0, <3>1
      <4> QED BY <2>2, <4>1, <4>2
    <3>2. CASE ~(i <= n)
      <4>1. i - n \in 1..(m - n) /\ n + (i - n) = i
        BY <1>0, <3>2
      <4>2. added[i - n] = draft.log[i]
        BY <1>3, <4>1
      <4>3. whole[i] = added[i - n]
        BY <2>1, <3>0, <3>2
      <4> QED BY <4>2, <4>3
    <3> QED BY <3>1, <3>2
  <2>5. whole = draft.log
    BY <1>0, <2>1, <2>3, <2>4, SeqEqual
  <2> QED BY <2>5 DEF whole
<1>5. Install(s, base, draft) = [draft EXCEPT !.log = draft.log]
  BY <1>2, <1>4 DEF Install, added
<1> QED BY <1>2, <1>5 DEF Snapshot

-----------------------------------------------------------------------------
(* Types. *)

\* What loadAuthorization reads from well-typed rows is an access record.
LEMMA AccessOfType ==
  ASSUME AccessTypeOK, NEW a \in Account
  PROVE  AccessOf(a) \in Access /\ CurrentBasis(a) \in Basis
BY DEF AccessTypeOK, AccessOf, Access, CurrentBasis, Basis

\* Every verdict of authorizationFailure is a result the route can answer.
LEMMA FailureType ==
  ASSUME NEW acc, NEW basis
  PROVE  Failure(acc, basis) \in Results
BY DEF Failure, Results

\* A request slot with somebody in it knows the account.
Slot == {q \in RequestRecord : q.phase # "idle" => q.account \in Account}

TypeInv == TypeOK /\ req \in [Request -> Slot]

\* A slot with no request in it is well typed.
LEMMA IdleType == Idle \in Slot /\ Idle \in RequestRecord
<1>1. << >> \in Seq(Envelope) /\ << >> \in Seq(Receipt)
  OBVIOUS
<1>2. NoAccess \in Access
  BY DEF NoAccess, Access, Roles
<1> QED BY <1>1, <1>2, EmptySnapshotType
        DEF Idle, RequestRecord, Phases, Results, Slot

\* An answer made of well-typed parts leaves its slot well typed.
LEMMA AnswerType ==
  ASSUME NEW q \in Slot, q.phase # "idle", NEW result \in Results,
         NEW receipts \in Seq(Receipt), NEW snapshot \in Snapshot,
         NEW acc \in Access
  PROVE  [Idle EXCEPT !.phase = "replied", !.account = q.account,
            !.batch = q.batch, !.result = result, !.receipts = receipts,
            !.draft = snapshot, !.access = acc] \in Slot
BY IdleType DEF RequestRecord, Phases, Slot

\* What a handler may do with its own slot.
LEMMA SlotType ==
  ASSUME req \in [Request -> Slot], NEW r \in Request, NEW q \in Slot,
         req' = [req EXCEPT ![r] = q]
  PROVE  req' \in [Request -> Slot]
OBVIOUS

\* Answering a request changes one slot and keeps the slots well typed.
LEMMA ReplyType ==
  ASSUME req \in [Request -> Slot], NEW r \in Request, req[r].phase # "idle",
         NEW result \in Results, NEW receipts \in Seq(Receipt),
         NEW snapshot \in Snapshot, NEW acc \in Access,
         Reply(r, result, receipts, snapshot, acc)
  PROVE  req' \in [Request -> Slot]
<1>1. req[r] \in Slot
  OBVIOUS
<1> QED BY <1>1, AnswerType, SlotType DEF Reply

\* Moving a handler on to its next await keeps the slots well typed.
LEMMA GoToType ==
  ASSUME req \in [Request -> Slot], NEW r \in Request, req[r].phase # "idle",
         NEW phase \in Phases, GoTo(r, phase)
  PROVE  req' \in [Request -> Slot]
<1>1. [req[r] EXCEPT !.phase = phase] \in Slot
  BY DEF RequestRecord, Slot
<1> QED BY <1>1, SlotType DEF GoTo

\* The receipts of a refused batch (rejectedReceipts, authorizationReceipts)
\* are receipts.
LEMMA RejectionTypes ==
  ASSUME NEW batch \in Seq(Envelope), NEW rev \in Nat,
         NEW receipts \in Seq(Receipt)
  PROVE  /\ AllRejected(batch, rev) \in Seq(Receipt)
         /\ RejectedExceptDuplicates(batch, rev, receipts) \in Seq(Receipt)
<1>1. DOMAIN batch = 1..Len(batch) /\ Len(batch) \in Nat
  OBVIOUS
<1>2. \A i \in 1..Len(batch) : Reject(batch[i], rev) \in Receipt
  <2>1. \A i \in 1..Len(batch) : batch[i] \in Envelope
    BY <1>1
  <2> QED BY <2>1 DEF Reject, Receipt, Envelope
<1>3. \A i \in DOMAIN receipts : receipts[i] \in Receipt
  OBVIOUS
<1>4. AllRejected(batch, rev) \in Seq(Receipt)
  <2>1. \A i \in 1..Len(batch) : AllRejected(batch, rev)[i] \in Receipt
    BY <1>1, <1>2 DEF AllRejected
  <2>2. AllRejected(batch, rev) = [i \in 1..Len(batch) |-> Reject(batch[i], rev)]
    BY <1>1 DEF AllRejected
  <2> QED BY <1>1, <1>2, <2>2
<1>5. RejectedExceptDuplicates(batch, rev, receipts) \in Seq(Receipt)
  <2> DEFINE kept(i) == KeptReceipts(batch[i].id, receipts)
             answer(i) == IF kept(i) # {} THEN receipts[CHOOSE k \in kept(i) : TRUE]
                          ELSE Reject(batch[i], rev)
  <2>1. \A i \in 1..Len(batch) : answer(i) \in Receipt
    <3>1. \A i \in 1..Len(batch) : kept(i) \subseteq DOMAIN receipts
      BY DEF KeptReceipts
    <3> HIDE DEF kept
    <3> QED BY <1>2, <1>3, <3>1
  <2>2. RejectedExceptDuplicates(batch, rev, receipts) =
          [i \in 1..Len(batch) |-> answer(i)]
    BY <1>1 DEF RejectedExceptDuplicates
  <2> HIDE DEF answer
  <2> QED BY <1>1, <2>1, <2>2
<1> QED BY <1>4, <1>5

\* A statement that writes a snapshot stores a snapshot.
LEMMA InstallType ==
  ASSUME NEW s \in Snapshot, NEW base \in Snapshot, NEW draft \in Snapshot
  PROVE  Install(s, base, draft) \in Snapshot
<1> DEFINE added == SubSeq(draft.log, Len(base.log) + 1, Len(draft.log))
<1>1. s.log \in Seq(Entry) /\ base.log \in Seq(Entry) /\ draft.log \in Seq(Entry)
  BY DEF Snapshot
<1>2. Len(base.log) \in Nat /\ Len(draft.log) \in Nat
  BY <1>1
<1>3. \A i \in (Len(base.log) + 1)..Len(draft.log) : draft.log[i] \in Entry
  BY <1>1, <1>2
<1>4. added \in Seq(Entry)
  BY <1>2, <1>3, SubSeqProperties
<1> HIDE DEF added
<1>5. s.log \o added \in Seq(Entry)
  BY <1>1, <1>4, ConcatProperties
<1>6. Install(s, base, draft) = [draft EXCEPT !.log = s.log \o added]
  BY DEF Install, added
<1> QED BY <1>5, <1>6 DEF Snapshot

\* The command a handler is about to apply.
LEMMA NextCommandType ==
  ASSUME NEW q \in RequestRecord, Len(q.receipts) < Len(q.batch)
  PROVE  q.batch[Len(q.receipts) + 1] \in Envelope
<1>1. q.receipts \in Seq(Receipt) /\ q.batch \in Seq(Envelope)
  BY DEF RequestRecord
<1>2. Len(q.receipts) \in Nat /\ Len(q.batch) \in Nat
  BY <1>1
<1>3. Len(q.receipts) + 1 \in 1..Len(q.batch)
  BY <1>2
<1> QED BY <1>1, <1>3

\* The basis commonAuthorizationBasis finds for a batch is a basis.
LEMMA BasisOfType ==
  ASSUME AccessTypeOK, NEW a \in Account, NEW batch \in Seq(Envelope)
  PROVE  BasisOf(batch, a) \in Basis \cup {NoBasis}
<1>1. CASE batch = << >>
  BY <1>1, AccessOfType DEF BasisOf
<1>2. CASE batch # << >>
  <2>1. batch[1] \in Envelope
    BY <1>2
  <2> QED BY <2>1, AccessOfType DEF BasisOf, Envelope
<1> QED BY <1>1, <1>2

\* What a restore puts in the place of a snapshot is a snapshot.
LEMMA RestoreType ==
  ASSUME TypeOK, NEW base \in Snapshot, NEW a \in Account
  PROVE  RestoreOf(base, a) \in Snapshot
<1>1. backup.val \in [Field -> Value] /\ backup.ledger \in Seq(Edit)
  BY DEF TypeOK
<1>2. backup.val \in Partial /\ [f \in {} |-> Blank] \in Partial
  BY <1>1, FullAssignment, EmptyAssignment
<1> DEFINE none == [f \in {} |-> Blank]
           e == [id |-> Restored, by |-> a, sets |-> backup.val, expect |-> none]
<1>3. e \in Entry
  <2> HIDE DEF none
  <2>1. none \in Partial
    BY <1>2 DEF none
  <2> QED BY <1>2, <2>1 DEF Entry
<1> HIDE DEF e
<1>4. Append(base.log, e) \in Seq(Entry)
  BY <1>3 DEF Snapshot
<1>5. base.rev + 1 \in Nat
  BY DEF Snapshot
<1>6. RestoreOf(base, a) = [rev |-> base.rev + 1, val |-> backup.val,
                            ledger |-> backup.ledger, log |-> Append(base.log, e)]
  BY DEF RestoreOf, e
<1> QED BY <1>1, <1>4, <1>5, <1>6 DEF Snapshot

\* A backed-up workspace nobody has called yet is well typed.
LEMMA InitType == Init => TypeInv
<1> SUFFICES ASSUME Init PROVE TypeInv
  OBVIOUS
<1>1. AccessTypeOK
  BY AccessAssumption DEF Init, AccessInit, AccessTypeOK
<1>2. store \in Snapshot /\ backup \in [val : [Field -> Value], ledger : Seq(Edit)]
  BY EmptySnapshotType DEF Init, Snapshot
<1>3. req \in [Request -> RequestRecord] /\ req \in [Request -> Slot]
  BY IdleType DEF Init
<1> QED BY <1>1, <1>2, <1>3 DEF TypeOK, TypeInv

\* Membership, status, guest-link and deletion routes keep the rows well typed.
LEMMA ChangeAccessType ==
  ASSUME AccessTypeOK, ChangeAccess
  PROVE  AccessTypeOK'
<1>1. ASSUME NEW a \in Account, NEW to \in Roles, SetRole(a, to)
      PROVE  AccessTypeOK'
  BY <1>1 DEF SetRole, AccessTypeOK
<1>2. ASSUME NEW a \in Account, SetActive(a)
      PROVE  AccessTypeOK'
  BY <1>2 DEF SetActive, AccessTypeOK
<1>3. ASSUME NEW a \in Account, ChangeOtherMembership(a)
      PROVE  AccessTypeOK'
  BY <1>3 DEF ChangeOtherMembership, AccessTypeOK
<1>4. ASSUME NEW a \in Account, DeleteWorkspace(a)
      PROVE  AccessTypeOK'
  BY <1>4 DEF DeleteWorkspace, AccessTypeOK, Roles
<1>5. CASE ChangeGuestLink
  BY <1>5 DEF ChangeGuestLink, AccessTypeOK
<1> QED BY <1>1, <1>2, <1>3, <1>4, <1>5 DEF ChangeAccess

\* A step that only touches its own slot.
LEMMA OwnSlotType ==
  ASSUME TypeInv, UnchangedStore, req' \in [Request -> Slot]
  PROVE  TypeInv'
BY DEF TypeInv, TypeOK, UnchangedStore, AccessTypeOK, access, Slot

\* Accepting a request (POST /api/sync, PUT /api/snapshot) keeps the types.
LEMMA ArriveType ==
  ASSUME TypeInv, NEW r \in Request, NEW a \in Account, Arrive(r, a)
  PROVE  TypeInv'
<1>0. AccessTypeOK /\ store \in Snapshot /\ req \in [Request -> Slot]
  BY DEF TypeInv, TypeOK
<1>1. ASSUME NEW batch \in Batch, Receive(r, a, batch)
      PROVE  TypeInv'
  <2>1. batch \in Seq(Envelope)
    BY ServerAssumption
  <2>2. [Idle EXCEPT !.phase = "received", !.account = a, !.batch = batch] \in Slot
    BY <2>1, IdleType DEF RequestRecord, Phases, Slot
  <2> QED BY <1>0, <1>1, <2>2, SlotType, OwnSlotType DEF Receive
<1>2. CASE ReceiveRestore(r, a)
  <2> DEFINE q == [Idle EXCEPT !.phase = "restore", !.account = a,
                     !.basis = CurrentBasis(a), !.base = store,
                     !.draft = RestoreOf(store, a)]
  <2>1. RestoreOf(store, a) \in Snapshot /\ CurrentBasis(a) \in Basis
    BY <1>0, RestoreType, AccessOfType DEF TypeInv
  <2>2. q \in Slot
    BY <1>0, <2>1, IdleType DEF RequestRecord, Phases, Slot
  <2> QED BY <1>0, <1>2, <2>2, SlotType, OwnSlotType DEF ReceiveRestore
<1> QED BY <1>1, <1>2 DEF Arrive

\* Every step of a running handler keeps the types.
LEMMA HandleType ==
  ASSUME TypeInv, NEW r \in Request, Handle(r)
  PROVE  TypeInv'
<1> DEFINE q == req[r]
           acc == AccessOf(q.account)
           none == << >>
<1>0. /\ AccessTypeOK /\ store \in Snapshot /\ store.rev \in Nat
      /\ req \in [Request -> Slot] /\ q \in RequestRecord /\ q \in Slot
      /\ none \in Seq(Receipt) /\ EmptySnapshot \in Snapshot
      /\ NoAccess \in Access
  BY EmptySnapshotType DEF TypeInv, TypeOK, Snapshot, NoAccess, Access, Roles, Slot
<1>1. /\ q.batch \in Seq(Envelope) /\ q.receipts \in Seq(Receipt)
      /\ q.base \in Snapshot /\ q.draft \in Snapshot /\ q.base.rev \in Nat
      /\ q.attempt \in Nat
  BY <1>0 DEF RequestRecord, Snapshot
<1>2. q.phase # "idle"
  BY DEF Handle, Authenticate, Admit, Load, RefusalRead, ApplyNext, FinishBatch,
         Swap, Recheck, Answer, Vanished, LoadRestore, SwapRestore
<1>3. q.account \in Account /\ acc \in Access
  BY <1>0, <1>2, AccessOfType DEF Slot
<1>4. /\ AllRejected(q.batch, store.rev) \in Seq(Receipt)
      /\ AllRejected(q.batch, 0) \in Seq(Receipt)
      /\ RejectedExceptDuplicates(q.batch, q.base.rev, q.receipts) \in Seq(Receipt)
  BY <1>0, <1>1, RejectionTypes
<1> HIDE DEF none
<1>5. CASE Authenticate(r)
  BY <1>0, <1>2, <1>5, GoToType, ReplyType, OwnSlotType
     DEF Authenticate, Phases, Results, none
<1>6. CASE Admit(r)
  <2>1. BasisOf(q.batch, q.account) \in Basis \cup {NoBasis}
    BY <1>0, <1>1, <1>3, BasisOfType
  <2>2. [q EXCEPT !.phase = "load", !.basis = BasisOf(q.batch, q.account)] \in Slot
    BY <1>0, <1>3, <2>1 DEF RequestRecord, Phases, Slot
  <2> QED BY <1>0, <1>2, <1>3, <1>4, <1>6, <2>2, SlotType, ReplyType, OwnSlotType
          DEF Admit, Results, none
<1>7. CASE Load(r)
  <2>1. [q EXCEPT !.phase = "apply", !.base = store, !.draft = store,
                  !.receipts = none] \in Slot
    BY <1>0, <1>3 DEF RequestRecord, Phases, Slot
  <2>2. Failure(acc, q.basis) \in Results
    BY FailureType
  <2> SUFFICES req' \in [Request -> Slot]
    BY <1>7, OwnSlotType DEF Load
  <2>3. CASE GoTo(r, "refusal")
    BY <1>0, <1>2, <2>3, GoToType DEF Phases
  <2>4. CASE Reply(r, Failure(acc, q.basis), AllRejected(q.batch, store.rev),
                   EmptySnapshot, acc)
    BY <1>0, <1>2, <1>3, <1>4, <2>2, <2>4, ReplyType
  <2>5. CASE req' = [req EXCEPT ![r] =
               [q EXCEPT !.phase = "apply", !.base = store, !.draft = store,
                         !.receipts = none]]
    BY <1>0, <2>1, <2>5, SlotType
  <2> QED BY <1>7, <2>3, <2>4, <2>5 DEF Load, none
<1>8. CASE RefusalRead(r)
  <2>1. (IF Failure(acc, q.basis) = "ok" THEN "revoked"
         ELSE Failure(acc, q.basis)) \in Results
    BY FailureType DEF Results
  <2> QED BY <1>0, <1>2, <1>3, <1>4, <1>8, <2>1, ReplyType, OwnSlotType
          DEF RefusalRead
<1>9. CASE ApplyNext(r)
  <2> DEFINE done == Len(q.receipts)
             c == q.batch[done + 1]
             verdict == Verdict(q.draft, c, q.base.rev, done, q.account)
             after == AfterVerdict(q.draft, c, verdict, q.account)
  <2>1. c \in Envelope
    BY <1>0, <1>9, NextCommandType DEF ApplyNext
  <2>2. after \in Snapshot /\ ReceiptOf(c, verdict, after) \in Receipt
    <3> HIDE DEF c, done
    <3> QED BY <1>1, <1>3, <2>1, VerdictType
  <2> HIDE DEF verdict, after, c
  <2>3. Append(q.receipts, ReceiptOf(c, verdict, after)) \in Seq(Receipt)
    BY <1>1, <2>2
  <2>4. [q EXCEPT !.draft = after,
                  !.receipts = Append(@, ReceiptOf(c, verdict, after))] \in Slot
    BY <1>0, <2>2, <2>3 DEF RequestRecord, Slot
  <2>5. req' = [req EXCEPT ![r] =
          [q EXCEPT !.draft = after,
                    !.receipts = Append(@, ReceiptOf(c, verdict, after))]]
    BY <1>9 DEF ApplyNext, verdict, after, c
  <2> QED BY <1>0, <1>9, <2>4, <2>5, SlotType, OwnSlotType DEF ApplyNext
<1>10. CASE FinishBatch(r)
  BY <1>0, <1>2, <1>10, GoToType, OwnSlotType DEF FinishBatch, Phases
<1>11. CASE Swap(r)
  <2>1. req' \in [Request -> Slot]
    BY <1>0, <1>2, <1>11, GoToType DEF Swap, Phases
  <2>2. store' \in Snapshot
    BY <1>0, <1>1, <1>11, InstallType DEF Swap
  <2> QED BY <1>11, <2>1, <2>2
          DEF Swap, TypeInv, TypeOK, AccessTypeOK, access, Slot
<1>12. CASE Recheck(r)
  <2>1. Failure(acc, q.basis) \in Results
    BY FailureType
  <2>2. [q EXCEPT !.phase = "load", !.attempt = q.attempt + 1] \in Slot
    <3>1. q.attempt + 1 \in Nat
      BY <1>1
    <3> QED BY <1>0, <1>3, <3>1 DEF RequestRecord, Phases, Slot
  <2> QED BY <1>0, <1>2, <1>3, <1>4, <1>12, <2>1, <2>2, SlotType, ReplyType,
             OwnSlotType
          DEF Recheck, Results, none
<1>13. CASE Answer(r)
  BY <1>0, <1>1, <1>2, <1>3, <1>13, GoToType, ReplyType, OwnSlotType
     DEF Answer, Phases, Results
<1>14. CASE Vanished(r)
  BY <1>0, <1>1, <1>2, <1>3, <1>14, ReplyType, OwnSlotType DEF Vanished, Results
<1>15. CASE LoadRestore(r)
  BY <1>0, <1>2, <1>3, <1>15, GoToType, ReplyType, OwnSlotType
     DEF LoadRestore, Phases, Results, none
<1>16. CASE SwapRestore(r)
  <2>1. req' \in [Request -> Slot]
    BY <1>0, <1>2, <1>3, <1>16, ReplyType DEF SwapRestore, Results, none
  <2>2. store' \in Snapshot
    BY <1>0, <1>1, <1>16, InstallType DEF SwapRestore
  <2> QED BY <1>16, <2>1, <2>2
          DEF SwapRestore, TypeInv, TypeOK, AccessTypeOK, access, Slot
<1> QED BY <1>5, <1>6, <1>7, <1>8, <1>9, <1>10, <1>11, <1>12, <1>13, <1>14,
           <1>15, <1>16 DEF Handle

\* The type invariant is inductive: every step of the server keeps it.
LEMMA NextType == TypeInv /\ [Next]_vars => TypeInv'
<1> SUFFICES ASSUME TypeInv, [Next]_vars PROVE TypeInv'
  OBVIOUS
<1>1. ASSUME NEW r \in Request, SwapPaused(r)
      PROVE  TypeInv'
  <2>1. << >> \in Seq(Receipt) /\ NoAccess \in Access
    BY DEF NoAccess, Access, Roles
  <2> QED BY <1>1, <2>1, EmptySnapshotType, ReplyType, OwnSlotType
          DEF SwapPaused, Results, TypeInv
<1>2. ASSUME NEW r \in Request, Close(r)
      PROVE  TypeInv'
  BY <1>2, IdleType, SlotType, OwnSlotType DEF Close, TypeInv
<1>3. CASE Export
  BY <1>3 DEF Export, TypeInv, TypeOK, AccessTypeOK, access, Snapshot, Slot
<1>4. CASE ChangeAccess /\ UNCHANGED <<store, backup, req>>
  BY <1>4, ChangeAccessType DEF TypeInv, TypeOK, Slot
<1>5. CASE UNCHANGED vars
  BY <1>5 DEF vars, TypeInv, TypeOK, AccessTypeOK, access, Slot
<1> QED BY <1>1, <1>2, <1>3, <1>4, <1>5, ArriveType, HandleType DEF Next

\* Every reachable state is well typed, and every request being handled belongs
\* to an account (src/server/sync-service.ts, synchronize).
THEOREM TypeCorrect == Spec => []TypeOK
<1>1. TypeInv => TypeOK
  BY DEF TypeInv
<1> QED BY <1>1, InitType, NextType, PTL DEF Spec
-----------------------------------------------------------------------------
(* Nothing is lost, overwritten blindly or applied twice. *)

\* A restore replaces every field and starts a new replay window.
LEMMA RestoreConsistent ==
  ASSUME TypeOK, NEW base \in Snapshot, NEW a \in Account, Consistent(base)
  PROVE  LET t == RestoreOf(base, a).log IN
         /\ Consistent(RestoreOf(base, a))
         /\ Continues(t, base.log) /\ Len(t) = Len(base.log) + 1
         /\ t[Len(t)].id = Restored /\ t[Len(t)].by = a
         /\ DOMAIN t[Len(t)].sets = Field
<1> DEFINE none == [f \in {} |-> Blank]
           e == [id |-> Restored, by |-> a, sets |-> backup.val, expect |-> none]
           n == Len(base.log)
           t == Append(base.log, e)
           u == RestoreOf(base, a)
<1>1. backup.val \in [Field -> Value] /\ base.log \in Seq(Entry) /\ n \in Nat
  BY DEF TypeOK, Snapshot
<1>2. /\ u.rev = base.rev + 1 /\ u.val = backup.val /\ u.log = t
      /\ u.ledger = backup.ledger
  BY DEF RestoreOf
<1>3. /\ e.id = Restored /\ e.by = a /\ e.sets = backup.val
      /\ DOMAIN e.sets = Field /\ DOMAIN e.expect = {}
  BY <1>1
<1> HIDE DEF e, u
<1>4. /\ Len(t) = n + 1 /\ DOMAIN t = 1..(n + 1) /\ t[n + 1] = e
      /\ SameUpTo(t, base.log, n)
  BY <1>1 DEF SameUpTo
<1> HIDE DEF t, n
<1>5. ExplainedByLog(u)
  <2>1. u.rev = Len(u.log)
    BY <1>2, <1>4 DEF Consistent, ExplainedByLog, n
  <2>2. ASSUME NEW x \in Field
        PROVE  ValueAfter(t, n + 1, x, u.val[x])
    BY <1>1, <1>2, <1>3, <1>4, ValueAfterAppend
  <2> QED BY <1>2, <1>4, <2>1, <2>2 DEF ExplainedByLog
<1>6. ExpectationsHeld(u)
  <2>1. ASSUME NEW k \in 1..(n + 1), NEW x \in DOMAIN t[k].expect
        PROVE  ValueAfter(t, k - 1, x, t[k].expect[x])
    <3>1. k \in 1..n
      BY <1>1, <1>3, <1>4, <2>1
    <3>2. t[k] = base.log[k] /\ k \in DOMAIN base.log /\ k - 1 \in Nat
          /\ SameUpTo(t, base.log, k - 1)
      BY <1>1, <1>4, <3>1 DEF SameUpTo, n
    <3>3. ValueAfter(base.log, k - 1, x, base.log[k].expect[x])
      BY <2>1, <3>2 DEF Consistent, ExpectationsHeld
    <3> QED BY <3>2, <3>3, ValueAfterPrefix
  <2> QED BY <1>2, <1>4, <2>1 DEF ExpectationsHeld
<1>7. OnceWithinWindow(u)
  <2>1. ASSUME NEW i \in 1..(n + 1), NEW j \in 1..(n + 1), i < j,
               t[i].id = t[j].id, t[i].id # Restored
        PROVE  j - i > LedgerLimit \/ RestoredWithin(t, i, j)
    <3>1. i \in 1..n /\ j \in 1..n
      BY <1>1, <1>3, <1>4, <2>1, SMTT(30)
    <3>2. t[i] = base.log[i] /\ t[j] = base.log[j] /\ SameUpTo(t, base.log, j)
      BY <1>1, <1>4, <3>1 DEF SameUpTo
    <3>3. i \in DOMAIN base.log /\ j \in DOMAIN base.log
      BY <1>1, <3>1 DEF n
    <3>4. j - i > LedgerLimit \/ RestoredWithin(base.log, i, j)
      BY <2>1, <3>2, <3>3 DEF Consistent, OnceWithinWindow
    <3> QED BY <1>1, <3>1, <3>2, <3>4, RestoredWithinWider
  <2> QED BY <1>2, <1>4, <2>1 DEF OnceWithinWindow
<1>8. LedgerCoversWindow(u)
  <2>1. \A i \in 1..(n + 1) : RestoredWithin(t, i, n + 1)
    BY <1>1, <1>3, <1>4 DEF RestoredWithin
  <2> QED BY <1>2, <1>4, <2>1 DEF LedgerCoversWindow
<1>9. Continues(t, base.log)
  BY <1>1, <1>4 DEF Continues, SameUpTo, n
<1> QED BY <1>2, <1>3, <1>4, <1>5, <1>6, <1>7, <1>8, <1>9 DEF Consistent, u, n

\* The empty snapshot is explained by the empty log.
LEMMA EmptyConsistent == Consistent(EmptySnapshot)
BY CommandAssumption
   DEF Consistent, EmptySnapshot, ExplainedByLog, ValueAfter, ExpectationsHeld,
       OnceWithinWindow, LedgerCoversWindow

\* The inductive invariant of the server.
SafetyInv ==
  /\ TypeInv
  /\ Consistent(store)
  /\ deleted => \A a \in Account : role[a] = "none"
  /\ DraftsFollowStore

\* The safety invariant holds before the first request.
LEMMA InitSafe == Init => SafetyInv
<1> SUFFICES ASSUME Init PROVE SafetyInv
  OBVIOUS
<1>1. ASSUME NEW r \in Request
      PROVE  ~Drafting(req[r]) /\ ~Restoring(req[r])
  BY DEF Init, Idle, Drafting, Restoring
<1>2. DraftsFollowStore
  BY <1>1 DEF DraftsFollowStore, Drafted, OwnEdits, OwnRestore
<1> QED BY <1>2, InitType, EmptyConsistent DEF SafetyInv, Init, AccessInit

\* DraftsFollowStore for one slot.
SlotSafe(q, s) ==
  /\ Drafted(q) /\ OwnEdits(q) /\ OwnRestore(q)
  /\ Drafting(q) \/ Restoring(q) => Continues(s.log, q.base.log)

\* A slot without a draft constrains neither the store nor itself.
LEMMA QuietSlot ==
  ASSUME NEW q, NEW s, q.phase \notin {"apply", "swap", "restore", "restoreSwap"}
  PROVE  SlotSafe(q, s)
BY DEF SlotSafe, Drafted, OwnEdits, OwnRestore, Drafting, Restoring

\* The other slots survive any step that only extends the stored log.
LEMMA OneSlotMoves ==
  ASSUME TypeInv, DraftsFollowStore, NEW r \in Request, NEW q,
         req' = [req EXCEPT ![r] = q], store' \in Snapshot,
         Continues(store'.log, store.log), SlotSafe(q, store')
  PROVE  DraftsFollowStore'
<1>1. ASSUME NEW o \in Request
      PROVE  SlotSafe(req'[o], store')
  <2>1. CASE o = r
    BY <2>1 DEF TypeInv, TypeOK
  <2>2. CASE o # r
    <3>1. req'[o] = req[o]
      BY <2>2 DEF TypeInv, TypeOK
    <3>2. Drafted(req[o]) /\ OwnEdits(req[o]) /\ OwnRestore(req[o])
      BY DEF DraftsFollowStore
    <3>3. ASSUME Drafting(req[o]) \/ Restoring(req[o])
          PROVE  Continues(store'.log, req[o].base.log)
      <4>1. Continues(store.log, req[o].base.log)
        BY <3>3 DEF DraftsFollowStore
      <4>2. /\ store.log \in Seq(Entry) /\ store'.log \in Seq(Entry)
            /\ req[o].base.log \in Seq(Entry)
        BY DEF TypeInv, TypeOK, RequestRecord, Snapshot
      <4> QED BY <4>1, <4>2, ContinuesTransitive
    <3> QED BY <3>1, <3>2, <3>3 DEF SlotSafe
  <2> QED BY <2>1, <2>2
<1> QED BY <1>1 DEF SlotSafe, DraftsFollowStore

\* A step that leaves the store and the access rows alone and gives one slot a
\* safe content keeps the safety invariant.
LEMMA OwnSlotSafe ==
  ASSUME SafetyInv, TypeInv', UnchangedStore, NEW r \in Request, NEW q,
         req' = [req EXCEPT ![r] = q], SlotSafe(q, store)
  PROVE  SafetyInv'
<1>1. store' = store /\ store \in Snapshot /\ store.log \in Seq(Entry)
  BY DEF UnchangedStore, SafetyInv, TypeInv, TypeOK, Snapshot
<1>2. DraftsFollowStore'
  <2>1. Continues(store'.log, store.log)
    BY <1>1, ContinuesItself
  <2> QED BY <1>1, <2>1, OneSlotMoves DEF SafetyInv
<1> QED BY <1>1, <1>2 DEF SafetyInv, UnchangedStore, access

\* Answering discards the draft, so it keeps the safety invariant.
LEMMA ReplySafe ==
  ASSUME SafetyInv, TypeInv', UnchangedStore, NEW r \in Request, NEW result,
         NEW receipts, NEW snapshot, NEW acc,
         Reply(r, result, receipts, snapshot, acc)
  PROVE  SafetyInv'
<1> DEFINE q == [Idle EXCEPT !.phase = "replied", !.account = req[r].account,
                   !.batch = req[r].batch, !.result = result,
                   !.receipts = receipts, !.draft = snapshot, !.access = acc]
<1>1. q.phase = "replied" /\ req' = [req EXCEPT ![r] = q]
  BY DEF Reply, Idle
<1> HIDE DEF q
<1> QED BY <1>1, QuietSlot, OwnSlotSafe

\* A handler whose next phase works on no draft is safe there.
LEMMA GoToSafe ==
  ASSUME SafetyInv, TypeInv', UnchangedStore, NEW r \in Request, NEW phase,
         phase \notin {"apply", "swap", "restore", "restoreSwap"}, GoTo(r, phase)
  PROVE  SafetyInv'
<1> DEFINE q == [req[r] EXCEPT !.phase = phase]
<1>1. q.phase = phase /\ req' = [req EXCEPT ![r] = q]
  BY DEF GoTo, SafetyInv, TypeInv, TypeOK, RequestRecord
<1> HIDE DEF q
<1> QED BY <1>1, QuietSlot, OwnSlotSafe

\* What the safety invariant says of one slot, and the types that go with it.
LEMMA SlotFacts ==
  ASSUME SafetyInv, NEW r \in Request
  PROVE  /\ SlotSafe(req[r], store) /\ req[r] \in RequestRecord
         /\ store \in Snapshot
         /\ req[r].base \in Snapshot /\ req[r].draft \in Snapshot
BY DEF SafetyInv, DraftsFollowStore, SlotSafe, TypeInv, TypeOK, RequestRecord

\* What a winning swap stores is the draft, on top of what was stored.
LEMMA WinningSwap ==
  ASSUME SafetyInv, NEW r \in Request,
         req[r].phase \in {"swap", "restoreSwap"}, store.rev = req[r].base.rev
  PROVE  LET draft == req[r].draft IN
         /\ Install(store, req[r].base, draft) = draft
         /\ store.log = req[r].base.log
         /\ Consistent(draft) /\ Continues(draft.log, store.log)
<1> DEFINE q == req[r]
<1>1. SlotSafe(q, store) /\ store \in Snapshot
      /\ q.base \in Snapshot /\ q.draft \in Snapshot
  BY SlotFacts
<1>2. /\ Consistent(q.base) /\ Consistent(q.draft)
      /\ Continues(q.draft.log, q.base.log) /\ Continues(store.log, q.base.log)
  BY <1>1 DEF SlotSafe, Drafted, Drafting, Restoring
<1>3. store.rev = q.base.rev /\ ExplainedByLog(store) /\ ExplainedByLog(q.base)
  BY <1>2 DEF SafetyInv, Consistent
<1> HIDE DEF q
<1>4. store.log = q.base.log /\ Install(store, q.base, q.draft) = q.draft
  BY <1>1, <1>2, <1>3, InstallIsDraft
<1> QED BY <1>2, <1>4 DEF q

\* A request that arrives brings no draft, and a restore brings one made from
\* the present snapshot.
LEMMA ArriveSafe ==
  ASSUME SafetyInv, TypeInv', NEW r \in Request, NEW a \in Account, Arrive(r, a)
  PROVE  SafetyInv'
<1>1. ASSUME NEW batch \in Batch, Receive(r, a, batch)
      PROVE  SafetyInv'
  <2> DEFINE q == [Idle EXCEPT !.phase = "received", !.account = a, !.batch = batch]
  <2>1. q.phase = "received" /\ req' = [req EXCEPT ![r] = q] /\ UnchangedStore
    BY <1>1 DEF Receive, Idle
  <2> HIDE DEF q
  <2> QED BY <2>1, QuietSlot, OwnSlotSafe
<1>2. CASE ReceiveRestore(r, a)
  <2> DEFINE q == [Idle EXCEPT !.phase = "restore", !.account = a,
                     !.basis = CurrentBasis(a), !.base = store,
                     !.draft = RestoreOf(store, a)]
  <2>1. /\ q.phase = "restore" /\ q.account = a /\ q.base = store
        /\ q.draft = RestoreOf(store, a)
    BY DEF Idle
  <2>2. req' = [req EXCEPT ![r] = q] /\ UnchangedStore
    BY <1>2 DEF ReceiveRestore
  <2> HIDE DEF q
  <2>3. store \in Snapshot /\ store.log \in Seq(Entry) /\ TypeOK /\ Consistent(store)
    BY DEF SafetyInv, TypeInv, TypeOK, Snapshot
  <2>4. LET t == q.draft.log IN
        /\ Consistent(q.draft)
        /\ Continues(t, store.log) /\ Len(t) = Len(store.log) + 1
        /\ t[Len(t)].id = Restored /\ t[Len(t)].by = a
        /\ DOMAIN t[Len(t)].sets = Field
    BY <2>1, <2>3, RestoreConsistent
  <2>5. SlotSafe(q, store)
    BY <2>1, <2>3, <2>4, ContinuesItself
       DEF SlotSafe, Drafted, OwnEdits, OwnRestore, Drafting, Restoring
  <2> QED BY <2>2, <2>5, OwnSlotSafe
<1> QED BY <1>1, <1>2 DEF Arrive

\* One more command on a draft.
LEMMA ApplyNextSafe ==
  ASSUME SafetyInv, TypeInv', NEW r \in Request, ApplyNext(r)
  PROVE  SafetyInv'
<1> DEFINE q == req[r]
           done == Len(q.receipts)
           c == q.batch[done + 1]
           verdict == Verdict(q.draft, c, q.base.rev, done, q.account)
           after == AfterVerdict(q.draft, c, verdict, q.account)
           new == ReceiptOf(c, verdict, after)
           p == [q EXCEPT !.draft = after, !.receipts = Append(@, new)]
           n == Len(q.base.log)
           m == Len(q.draft.log)
<1>1. /\ q.phase = "apply" /\ done < Len(q.batch) /\ UnchangedStore
      /\ req' = [req EXCEPT ![r] = p]
  BY DEF ApplyNext, SafetyInv, TypeInv, TypeOK
<1>2. /\ q \in RequestRecord /\ SlotSafe(q, store) /\ store \in Snapshot
      /\ q.draft \in Snapshot /\ q.base \in Snapshot
      /\ q.receipts \in Seq(Receipt)
  BY SlotFacts DEF RequestRecord
<1>3. c \in Envelope /\ q.account \in Account
  <2>1. q.account \in Account
    BY <1>1 DEF SafetyInv, TypeInv, Slot
  <2> QED BY <1>1, <1>2, <2>1, NextCommandType
<1>4. /\ p.phase = "apply" /\ p.base = q.base /\ p.draft = after
      /\ p.account = q.account /\ p.receipts = Append(q.receipts, new)
  BY <1>1, <1>2 DEF RequestRecord
<1>5. new.status = verdict
  BY DEF ReceiptOf
<1> HIDE DEF c, done
<1>6. Consistent(q.draft) /\ after \in Snapshot /\ Consistent(after)
  <2>1. Consistent(q.draft)
    BY <1>1, <1>2 DEF SlotSafe, Drafted, Drafting
  <2>2. Consistent(after)
    BY <1>2, <1>3, <2>1, VerdictConsistent
  <2>3. after \in Snapshot
    BY <1>2, <1>3, VerdictType
  <2> QED BY <2>1, <2>2, <2>3
<1>7. LET t == after.log IN
      /\ Continues(t, q.draft.log)
      /\ verdict = "applied" =>
           /\ Len(t) = m + 1
           /\ t[Len(t)].by = q.account /\ t[Len(t)].id = c.id
      /\ verdict # "applied" => t = q.draft.log
  <2> HIDE DEF verdict
  <2> QED BY <1>2, <1>3, VerdictLog
<1> HIDE DEF verdict, after, new, p, q
<1>8. /\ after.log \in Seq(Entry) /\ q.draft.log \in Seq(Entry)
      /\ q.base.log \in Seq(Entry) /\ n \in Nat /\ m \in Nat
      /\ c.id # Restored
  <2>1. \A s \in Snapshot : s.log \in Seq(Entry) /\ Len(s.log) \in Nat
    BY DEF Snapshot
  <2>2. \A e \in Envelope : e.id # Restored
    BY CommandAssumption DEF Envelope
  <2> QED BY <1>2, <1>3, <1>6, <2>1, <2>2
<1>9. /\ Continues(q.draft.log, q.base.log) /\ Continues(store.log, q.base.log)
      /\ \A k \in (n + 1)..m : q.draft.log[k].by = q.account
                               /\ q.draft.log[k].id # Restored
      /\ (\E i \in DOMAIN q.receipts : q.receipts[i].status = "applied") => m > n
      /\ Consistent(q.base) /\ n <= m
  BY <1>1, <1>2 DEF SlotSafe, Drafted, OwnEdits, Drafting, Continues
<1>10. Continues(after.log, q.base.log)
  BY <1>7, <1>8, <1>9, ContinuesTransitive
<1>11. /\ \A k \in (n + 1)..Len(after.log) :
            after.log[k].by = q.account /\ after.log[k].id # Restored
       /\ (\E i \in DOMAIN p.receipts : p.receipts[i].status = "applied")
            => Len(after.log) > n
  <2>1. CASE verdict = "applied"
    <3> HIDE DEF n, m
    <3>1. Len(after.log) = m + 1 /\ m + 1 > n
      BY <1>7, <1>8, <1>9, <2>1
    <3>2. ASSUME NEW k \in (n + 1)..(m + 1)
          PROVE  after.log[k].by = q.account /\ after.log[k].id # Restored
      <4>1. CASE k = m + 1
        BY <1>7, <1>8, <2>1, <3>1, <4>1
      <4>2. CASE k \in (n + 1)..m
        <5>1. k \in 1..m
          BY <1>8, <4>2
        <5>2. after.log[k] = q.draft.log[k]
          BY <1>7, <5>1 DEF Continues, m
        <5> QED BY <1>9, <4>2, <5>2
      <4> QED BY <1>8, <4>1, <4>2
    <3> QED BY <3>1, <3>2
  <2>2. CASE verdict # "applied"
    <3>1. after.log = q.draft.log /\ Len(after.log) = m
      BY <1>7, <2>2
    <3>2. ASSUME NEW i \in DOMAIN p.receipts, p.receipts[i].status = "applied"
          PROVE  \E k \in DOMAIN q.receipts : q.receipts[k].status = "applied"
      <4>1. p.receipts[i] = IF i <= Len(q.receipts) THEN q.receipts[i] ELSE new
        BY <1>2, <1>4, <3>2
      <4>2. i \in DOMAIN q.receipts
        BY <1>2, <1>4, <1>5, <2>2, <3>2, <4>1
      <4> QED BY <1>2, <3>2, <4>1, <4>2
    <3> QED BY <1>9, <3>1, <3>2
  <2> QED BY <2>1, <2>2
<1>12. SlotSafe(p, store)
  BY <1>4, <1>6, <1>9, <1>10, <1>11
     DEF SlotSafe, Drafted, OwnEdits, OwnRestore, Drafting, Restoring
<1> QED BY <1>1, <1>12, OwnSlotSafe

\* The statement that wins its swap.
LEMMA WinSafe ==
  ASSUME NEW r \in Request, NEW q, SafetyInv, TypeInv',
         req[r].phase \in {"swap", "restoreSwap"}, store.rev = req[r].base.rev,
         q.phase \notin {"apply", "swap", "restore", "restoreSwap"},
         req' = [req EXCEPT ![r] = q], UNCHANGED <<role, deleted>>,
         store' = Install(store, req[r].base, req[r].draft)
  PROVE  SafetyInv'
<1>1. store' \in Snapshot /\ SlotSafe(q, store')
  BY QuietSlot DEF TypeInv, TypeOK
<1>2. Consistent(store') /\ Continues(store'.log, store.log)
  BY WinningSwap
<1>3. DraftsFollowStore'
  BY <1>1, <1>2, OneSlotMoves DEF SafetyInv
<1> QED BY <1>2, <1>3 DEF SafetyInv

\* Every step of a running handler keeps the safety invariant; the two swaps
\* are the only ones that move the store.
LEMMA HandleSafe ==
  ASSUME SafetyInv, TypeInv', NEW r \in Request, Handle(r)
  PROVE  SafetyInv'
<1> DEFINE q == req[r]
<1>0. SlotSafe(q, store) /\ q \in RequestRecord /\ store \in Snapshot
      /\ req \in [Request -> RequestRecord]
  BY SlotFacts DEF SafetyInv, TypeInv, TypeOK
<1>1. CASE Authenticate(r)
  BY <1>1, GoToSafe, ReplySafe DEF Authenticate
<1>2. CASE Admit(r)
  <2> DEFINE p == [q EXCEPT !.phase = "load", !.basis = BasisOf(q.batch, q.account)]
  <2> SUFFICES ASSUME req' = [req EXCEPT ![r] = p]
               PROVE  SafetyInv'
    BY <1>2, ReplySafe DEF Admit
  <2>1. p.phase = "load" /\ UnchangedStore
    BY <1>0, <1>2 DEF RequestRecord, Admit
  <2> HIDE DEF p
  <2> QED BY <2>1, QuietSlot, OwnSlotSafe
<1>3. CASE Load(r)
  <2> DEFINE p == [q EXCEPT !.phase = "apply", !.base = store, !.draft = store,
                            !.receipts = << >>]
  <2> SUFFICES ASSUME req' = [req EXCEPT ![r] = p]
               PROVE  SafetyInv'
    BY <1>3, GoToSafe, ReplySafe DEF Load
  <2>1. /\ p.phase = "apply" /\ p.base = store /\ p.draft = store
        /\ p.receipts = << >>
    BY <1>0 DEF RequestRecord
  <2> HIDE DEF p
  <2>2. Consistent(store) /\ store.log \in Seq(Entry) /\ Len(store.log) \in Nat
    BY <1>0 DEF SafetyInv, Snapshot
  <2>3. Continues(store.log, store.log) /\ (Len(store.log) + 1)..Len(store.log) = {}
    BY <2>2, ContinuesItself
  <2>4. SlotSafe(p, store)
    BY <2>1, <2>2, <2>3
       DEF SlotSafe, Drafted, OwnEdits, OwnRestore, Drafting, Restoring
  <2> QED BY <1>3, <2>4, OwnSlotSafe DEF Load
<1>4. CASE RefusalRead(r)
  BY <1>4, ReplySafe DEF RefusalRead
<1>5. CASE ApplyNext(r)
  BY <1>5, ApplyNextSafe
<1>6. CASE FinishBatch(r)
  <2> DEFINE p == [q EXCEPT !.phase = "swap"]
  <2>1. CASE \E i \in DOMAIN q.receipts : q.receipts[i].status = "applied"
    <3>1. /\ p.phase = "swap" /\ p.base = q.base /\ p.draft = q.draft
          /\ p.receipts = q.receipts /\ p.account = q.account
          /\ req' = [req EXCEPT ![r] = p]
      BY <1>0, <1>6, <2>1 DEF RequestRecord, FinishBatch, GoTo
    <3> HIDE DEF p
    <3>2. SlotSafe(p, store)
      BY <1>0, <1>6, <2>1, <3>1
         DEF FinishBatch, SlotSafe, Drafted, OwnEdits, OwnRestore, Drafting, Restoring
    <3> QED BY <1>6, <3>1, <3>2, OwnSlotSafe DEF FinishBatch
  <2>2. CASE ~(\E i \in DOMAIN q.receipts : q.receipts[i].status = "applied")
    BY <1>6, <2>2, GoToSafe DEF FinishBatch
  <2> QED BY <2>1, <2>2
<1>7. CASE Swap(r)
  <2> DEFINE p == [q EXCEPT !.phase = "answer"]
  <2>1. CASE SwapWins(r, Writers)
    <3>1. p.phase = "answer" /\ req' = [req EXCEPT ![r] = p]
      BY <1>0, <1>7, <2>1 DEF Swap, GoTo, RequestRecord
    <3>2. /\ q.phase \in {"swap", "restoreSwap"} /\ store.rev = q.base.rev
          /\ UNCHANGED <<role, deleted>>
          /\ store' = Install(store, q.base, q.draft)
      BY <1>7, <2>1 DEF Swap, SwapWins, access
    <3> HIDE DEF p
    <3>3. p.phase \notin {"apply", "swap", "restore", "restoreSwap"}
      BY <3>1
    <3> QED BY <3>1, <3>2, <3>3, WinSafe
  <2>2. CASE ~SwapWins(r, Writers)
    BY <1>7, <2>2, GoToSafe DEF Swap, UnchangedStore
  <2> QED BY <2>1, <2>2
<1>8. CASE Recheck(r)
  <2> DEFINE p == [q EXCEPT !.phase = "load", !.attempt = q.attempt + 1]
  <2> SUFFICES ASSUME req' = [req EXCEPT ![r] = p]
               PROVE  SafetyInv'
    BY <1>8, ReplySafe DEF Recheck
  <2>1. p.phase = "load" /\ UnchangedStore
    BY <1>0, <1>8 DEF RequestRecord, Recheck
  <2> HIDE DEF p
  <2> QED BY <2>1, QuietSlot, OwnSlotSafe
<1>9. CASE Answer(r)
  BY <1>9, GoToSafe, ReplySafe DEF Answer
<1>10. CASE Vanished(r)
  BY <1>10, ReplySafe DEF Vanished
<1>11. CASE LoadRestore(r)
  <2> DEFINE p == [q EXCEPT !.phase = "restoreSwap"]
  <2> SUFFICES ASSUME req' = [req EXCEPT ![r] = p]
               PROVE  SafetyInv'
    BY <1>11, ReplySafe DEF LoadRestore, GoTo
  <2>1. /\ p.phase = "restoreSwap" /\ p.base = q.base /\ p.draft = q.draft
        /\ p.account = q.account
    BY <1>0 DEF RequestRecord
  <2> HIDE DEF p
  <2>2. SlotSafe(p, store)
    BY <1>0, <1>11, <2>1
       DEF LoadRestore, SlotSafe, Drafted, OwnEdits, OwnRestore, Drafting, Restoring
  <2> QED BY <1>11, <2>2, OwnSlotSafe DEF LoadRestore
<1>12. CASE SwapRestore(r)
  <2> DEFINE p == [Idle EXCEPT !.phase = "replied", !.account = q.account,
                     !.batch = q.batch, !.result = "restored",
                     !.receipts = << >>, !.draft = EmptySnapshot,
                     !.access = AccessOf(q.account)]
  <2>1. CASE SwapWins(r, {"owner"})
    <3>1. p.phase = "replied" /\ req' = [req EXCEPT ![r] = p]
      BY <1>12, <2>1 DEF SwapRestore, Reply, Idle
    <3>2. /\ q.phase \in {"swap", "restoreSwap"} /\ store.rev = q.base.rev
          /\ UNCHANGED <<role, deleted>>
          /\ store' = Install(store, q.base, q.draft)
      BY <1>12, <2>1 DEF SwapRestore, SwapWins, access
    <3> HIDE DEF p
    <3>3. p.phase \notin {"apply", "swap", "restore", "restoreSwap"}
      BY <3>1
    <3> QED BY <3>1, <3>2, <3>3, WinSafe
  <2>2. CASE ~SwapWins(r, {"owner"})
    BY <1>12, <2>2, ReplySafe DEF SwapRestore, UnchangedStore
  <2> QED BY <2>1, <2>2
<1> QED BY <1>1, <1>2, <1>3, <1>4, <1>5, <1>6, <1>7, <1>8, <1>9, <1>10, <1>11,
           <1>12 DEF Handle

\* The safety invariant is inductive: every step of the server keeps it.
LEMMA NextSafe == SafetyInv /\ [Next]_vars => SafetyInv'
<1> SUFFICES ASSUME SafetyInv, [Next]_vars PROVE SafetyInv'
  OBVIOUS
<1>0. TypeInv'
  BY NextType DEF SafetyInv
<1>1. ASSUME NEW r \in Request, SwapPaused(r)
      PROVE  SafetyInv'
  BY <1>0, <1>1, ReplySafe DEF SwapPaused
<1>2. ASSUME NEW r \in Request, Close(r)
      PROVE  SafetyInv'
  <2>1. SlotSafe(Idle, store)
    BY QuietSlot DEF Idle
  <2> QED BY <1>0, <1>2, <2>1, OwnSlotSafe DEF Close
<1>3. CASE Export
  BY <1>0, <1>3 DEF Export, SafetyInv, DraftsFollowStore, access
<1>4. CASE ChangeAccess /\ UNCHANGED <<store, backup, req>>
  <2>1. deleted' => \A a \in Account : role'[a] = "none"
    <3>1. ASSUME NEW a \in Account, NEW to \in Roles, SetRole(a, to)
          PROVE  ~deleted'
      BY <3>1 DEF SetRole
    <3>2. ASSUME NEW a \in Account, SetActive(a) \/ ChangeOtherMembership(a)
          PROVE  UNCHANGED <<role, deleted>>
      BY <3>2 DEF SetActive, ChangeOtherMembership
    <3>3. ASSUME NEW a \in Account, DeleteWorkspace(a)
          PROVE  \A b \in Account : role'[b] = "none"
      BY <3>3 DEF DeleteWorkspace
    <3>4. ASSUME ChangeGuestLink
          PROVE  ~deleted'
      BY <3>4 DEF ChangeGuestLink
    <3> DEFINE Emptied == deleted => \A a \in Account : role[a] = "none"
    <3>5. Emptied
      BY DEF SafetyInv
    <3>6. Emptied' <=> (deleted' => \A a \in Account : role'[a] = "none")
      OBVIOUS
    <3> HIDE DEF Emptied
    <3>7. CASE \E a \in Account, to \in Roles : SetRole(a, to)
      BY <3>1, <3>7
    <3>8. CASE \E a \in Account : SetActive(a) \/ ChangeOtherMembership(a)
      BY <3>2, <3>5, <3>8 DEF Emptied
    <3>9. CASE \E a \in Account : DeleteWorkspace(a)
      BY <3>3, <3>9
    <3> QED BY <1>4, <3>4, <3>7, <3>8, <3>9 DEF ChangeAccess
  <2> QED BY <1>0, <1>4, <2>1 DEF SafetyInv, DraftsFollowStore
<1>5. CASE UNCHANGED vars
  BY <1>0, <1>5 DEF vars, access, SafetyInv, DraftsFollowStore
<1> QED BY <1>0, <1>1, <1>2, <1>3, <1>4, <1>5, ArriveSafe, HandleSafe DEF Next

\* The inductive invariant holds in every reachable state.
THEOREM Safety == Spec => []SafetyInv
BY InitSafe, NextSafe, PTL DEF Spec

\* No update is lost: the compare-and-swap (D1SnapshotStore.
\* compareAndSwapAuthorized) serializes any number of racing requests.
THEOREM NoLostUpdate == Spec => []StoreExplainedByLog
<1>1. SafetyInv => StoreExplainedByLog
  BY DEF SafetyInv, Consistent, StoreExplainedByLog
<1> QED BY <1>1, Safety, PTL

\* No accepted command overwrote a value its author had not seen
\* (expectationConflicts on every attempt of synchronize).
THEOREM NeverBlind == Spec => []NoBlindOverwrite
<1>1. SafetyInv => NoBlindOverwrite
  BY DEF SafetyInv, Consistent, NoBlindOverwrite
<1> QED BY <1>1, Safety, PTL

\* An id is accepted again only outside the replay window that
\* compactWorkspaceHistory keeps, or after a restore.
THEOREM NeverTwice == Spec => []AppliedOnce
<1>1. SafetyInv => AppliedOnce
  BY DEF SafetyInv, Consistent, AppliedOnce
<1> QED BY <1>1, Safety, PTL

\* What a handler holds in memory never gets ahead of what was stored
\* (base and draft of synchronize and restoreOwnedWorkspace).
THEOREM DraftsFollow == Spec => []DraftsFollowStore
<1>1. SafetyInv => DraftsFollowStore
  BY DEF SafetyInv
<1> QED BY <1>1, Safety, PTL
-----------------------------------------------------------------------------
(* The server implements EditLog. *)

\* What a sync request commits is a group of edits of its account.
LEMMA SwapIsCommit ==
  ASSUME NEW r \in Request, SafetyInv, Swap(r), SwapWins(r, Writers)
  PROVE  Promise!Commit
<1> DEFINE q == req[r]
           t == q.draft.log
           a == q.account
<1>1. q.phase = "swap" /\ store' = Install(store, q.base, q.draft)
      /\ UNCHANGED <<role, active, deleted>> /\ store.rev = q.base.rev
      /\ MayCommit(a, q.basis, Writers)
  BY DEF Swap, SwapWins, access
<1>2. /\ store'.log = t /\ store.log = q.base.log
      /\ Consistent(q.draft) /\ Continues(t, store.log)
  BY <1>1, WinningSwap
<1>3. a \in Account
  BY <1>1 DEF SafetyInv, TypeInv, Slot
<1>4. OwnEdits(q)
  BY DEF SafetyInv, DraftsFollowStore
<1>5. t \in Seq(Entry) /\ store.log \in Seq(Entry)
  BY SlotFacts DEF Snapshot
<1> HIDE DEF q
<1>6. ~deleted /\ active[a] /\ role[a] \in {"owner", "editor"}
  BY <1>1 DEF MayCommit, Writers
<1> DEFINE n == Len(store.log)
<1>7. Len(t) > n
  BY <1>1, <1>2, <1>4 DEF OwnEdits, Drafting
<1>8. ASSUME NEW k \in (n + 1)..Len(t)
      PROVE  /\ t[k].id # Restored /\ t[k].by = a
             /\ \A f \in DOMAIN t[k].expect : ValueAfter(t, k - 1, f, t[k].expect[f])
             /\ \A i \in 1..(k - 1) :
                  t[i].id = t[k].id => k - i > LedgerLimit \/ RestoredWithin(t, i, k)
  <2>1. t[k].id # Restored /\ t[k].by = a
    BY <1>1, <1>2, <1>4 DEF OwnEdits, Drafting
  <2> HIDE DEF t
  <2>2. k \in DOMAIN t /\ \A i \in 1..(k - 1) : i \in DOMAIN t /\ i < k
    BY <1>5
  <2>3. \A f \in DOMAIN t[k].expect : ValueAfter(t, k - 1, f, t[k].expect[f])
    BY <1>2, <2>2 DEF Consistent, ExpectationsHeld, t
  <2>4. \A i \in 1..(k - 1) :
          t[i].id = t[k].id => k - i > LedgerLimit \/ RestoredWithin(t, i, k)
    BY <1>2, <2>1, <2>2 DEF Consistent, OnceWithinWindow, t
  <2> QED BY <2>1, <2>3, <2>4
<1> HIDE DEF t, a
<1>9. Promise!Edits(a)
  BY <1>2, <1>6, <1>8, SMTT(30)
     DEF Promise!Edits, Promise!ValueAfter, ValueAfter,
         Promise!RestoredWithin, RestoredWithin
<1>10. Promise!Continues(store'.log, store.log)
  BY <1>2 DEF Promise!Continues, Continues
<1> QED BY <1>1, <1>2, <1>3, <1>6, <1>7, <1>9, <1>10 DEF Promise!Commit

\* What restoreOwnedWorkspace commits is one entry of an owner.
LEMMA RestoreIsCommit ==
  ASSUME NEW r \in Request, SafetyInv, SwapRestore(r), SwapWins(r, {"owner"})
  PROVE  Promise!Commit
<1> DEFINE q == req[r]
           t == q.draft.log
           a == q.account
<1>1. q.phase = "restoreSwap" /\ store' = Install(store, q.base, q.draft)
      /\ UNCHANGED <<role, active, deleted>> /\ store.rev = q.base.rev
      /\ MayCommit(a, q.basis, {"owner"})
  BY DEF SwapRestore, SwapWins, access
<1>2. /\ store'.log = t /\ store.log = q.base.log /\ Continues(t, store.log)
  BY <1>1, WinningSwap
<1>3. a \in Account
  BY <1>1 DEF SafetyInv, TypeInv, Slot
<1>4. OwnRestore(q)
  BY DEF SafetyInv, DraftsFollowStore
<1>5. Len(store.log) \in Nat
  BY SlotFacts DEF Snapshot
<1> HIDE DEF q
<1>6. /\ ~deleted /\ active[a] /\ role[a] = "owner"
      /\ Len(t) = Len(store.log) + 1 /\ t[Len(t)].id = Restored
      /\ t[Len(t)].by = a /\ DOMAIN t[Len(t)].sets = Field
  BY <1>1, <1>2, <1>4 DEF MayCommit, OwnRestore, Restoring
<1> HIDE DEF t, a
<1>7. Promise!Restore(a)
  BY <1>2, <1>6 DEF Promise!Restore
<1>8. Promise!Continues(store'.log, store.log)
  BY <1>2 DEF Promise!Continues, Continues
<1> QED BY <1>1, <1>2, <1>3, <1>5, <1>6, <1>7, <1>8 DEF Promise!Commit

\* Every step of the server is a step of EditLog or changes nothing of it: a
\* winning swap commits, a losing one and all other handler steps stutter.
LEMMA StepImplements ==
  SafetyInv /\ SafetyInv' /\ [Next]_vars => [Promise!Next]_(Promise!vars)
<1> SUFFICES ASSUME SafetyInv, SafetyInv', [Next]_vars
             PROVE  [Promise!Next]_(Promise!vars)
  OBVIOUS
<1>1. CASE UNCHANGED <<store, access>>
  BY <1>1 DEF Promise!vars, access
<1>2. ASSUME NEW r \in Request, Handle(r)
      PROVE  [Promise!Next]_(Promise!vars)
  <2>1. CASE Swap(r) /\ SwapWins(r, Writers)
    BY <2>1, SwapIsCommit DEF Promise!Next
  <2>2. CASE SwapRestore(r) /\ SwapWins(r, {"owner"})
    BY <2>2, RestoreIsCommit DEF Promise!Next
  <2>3. CASE /\ ~(Swap(r) /\ SwapWins(r, Writers))
             /\ ~(SwapRestore(r) /\ SwapWins(r, {"owner"}))
    <3>1. UNCHANGED <<store, access>>
      BY <1>2, <2>3
         DEF Handle, Authenticate, Admit, Load, RefusalRead, ApplyNext,
             FinishBatch, Swap, Recheck, Answer, Vanished, LoadRestore,
             SwapRestore, UnchangedStore
    <3> QED BY <1>1, <3>1
  <2> QED BY <2>1, <2>2, <2>3
<1>3. CASE ChangeAccess /\ UNCHANGED <<store, backup, req>>
  <2>1. deleted => deleted' /\ role' = role
    <3>1. CASE \E a \in Account, to \in Roles : SetRole(a, to)
      BY <3>1 DEF SetRole
    <3>2. CASE \E a \in Account : SetActive(a) \/ ChangeOtherMembership(a)
      BY <3>2 DEF SetActive, ChangeOtherMembership
    <3>3. CASE \E a \in Account : DeleteWorkspace(a)
      BY <3>3 DEF DeleteWorkspace, CanRead
    <3>4. CASE ChangeGuestLink
      BY <3>4 DEF ChangeGuestLink
    <3> QED BY <1>3, <3>1, <3>2, <3>3, <3>4 DEF ChangeAccess
  <2>2. deleted' => \A a \in Account : role'[a] = "none"
    BY DEF SafetyInv
  <2> QED BY <1>3, <2>1, <2>2 DEF Promise!Next, Promise!ChangeAccess
<1>4. CASE \E r \in Request :
             (\E a \in Account : Arrive(r, a)) \/ SwapPaused(r) \/ Close(r)
  BY <1>1, <1>4
     DEF Arrive, Receive, ReceiveRestore, SwapPaused, Close, UnchangedStore
<1>5. CASE Export
  BY <1>1, <1>5 DEF Export
<1>6. CASE UNCHANGED vars
  BY <1>1, <1>6 DEF vars
<1> QED BY <1>2, <1>3, <1>4, <1>5, <1>6 DEF Next

\* The server implements EditLog: every step of any handler is a commit, an
\* access change or nothing at all (POST /api/sync and PUT /api/snapshot).
THEOREM Implements == Spec => KeepsPromise
<1>1. Init => Promise!Init
  BY AccessAssumption
     DEF Init, AccessInit, EmptySnapshot, Promise!Init, Roles
<1> QED BY <1>1, Safety, StepImplements, PTL DEF Spec, KeepsPromise, Promise!Spec
-----------------------------------------------------------------------------
(* Receipts are true. *)

\* A batch, as a device's outbox makes it, has no command twice.
DistinctIds(batch) ==
  \A i, j \in DOMAIN batch : batch[i].id = batch[j].id => i = j

\* The ids that are remembered are ids of committed entries.
Told(ledger, log) ==
  \A i \in DOMAIN ledger : \E k \in DOMAIN log : log[k].id = ledger[i]

AppliedTold(rc, log, who) ==
  rc.status = "applied" =>
    rc.rev \in DOMAIN log /\ log[rc.rev].id = rc.id /\ log[rc.rev].by = who

DuplicateTold(rc, log) ==
  rc.status = "duplicate" =>
    \E k \in 1..rc.rev : k \in DOMAIN log /\ log[k].id = rc.id

\* What a draft adds to its base has an "applied" receipt.
Entered(q) ==
  \A k \in (Len(q.base.log) + 1)..Len(q.draft.log) :
    \E i \in DOMAIN q.receipts :
      q.receipts[i].status = "applied" /\ q.draft.log[k].id = q.batch[i].id

\* A handler's receipts: "applied" is true of its draft until that is stored,
\* "duplicate" is true of the store all the time.
DraftTold(q, log) ==
  /\ Told(q.draft.ledger, q.draft.log) /\ Entered(q)
  /\ \A i \in DOMAIN q.receipts :
       /\ q.receipts[i].rev <= Len(q.draft.log)
       /\ AppliedTold(q.receipts[i], q.draft.log, q.account)
       /\ DuplicateTold(q.receipts[i], log)

DuplicatesTold(q, log) == \A i \in DOMAIN q.receipts : DuplicateTold(q.receipts[i], log)

StoredTold(q, log) ==
  \A i \in DOMAIN q.receipts :
    /\ q.receipts[i].rev <= Len(log)
    /\ AppliedTold(q.receipts[i], log, q.account)
    /\ DuplicateTold(q.receipts[i], log)

AnswerTold(q, log) ==
  \A i \in DOMAIN q.receipts :
    /\ q.result = "ok" => q.receipts[i].rev <= q.draft.rev
    /\ AppliedTold(q.receipts[i], log, q.account)
    /\ DuplicateTold(q.receipts[i], log)

SlotTold(q, log) ==
  /\ DistinctIds(q.batch)
  /\ Restoring(q) => Told(q.draft.ledger, q.draft.log)
  /\ Drafting(q) => DraftTold(q, log)
  /\ q.phase = "recheck" => DuplicatesTold(q, log)
  /\ q.phase \in {"answer", "vanished"} => StoredTold(q, log)
  /\ q.phase = "replied" => AnswerTold(q, log)

ReceiptInv ==
  /\ Told(store.ledger, store.log) /\ Told(backup.ledger, store.log)
  /\ \A r \in Request : SlotTold(req[r], store.log)

\* What is told of a log is told of every log that extends it.
LEMMA ToldOn ==
  ASSUME NEW log \in Seq(Entry), NEW more \in Seq(Entry), Continues(more, log)
  PROVE  /\ \A ledger : Told(ledger, log) => Told(ledger, more)
         /\ \A rc \in Receipt : \A who :
              AppliedTold(rc, log, who) => AppliedTold(rc, more, who)
         /\ \A rc \in Receipt : DuplicateTold(rc, log) => DuplicateTold(rc, more)
<1>1. Len(log) \in Nat /\ Len(more) \in Nat /\ Len(log) <= Len(more)
  BY DEF Continues
<1>2. \A k \in DOMAIN log : k \in DOMAIN more /\ more[k] = log[k]
  BY <1>1 DEF Continues
<1>3. \A ledger : Told(ledger, log) => Told(ledger, more)
  BY <1>2 DEF Told
<1>4. \A rc \in Receipt : \A who : AppliedTold(rc, log, who) => AppliedTold(rc, more, who)
  BY <1>2 DEF AppliedTold
<1>5. \A rc \in Receipt : DuplicateTold(rc, log) => DuplicateTold(rc, more)
  BY <1>2 DEF DuplicateTold
<1> QED BY <1>3, <1>4, <1>5

\* A slot that does not move stays true when the stored log is extended.
LEMMA SlotToldOn ==
  ASSUME NEW q \in RequestRecord, NEW log \in Seq(Entry), NEW more \in Seq(Entry),
         Continues(more, log), SlotTold(q, log)
  PROVE  SlotTold(q, more)
<1>1. \A i \in DOMAIN q.receipts : q.receipts[i] \in Receipt /\ q.receipts[i].rev \in Nat
  <2>1. \A i \in DOMAIN q.receipts : q.receipts[i] \in Receipt
    BY DEF RequestRecord
  <2> QED BY <2>1 DEF Receipt
<1>2. Len(log) \in Nat /\ Len(more) \in Nat /\ Len(log) <= Len(more)
  BY DEF Continues
<1>3. DraftTold(q, log) => DraftTold(q, more)
  BY <1>1, ToldOn DEF DraftTold
<1>4. DuplicatesTold(q, log) => DuplicatesTold(q, more)
  BY <1>1, ToldOn DEF DuplicatesTold
<1>5. StoredTold(q, log) => StoredTold(q, more)
  BY <1>1, <1>2, ToldOn DEF StoredTold
<1>6. AnswerTold(q, log) => AnswerTold(q, more)
  BY <1>1, ToldOn DEF AnswerTold
<1> QED BY <1>3, <1>4, <1>5, <1>6 DEF SlotTold

\* Compaction forgets ids, and a command adds its own with its entry.
LEMMA VerdictTold ==
  ASSUME NEW s \in Snapshot, NEW c \in Envelope, NEW who \in Account,
         NEW verdict, Told(s.ledger, s.log)
  PROVE  LET after == AfterVerdict(s, c, verdict, who)
         IN Told(after.ledger, after.log)
<1>1. CASE verdict # "applied"
  BY <1>1 DEF AfterVerdict
<1>2. CASE verdict = "applied"
  <2> DEFINE e == [id |-> c.id, by |-> who, sets |-> c.sets, expect |-> c.expect]
             ids == Append(s.ledger, c.id)
             t == Append(s.log, e)
             after == AfterVerdict(s, c, verdict, who)
  <2>1. /\ e \in Entry /\ e.id = c.id /\ s.log \in Seq(Entry)
        /\ s.ledger \in Seq(Edit) /\ c.id \in Edit
    BY DEF Entry, Envelope, Snapshot
  <2>2. after.ledger = Newest(ids) /\ after.log = t
    BY <1>2 DEF AfterVerdict, Compact, ApplyCommand
  <2> HIDE DEF e, after
  <2>3. /\ ids \in Seq(Edit) /\ DOMAIN ids = 1..(Len(s.ledger) + 1)
        /\ Len(ids) = Len(s.ledger) + 1
        /\ ids[Len(s.ledger) + 1] = c.id
        /\ \A i \in 1..Len(s.ledger) : ids[i] = s.ledger[i]
    BY <2>1
  <2>4. /\ DOMAIN t = 1..(Len(s.log) + 1) /\ t[Len(s.log) + 1] = e
        /\ \A i \in 1..Len(s.log) : t[i] = s.log[i]
        /\ Len(s.log) \in Nat /\ DOMAIN s.log = 1..Len(s.log)
        /\ Len(s.ledger) \in Nat /\ DOMAIN s.ledger = 1..Len(s.ledger)
    BY <2>1
  <2> HIDE DEF ids, t
  <2>5. ASSUME NEW i \in DOMAIN ids
        PROVE  \E k \in DOMAIN t : t[k].id = ids[i]
    <3>1. CASE i = Len(s.ledger) + 1
      <4>1. Len(s.log) + 1 \in DOMAIN t /\ t[Len(s.log) + 1].id = ids[i]
        BY <2>1, <2>3, <2>4, <3>1
      <4> QED BY <4>1
    <3>2. CASE i # Len(s.ledger) + 1
      <4>1. i \in DOMAIN s.ledger /\ ids[i] = s.ledger[i]
        BY <2>3, <2>4, <2>5, <3>2
      <4>2. PICK k \in DOMAIN s.log : s.log[k].id = s.ledger[i]
        BY <4>1 DEF Told
      <4>3. k \in DOMAIN t /\ t[k].id = ids[i]
        BY <2>4, <4>1, <4>2
      <4> QED BY <4>3
    <3> QED BY <3>1, <3>2
  <2>6. \A i \in DOMAIN Newest(ids) : \E j \in DOMAIN ids : Newest(ids)[i] = ids[j]
    <3> DEFINE new == Newest(ids)
    <3>1. /\ new \in Seq(Edit)
          /\ Len(new) = IF Len(ids) <= LedgerLimit THEN Len(ids) ELSE LedgerLimit
          /\ \A k \in 1..Len(new) : new[k] = ids[Len(ids) - Len(new) + k]
      BY <2>3, NewestShape, Zenon
    <3> HIDE DEF new
    <3>2. /\ Len(new) \in Nat /\ DOMAIN new = 1..Len(new)
          /\ Len(ids) \in Nat /\ Len(new) <= Len(ids) /\ DOMAIN ids = 1..Len(ids)
      BY <2>3, <2>4, <3>1, CommandAssumption
    <3>3. ASSUME NEW i \in DOMAIN new
          PROVE  Len(ids) - Len(new) + i \in DOMAIN ids
                 /\ new[i] = ids[Len(ids) - Len(new) + i]
      BY <3>1, <3>2, <3>3
    <3> QED BY <3>3 DEF new
  <2>7. Told(Newest(ids), t)
    BY <2>5, <2>6 DEF Told
  <2> QED BY <2>2, <2>7 DEF after
<1> QED BY <1>1, <1>2

\* A backup holds ids of entries that were committed before it was made.
LEMMA RestoreTold ==
  ASSUME NEW base \in Snapshot, NEW a \in Account, Told(backup.ledger, base.log)
  PROVE  LET u == RestoreOf(base, a) IN Told(u.ledger, u.log)
<1> DEFINE e == [id |-> Restored, by |-> a, sets |-> backup.val,
                 expect |-> [f \in {} |-> Blank]]
           t == Append(base.log, e)
<1>1. RestoreOf(base, a).ledger = backup.ledger /\ RestoreOf(base, a).log = t
  BY DEF RestoreOf
<1>2. base.log \in Seq(Entry)
  BY DEF Snapshot
<1> HIDE DEF e
<1>3. \A k \in DOMAIN base.log : k \in DOMAIN t /\ t[k] = base.log[k]
  BY <1>2
<1> HIDE DEF t
<1>4. Told(backup.ledger, t)
  BY <1>3 DEF Told
<1> QED BY <1>1, <1>4

\* The other slots stay true in any step that only extends the stored log.
LEMMA OneSlotTold ==
  ASSUME TypeInv, ReceiptInv, NEW r \in Request, NEW q,
         req' = [req EXCEPT ![r] = q], store' \in Snapshot, backup' = backup,
         Continues(store'.log, store.log), SlotTold(q, store'.log),
         Told(store'.ledger, store'.log)
  PROVE  ReceiptInv'
<1>1. store.log \in Seq(Entry) /\ store'.log \in Seq(Entry)
  BY DEF TypeInv, TypeOK, Snapshot
<1>2. Told(backup'.ledger, store'.log)
  BY <1>1, ToldOn DEF ReceiptInv
<1>3. ASSUME NEW o \in Request
      PROVE  SlotTold(req'[o], store'.log)
  <2>1. CASE o = r
    BY <2>1 DEF TypeInv, TypeOK
  <2>2. CASE o # r
    <3>1. req'[o] = req[o] /\ req[o] \in RequestRecord
      BY <2>2 DEF TypeInv, TypeOK
    <3>2. SlotTold(req[o], store.log)
      BY DEF ReceiptInv
    <3>3. SlotTold(req[o], store'.log)
      BY <1>1, <3>1, <3>2, SlotToldOn
    <3> QED BY <3>1, <3>3
  <2> QED BY <2>1, <2>2
<1> QED BY <1>2, <1>3 DEF ReceiptInv

\* A step that leaves the store and the backup alone and gives one slot true
\* receipts.
LEMMA OwnSlotTold ==
  ASSUME TypeInv, ReceiptInv, UnchangedStore, NEW r \in Request, NEW q,
         req' = [req EXCEPT ![r] = q], SlotTold(q, store.log)
  PROVE  ReceiptInv'
<1>1. store' = store /\ backup' = backup /\ store \in Snapshot
      /\ store.log \in Seq(Entry)
  BY DEF UnchangedStore, TypeInv, TypeOK, Snapshot
<1>2. Continues(store'.log, store.log) /\ Told(store'.ledger, store'.log)
  BY <1>1, ContinuesItself DEF ReceiptInv
<1> QED BY <1>1, <1>2, OneSlotTold

\* An answer whose receipts are true.
LEMMA ReplyTold ==
  ASSUME TypeInv, ReceiptInv, NEW r \in Request, UnchangedStore,
         NEW result, NEW receipts, NEW snapshot, NEW acc,
         Reply(r, result, receipts, snapshot, acc),
         \A i \in DOMAIN receipts :
           /\ result = "ok" => receipts[i].rev <= snapshot.rev
           /\ AppliedTold(receipts[i], store.log, req[r].account)
           /\ DuplicateTold(receipts[i], store.log)
  PROVE  ReceiptInv'
<1> DEFINE q == [Idle EXCEPT !.phase = "replied", !.account = req[r].account,
                   !.batch = req[r].batch, !.result = result,
                   !.receipts = receipts, !.draft = snapshot, !.access = acc]
<1>1. /\ q.phase = "replied" /\ q.account = req[r].account /\ q.result = result
      /\ q.batch = req[r].batch /\ q.receipts = receipts /\ q.draft = snapshot
      /\ req' = [req EXCEPT ![r] = q]
  BY DEF Reply, Idle
<1> HIDE DEF q
<1>2. DistinctIds(q.batch)
  BY <1>1 DEF ReceiptInv, SlotTold
<1>3. SlotTold(q, store.log)
  BY <1>1, <1>2 DEF SlotTold, AnswerTold, Drafting, Restoring
<1> QED BY <1>1, <1>3, OwnSlotTold

\* A refusal that carries no receipt but rejections, or none at all.
LEMMA RefusalTold ==
  ASSUME TypeInv, ReceiptInv, NEW r \in Request, UnchangedStore,
         NEW result, result # "ok", NEW receipts, NEW snapshot, NEW acc,
         Reply(r, result, receipts, snapshot, acc),
         receipts = << >> \/ \E rev : receipts = AllRejected(req[r].batch, rev)
  PROVE  ReceiptInv'
<1>1. \A i \in DOMAIN receipts :
        receipts[i].status \notin {"applied", "duplicate"}
  BY DEF AllRejected, Reject
<1>2. \A i \in DOMAIN receipts :
        /\ result = "ok" => receipts[i].rev <= snapshot.rev
        /\ AppliedTold(receipts[i], store.log, req[r].account)
        /\ DuplicateTold(receipts[i], store.log)
  BY <1>1 DEF AppliedTold, DuplicateTold
<1> QED BY <1>2, ReplyTold

\* A handler that goes on to where it holds no receipts.
LEMMA GoToTold ==
  ASSUME TypeInv, ReceiptInv, NEW r \in Request, UnchangedStore, NEW phase,
         phase \in {"admit", "refusal", "load"}, GoTo(r, phase)
  PROVE  ReceiptInv'
<1> DEFINE q == [req[r] EXCEPT !.phase = phase]
<1>1. q.phase = phase /\ q.batch = req[r].batch /\ req' = [req EXCEPT ![r] = q]
  BY DEF GoTo, TypeInv, TypeOK, RequestRecord
<1> HIDE DEF q
<1>2. DistinctIds(q.batch)
  BY <1>1 DEF ReceiptInv, SlotTold
<1>3. SlotTold(q, store.log)
  BY <1>1, <1>2 DEF SlotTold, Drafting, Restoring
<1> QED BY <1>1, <1>3, OwnSlotTold

\* Nobody has asked for anything yet.
LEMMA InitTold == Init => ReceiptInv
<1> SUFFICES ASSUME Init PROVE ReceiptInv
  OBVIOUS
<1>1. Told(store.ledger, store.log) /\ Told(backup.ledger, store.log)
  BY DEF Init, Told, EmptySnapshot
<1>2. \A r \in Request : req[r].phase = "idle" /\ req[r].batch = << >>
  BY DEF Init, Idle
<1>3. \A r \in Request : SlotTold(req[r], store.log)
  BY <1>2 DEF SlotTold, DistinctIds, Drafting, Restoring
<1> QED BY <1>1, <1>3 DEF ReceiptInv

\* A request arrives with a batch that has no command twice.
LEMMA ArriveTold ==
  ASSUME \A batch \in Batch : DistinctIds(batch),
         TypeInv, ReceiptInv, NEW r \in Request, NEW a \in Account, Arrive(r, a)
  PROVE  ReceiptInv'
<1>1. ASSUME NEW batch \in Batch, Receive(r, a, batch)
      PROVE  ReceiptInv'
  <2> DEFINE q == [Idle EXCEPT !.phase = "received", !.account = a, !.batch = batch]
  <2>1. /\ q.phase = "received" /\ q.batch = batch
        /\ req' = [req EXCEPT ![r] = q] /\ UnchangedStore
    BY <1>1 DEF Receive, Idle
  <2> HIDE DEF q
  <2>2. SlotTold(q, store.log)
    BY <2>1 DEF SlotTold, Drafting, Restoring
  <2> QED BY <2>1, <2>2, OwnSlotTold
<1>2. CASE ReceiveRestore(r, a)
  <2> DEFINE q == [Idle EXCEPT !.phase = "restore", !.account = a,
                     !.basis = CurrentBasis(a), !.base = store,
                     !.draft = RestoreOf(store, a)]
  <2>1. /\ q.phase = "restore" /\ q.batch = << >> /\ q.draft = RestoreOf(store, a)
        /\ req' = [req EXCEPT ![r] = q] /\ UnchangedStore
    BY <1>2 DEF ReceiveRestore, Idle
  <2> HIDE DEF q
  <2>2. Told(q.draft.ledger, q.draft.log)
    BY <2>1, RestoreTold DEF ReceiptInv, TypeInv, TypeOK
  <2>3. DistinctIds(q.batch)
    BY <2>1 DEF DistinctIds
  <2>4. SlotTold(q, store.log)
    BY <2>1, <2>2, <2>3 DEF SlotTold, Drafting, Restoring
  <2> QED BY <2>1, <2>4, OwnSlotTold
<1> QED BY <1>1, <1>2 DEF Arrive

\* The receipt of the next command is true of the draft it leaves.  A remembered
\* id is one the store has already: what the batch itself added has the ids of
\* earlier commands of the batch.
LEMMA ApplyNextTold ==
  ASSUME SafetyInv, ReceiptInv, NEW r \in Request, ApplyNext(r)
  PROVE  ReceiptInv'
<1> DEFINE q == req[r]
           done == Len(q.receipts)
           c == q.batch[done + 1]
           verdict == Verdict(q.draft, c, q.base.rev, done, q.account)
           after == AfterVerdict(q.draft, c, verdict, q.account)
           new == ReceiptOf(c, verdict, after)
           p == [q EXCEPT !.draft = after, !.receipts = Append(@, new)]
           n == Len(q.base.log)
           m == Len(q.draft.log)
<1>0. TypeInv
  BY DEF SafetyInv
<1>1. /\ q.phase = "apply" /\ done < Len(q.batch) /\ UnchangedStore
      /\ req' = [req EXCEPT ![r] = p]
  BY <1>0 DEF ApplyNext, TypeInv, TypeOK
<1>2. /\ q \in RequestRecord /\ SlotSafe(q, store) /\ store \in Snapshot
      /\ q.draft \in Snapshot /\ q.base \in Snapshot
      /\ q.receipts \in Seq(Receipt) /\ q.batch \in Seq(Envelope)
  BY SlotFacts DEF RequestRecord
<1>3. c \in Envelope /\ q.account \in Account
  <2>1. q.account \in Account
    BY <1>0, <1>1 DEF TypeInv, Slot
  <2> QED BY <1>1, <1>2, <2>1, NextCommandType
<1>4. /\ p.phase = "apply" /\ p.base = q.base /\ p.draft = after
      /\ p.account = q.account /\ p.receipts = Append(q.receipts, new)
      /\ p.batch = q.batch
  BY <1>1, <1>2 DEF RequestRecord
<1>5. new.status = verdict /\ new.rev = after.rev /\ new.id = c.id
  BY DEF ReceiptOf
<1>6. DistinctIds(q.batch) /\ DraftTold(q, store.log)
  BY <1>1 DEF ReceiptInv, SlotTold, Drafting
<1>7. done \in Nat /\ DOMAIN q.receipts = 1..done /\ DOMAIN q.batch = 1..Len(q.batch)
  BY <1>2
<1>8. \A i \in 1..done : q.batch[i].id # c.id
  <2> SUFFICES ASSUME NEW i \in 1..done, q.batch[i].id = c.id PROVE FALSE
    OBVIOUS
  <2>1. i \in DOMAIN q.batch /\ done + 1 \in DOMAIN q.batch /\ i # done + 1
    BY <1>1, <1>2, <1>7
  <2> QED BY <1>6, <2>1 DEF DistinctIds
<1>9. verdict = "duplicate" => WasApplied(q.draft, c.id)
  BY DEF Verdict
<1> HIDE DEF c, done
<1>10. /\ after \in Snapshot /\ new \in Receipt
       /\ Consistent(q.draft) /\ Consistent(after)
  <2>1. Consistent(q.draft)
    BY <1>1, <1>2 DEF SlotSafe, Drafted, Drafting
  <2>2. Consistent(after)
    BY <1>2, <1>3, <2>1, VerdictConsistent
  <2>3. after \in Snapshot /\ new \in Receipt
    BY <1>2, <1>3, VerdictType
  <2> QED BY <2>1, <2>2, <2>3
<1>11. LET t == after.log IN
       /\ Continues(t, q.draft.log)
       /\ verdict = "applied" =>
            /\ Len(t) = m + 1
            /\ t[Len(t)].by = q.account /\ t[Len(t)].id = c.id
       /\ verdict # "applied" => t = q.draft.log
       /\ Told(after.ledger, t)
  <2> HIDE DEF verdict
  <2>1. Told(after.ledger, after.log)
    BY <1>2, <1>3, <1>6, VerdictTold DEF DraftTold
  <2> QED BY <1>2, <1>3, <2>1, VerdictLog
<1> HIDE DEF verdict, after, new, p, q
<1>12. /\ after.log \in Seq(Entry) /\ q.draft.log \in Seq(Entry)
       /\ q.base.log \in Seq(Entry) /\ store.log \in Seq(Entry)
       /\ n \in Nat /\ m \in Nat /\ Len(after.log) \in Nat
       /\ DOMAIN q.draft.log = 1..m
  <2>1. \A s \in Snapshot : s.log \in Seq(Entry) /\ Len(s.log) \in Nat
    BY DEF Snapshot
  <2> QED BY <1>2, <1>10, <2>1
<1>13. /\ Continues(q.draft.log, q.base.log) /\ Continues(store.log, q.base.log)
       /\ after.rev = Len(after.log) /\ m <= Len(after.log)
  BY <1>1, <1>2, <1>10, <1>11
     DEF SlotSafe, Drafted, Drafting, Continues, Consistent, ExplainedByLog
<1>14. DOMAIN p.receipts = 1..(done + 1) /\ p.receipts[done + 1] = new
       /\ \A i \in 1..done : p.receipts[i] = q.receipts[i]
  BY <1>2, <1>4, <1>10 DEF done
<1>15. Entered(p)
  <2> SUFFICES ASSUME NEW k \in (n + 1)..Len(after.log)
               PROVE  \E i \in DOMAIN p.receipts :
                        p.receipts[i].status = "applied"
                        /\ after.log[k].id = q.batch[i].id
    BY <1>4 DEF Entered
  <2>1. CASE k <= m
    <3>1. k \in (n + 1)..m /\ k \in 1..m
      BY <1>12, <2>1
    <3>2. PICK i \in DOMAIN q.receipts :
            q.receipts[i].status = "applied" /\ q.draft.log[k].id = q.batch[i].id
      BY <1>6, <3>1 DEF DraftTold, Entered
    <3>3. after.log[k] = q.draft.log[k]
      BY <1>11, <3>1 DEF Continues
    <3>4. i \in DOMAIN p.receipts /\ p.receipts[i] = q.receipts[i]
      BY <1>7, <1>14
    <3> QED BY <3>2, <3>3, <3>4
  <2>2. CASE k > m
    <3>1. verdict = "applied" /\ k = Len(after.log) /\ after.log[k].id = c.id
      BY <1>11, <1>12, <2>2
    <3>2. done + 1 \in DOMAIN p.receipts /\ p.receipts[done + 1].status = "applied"
      BY <1>5, <1>7, <1>14, <3>1
    <3> QED BY <3>1, <3>2 DEF c
  <2> QED BY <1>12, <2>1, <2>2
<1>16. AppliedTold(new, after.log, q.account)
  <2> SUFFICES ASSUME verdict = "applied"
               PROVE  /\ Len(after.log) \in DOMAIN after.log
                      /\ after.log[Len(after.log)].id = c.id
                      /\ after.log[Len(after.log)].by = q.account
    BY <1>5, <1>13 DEF AppliedTold
  <2> QED BY <1>11, <1>12
<1>17. DuplicateTold(new, store.log)
  <2> SUFFICES ASSUME verdict = "duplicate"
               PROVE  \E k \in 1..Len(after.log) :
                        k \in DOMAIN store.log /\ store.log[k].id = c.id
    BY <1>5, <1>13 DEF DuplicateTold
  <2>1. PICK k \in DOMAIN q.draft.log : q.draft.log[k].id = c.id
    BY <1>6, <1>9 DEF DraftTold, Told, WasApplied
  <2>2. k \in 1..n
    <3> SUFFICES ASSUME k \in (n + 1)..m PROVE FALSE
      BY <1>12, <2>1
    <3>1. PICK i \in DOMAIN q.receipts : q.draft.log[k].id = q.batch[i].id
      BY <1>6 DEF DraftTold, Entered
    <3> QED BY <1>7, <1>8, <2>1, <3>1
  <2>3. q.draft.log[k] = q.base.log[k] /\ store.log[k] = q.base.log[k]
        /\ k \in DOMAIN store.log
    BY <1>12, <1>13, <2>2 DEF Continues
  <2>4. k \in 1..Len(after.log)
    BY <1>12, <1>13, <2>1
  <2> QED BY <2>1, <2>3, <2>4
<1>18. ASSUME NEW i \in DOMAIN p.receipts
       PROVE  /\ p.receipts[i].rev <= Len(after.log)
              /\ AppliedTold(p.receipts[i], after.log, q.account)
              /\ DuplicateTold(p.receipts[i], store.log)
  <2>1. CASE i = done + 1
    BY <1>5, <1>12, <1>13, <1>14, <1>16, <1>17, <2>1
  <2>2. CASE i # done + 1
    <3>1. i \in DOMAIN q.receipts /\ p.receipts[i] = q.receipts[i]
      BY <1>7, <1>14, <2>2
    <3>2. q.receipts[i] \in Receipt /\ q.receipts[i].rev \in Nat
      <4>1. q.receipts[i] \in Receipt
        BY <1>2, <3>1
      <4> QED BY <4>1 DEF Receipt
    <3>3. /\ q.receipts[i].rev <= m
          /\ AppliedTold(q.receipts[i], q.draft.log, q.account)
          /\ DuplicateTold(q.receipts[i], store.log)
      BY <1>6, <3>1 DEF DraftTold
    <3>4. AppliedTold(q.receipts[i], after.log, q.account)
      BY <1>11, <1>12, <3>2, <3>3, ToldOn
    <3> QED BY <1>12, <1>13, <3>1, <3>2, <3>3, <3>4
  <2> QED BY <2>1, <2>2
<1>19. DraftTold(p, store.log)
  BY <1>4, <1>11, <1>15, <1>18 DEF DraftTold
<1>20. SlotTold(p, store.log)
  BY <1>4, <1>6, <1>19 DEF SlotTold, Drafting, Restoring
<1> QED BY <1>0, <1>1, <1>20, OwnSlotTold

\* A batch that applied nothing left the draft as long as its base, so its
\* answer is about what is stored already.
LEMMA FinishBatchTold ==
  ASSUME SafetyInv, ReceiptInv, NEW r \in Request, FinishBatch(r)
  PROVE  ReceiptInv'
<1> DEFINE q == req[r]
           entered == \E i \in DOMAIN q.receipts : q.receipts[i].status = "applied"
           to == IF entered THEN "swap" ELSE "answer"
           p == [q EXCEPT !.phase = to]
<1>1. /\ TypeInv /\ q \in RequestRecord /\ SlotSafe(q, store)
      /\ q.phase = "apply" /\ UnchangedStore /\ req' = [req EXCEPT ![r] = p]
  BY SlotFacts DEF FinishBatch, GoTo, SafetyInv
<1>2. /\ p.phase = to /\ p.batch = q.batch /\ p.base = q.base /\ p.draft = q.draft
      /\ p.receipts = q.receipts /\ p.account = q.account
  BY <1>1 DEF RequestRecord
<1> HIDE DEF p
<1>3. DistinctIds(q.batch) /\ DraftTold(q, store.log)
  BY <1>1 DEF ReceiptInv, SlotTold, Drafting
<1>4. CASE entered
  <2>1. p.phase = "swap" /\ DraftTold(p, store.log)
    BY <1>2, <1>3, <1>4 DEF DraftTold, Entered
  <2>2. SlotTold(p, store.log)
    BY <1>2, <1>3, <2>1 DEF SlotTold, Drafting, Restoring
  <2> QED BY <1>1, <2>2, OwnSlotTold
<1>5. CASE ~entered
  <2>1. \A k \in (Len(q.base.log) + 1)..Len(q.draft.log) : FALSE
    BY <1>3, <1>5 DEF DraftTold, Entered
  <2>2. /\ Len(q.base.log) \in Nat /\ Len(q.draft.log) \in Nat
        /\ Len(store.log) \in Nat /\ Len(q.base.log) <= Len(store.log)
    <3>1. \A s \in Snapshot : Len(s.log) \in Nat
      BY DEF Snapshot
    <3>2. Continues(store.log, q.base.log)
      BY <1>1 DEF SlotSafe, Drafting
    <3>3. store \in Snapshot /\ q.base \in Snapshot /\ q.draft \in Snapshot
      BY SlotFacts
    <3> QED BY <3>1, <3>2, <3>3 DEF Continues
  <2>3. Len(q.draft.log) <= Len(store.log)
    <3> DEFINE n == Len(q.base.log)
               m == Len(q.draft.log)
    <3>1. n \in Nat /\ m \in Nat /\ n <= Len(store.log) /\ Len(store.log) \in Nat
      BY <2>2
    <3>2. m \notin (n + 1)..m
      BY <2>1
    <3> HIDE DEF n, m
    <3>3. m <= n
      BY <3>1, <3>2
    <3>4. m <= Len(store.log)
      BY <3>1, <3>3
    <3> QED BY <3>4 DEF m
  <2>4. ASSUME NEW i \in DOMAIN q.receipts
        PROVE  /\ q.receipts[i].rev <= Len(store.log)
               /\ AppliedTold(q.receipts[i], store.log, q.account)
               /\ DuplicateTold(q.receipts[i], store.log)
    <3>1. q.receipts[i].rev \in Nat
      <4>1. q.receipts[i] \in Receipt
        BY <1>1 DEF RequestRecord
      <4> QED BY <4>1 DEF Receipt
    <3>2. q.receipts[i].rev <= Len(q.draft.log) /\ DuplicateTold(q.receipts[i], store.log)
      BY <1>3 DEF DraftTold
    <3>3. AppliedTold(q.receipts[i], store.log, q.account)
      BY <1>5 DEF AppliedTold
    <3> QED BY <2>2, <2>3, <3>1, <3>2, <3>3
  <2>5. p.phase = "answer" /\ StoredTold(p, store.log)
    BY <1>2, <1>5, <2>4 DEF StoredTold
  <2>6. SlotTold(p, store.log)
    BY <1>2, <1>3, <2>5 DEF SlotTold, Drafting, Restoring
  <2> QED BY <1>1, <2>6, OwnSlotTold
<1> QED BY <1>4, <1>5

\* The swap makes what is true of the draft true of the store; when it is
\* refused, the duplicates are what stays true.
LEMMA SwapTold ==
  ASSUME SafetyInv, TypeInv', ReceiptInv, NEW r \in Request, Swap(r)
  PROVE  ReceiptInv'
<1> DEFINE q == req[r]
           wins == SwapWins(r, Writers)
           p == [q EXCEPT !.phase = IF wins THEN "answer" ELSE "recheck"]
<1>1. /\ TypeInv /\ q \in RequestRecord /\ q.phase = "swap" /\ q.draft \in Snapshot
      /\ req' = [req EXCEPT ![r] = p] /\ backup' = backup
  BY SlotFacts DEF Swap, GoTo, SafetyInv
<1>2. /\ p.phase = (IF wins THEN "answer" ELSE "recheck") /\ p.batch = q.batch
      /\ p.receipts = q.receipts /\ p.account = q.account
  BY <1>1 DEF RequestRecord
<1> HIDE DEF p
<1>3. DistinctIds(q.batch) /\ DraftTold(q, store.log)
  BY <1>1 DEF ReceiptInv, SlotTold, Drafting
<1>4. CASE wins
  <2>1. /\ store' = q.draft /\ Continues(q.draft.log, store.log)
    <3>1. store.rev = q.base.rev /\ store' = Install(store, q.base, q.draft)
      BY <1>4 DEF Swap, SwapWins
    <3> QED BY <1>1, <3>1, WinningSwap
  <2>2. q.draft.log \in Seq(Entry) /\ store.log \in Seq(Entry)
    BY <1>1 DEF Snapshot, TypeInv, TypeOK
  <2>3. ASSUME NEW i \in DOMAIN q.receipts
        PROVE  /\ q.receipts[i].rev <= Len(q.draft.log)
               /\ AppliedTold(q.receipts[i], q.draft.log, q.account)
               /\ DuplicateTold(q.receipts[i], q.draft.log)
    <3>1. q.receipts[i] \in Receipt
      BY <1>1 DEF RequestRecord
    <3> QED BY <1>3, <2>1, <2>2, <3>1, ToldOn DEF DraftTold
  <2>4. p.phase = "answer" /\ StoredTold(p, q.draft.log)
    BY <1>2, <1>4, <2>3 DEF StoredTold
  <2>5. SlotTold(p, store'.log)
    BY <1>2, <1>3, <2>1, <2>4 DEF SlotTold, Drafting, Restoring
  <2>6. Told(store'.ledger, store'.log)
    BY <1>3, <2>1 DEF DraftTold
  <2> QED BY <1>1, <2>1, <2>5, <2>6, OneSlotTold
<1>5. CASE ~wins
  <2>1. UnchangedStore
    BY <1>5 DEF Swap, UnchangedStore
  <2>2. p.phase = "recheck" /\ DuplicatesTold(p, store.log)
    BY <1>2, <1>3, <1>5 DEF DuplicatesTold, DraftTold
  <2>3. SlotTold(p, store.log)
    BY <1>2, <1>3, <2>2 DEF SlotTold, Drafting, Restoring
  <2> QED BY <1>1, <2>1, <2>3, OwnSlotTold
<1> QED BY <1>4, <1>5

\* Of the attempt that lost its swap only the duplicates are sent.
LEMMA RecheckTold ==
  ASSUME TypeInv, ReceiptInv, NEW r \in Request, Recheck(r)
  PROVE  ReceiptInv'
<1> DEFINE q == req[r]
           why == Failure(AccessOf(q.account), q.basis)
           sent == RejectedExceptDuplicates(q.batch, q.base.rev, q.receipts)
<1>1. /\ q.phase = "recheck" /\ UnchangedStore /\ q \in RequestRecord
  BY DEF Recheck, TypeInv, TypeOK
<1>2. DistinctIds(q.batch) /\ DuplicatesTold(q, store.log)
  BY <1>1 DEF ReceiptInv, SlotTold
<1>3. CASE why # "ok" /\ Reply(r, why, sent, EmptySnapshot, AccessOf(q.account))
  <2>1. ASSUME NEW i \in DOMAIN sent
        PROVE  AppliedTold(sent[i], store.log, q.account)
               /\ DuplicateTold(sent[i], store.log)
    <3> DEFINE kept == KeptReceipts(q.batch[i].id, q.receipts)
    <3>1. sent[i] = IF kept # {} THEN q.receipts[CHOOSE k \in kept : TRUE]
                    ELSE Reject(q.batch[i], q.base.rev)
      BY <2>1 DEF RejectedExceptDuplicates
    <3>2. CASE kept # {}
      <4>1. PICK k \in kept : sent[i] = q.receipts[k]
        BY <3>1, <3>2
      <4>2. k \in DOMAIN q.receipts /\ sent[i].status = "duplicate"
        BY <4>1 DEF KeptReceipts
      <4> QED BY <1>2, <4>1, <4>2 DEF DuplicatesTold, AppliedTold
    <3>3. CASE kept = {}
      <4>1. sent[i].status = "rejected"
        BY <3>1, <3>3 DEF Reject
      <4> QED BY <4>1 DEF AppliedTold, DuplicateTold
    <3> QED BY <3>2, <3>3
  <2> HIDE DEF sent, why
  <2> QED BY <1>1, <1>3, <2>1, ReplyTold
<1>4. CASE Reply(r, "busy", << >>, EmptySnapshot, NoAccess)
  BY <1>1, <1>4, RefusalTold
<1>5. CASE req' = [req EXCEPT ![r].phase = "load", ![r].attempt = q.attempt + 1]
  <2> DEFINE p == [q EXCEPT !.phase = "load", !.attempt = q.attempt + 1]
  <2>1. p.phase = "load" /\ p.batch = q.batch /\ req' = [req EXCEPT ![r] = p]
    BY <1>1, <1>5 DEF RequestRecord
  <2> HIDE DEF p
  <2>2. SlotTold(p, store.log)
    BY <1>2, <2>1 DEF SlotTold, Drafting, Restoring
  <2> QED BY <1>1, <2>1, <2>2, OwnSlotTold
<1> QED BY <1>3, <1>4, <1>5 DEF Recheck

\* A new attempt starts from the stored snapshot, without receipts.
LEMMA LoadTold ==
  ASSUME TypeInv, ReceiptInv, NEW r \in Request, Load(r)
  PROVE  ReceiptInv'
<1> DEFINE q == req[r]
           p == [q EXCEPT !.phase = "apply", !.base = store, !.draft = store,
                          !.receipts = << >>]
<1>1. q.phase = "load" /\ UnchangedStore /\ q \in RequestRecord
  BY DEF Load, TypeInv, TypeOK
<1>2. DistinctIds(q.batch) /\ Told(store.ledger, store.log)
  BY DEF ReceiptInv, SlotTold
<1>3. CASE req' = [req EXCEPT ![r] = p]
  <2>1. /\ p.phase = "apply" /\ p.batch = q.batch /\ p.base = store
        /\ p.draft = store /\ p.receipts = << >>
    BY <1>1 DEF RequestRecord
  <2> HIDE DEF p
  <2>2. Len(store.log) \in Nat /\ (Len(store.log) + 1)..Len(store.log) = {}
    BY DEF TypeInv, TypeOK, Snapshot
  <2>3. DraftTold(p, store.log)
    BY <1>2, <2>1, <2>2 DEF DraftTold, Entered
  <2>4. SlotTold(p, store.log)
    BY <1>2, <2>1, <2>3 DEF SlotTold, Drafting, Restoring
  <2> QED BY <1>1, <1>3, <2>4, OwnSlotTold
<1>4. CASE GoTo(r, "refusal")
  BY <1>1, <1>4, GoToTold
<1>5. CASE \E why : why # "ok" /\ Reply(r, why, AllRejected(q.batch, store.rev),
                                        EmptySnapshot, AccessOf(q.account))
  BY <1>1, <1>5, RefusalTold
<1> QED BY <1>3, <1>4, <1>5 DEF Load

\* The answer carries a snapshot that is not older than its receipts.
LEMMA AnswerStepTold ==
  ASSUME SafetyInv, ReceiptInv, NEW r \in Request, Answer(r) \/ Vanished(r)
  PROVE  ReceiptInv'
<1> DEFINE q == req[r]
<1>1. /\ TypeInv /\ q \in RequestRecord /\ UnchangedStore
      /\ q.phase \in {"answer", "vanished"}
  BY DEF Answer, Vanished, SafetyInv, TypeInv, TypeOK
<1>2. DistinctIds(q.batch) /\ StoredTold(q, store.log)
  BY <1>1 DEF ReceiptInv, SlotTold
<1>3. store.rev = Len(store.log)
  BY DEF SafetyInv, Consistent, ExplainedByLog
<1>4. \A i \in DOMAIN q.receipts :
        /\ q.receipts[i].rev <= store.rev
        /\ AppliedTold(q.receipts[i], store.log, q.account)
        /\ DuplicateTold(q.receipts[i], store.log)
  BY <1>2, <1>3 DEF StoredTold
<1>5. CASE Reply(r, "ok", q.receipts, store, AccessOf(q.account))
  BY <1>1, <1>4, <1>5, ReplyTold
<1>6. CASE GoTo(r, "vanished")
  <2> DEFINE p == [q EXCEPT !.phase = "vanished"]
  <2>1. /\ p.phase = "vanished" /\ p.batch = q.batch /\ p.receipts = q.receipts
        /\ p.account = q.account /\ req' = [req EXCEPT ![r] = p]
    BY <1>1, <1>6 DEF GoTo, RequestRecord
  <2> HIDE DEF p
  <2>2. SlotTold(p, store.log)
    BY <1>2, <2>1 DEF SlotTold, StoredTold, Drafting, Restoring
  <2> QED BY <1>1, <2>1, <2>2, OwnSlotTold
<1>7. CASE \E why : why # "ok" /\ Reply(r, why, q.receipts, EmptySnapshot,
                                        AccessOf(q.account))
  BY <1>1, <1>4, <1>7, ReplyTold
<1>8. CASE Answer(r)
  BY <1>5, <1>6, <1>8 DEF Answer
<1>9. CASE Vanished(r)
  BY <1>7, <1>9 DEF Vanished
<1> QED BY <1>8, <1>9

\* A restore stores ids of entries it does not take back.
LEMMA RestoreStepTold ==
  ASSUME SafetyInv, TypeInv', ReceiptInv, NEW r \in Request,
         LoadRestore(r) \/ SwapRestore(r)
  PROVE  ReceiptInv'
<1> DEFINE q == req[r]
<1>1. /\ TypeInv /\ q \in RequestRecord /\ q.phase \in {"restore", "restoreSwap"}
      /\ req \in [Request -> RequestRecord]
  BY DEF LoadRestore, SwapRestore, SafetyInv, TypeInv, TypeOK
<1>2. DistinctIds(q.batch) /\ Told(q.draft.ledger, q.draft.log)
  BY <1>1 DEF ReceiptInv, SlotTold, Restoring
<1>3. CASE LoadRestore(r)
  <2>1. UnchangedStore
    BY <1>3 DEF LoadRestore
  <2>2. CASE GoTo(r, "restoreSwap")
    <3> DEFINE p == [q EXCEPT !.phase = "restoreSwap"]
    <3>1. /\ p.phase = "restoreSwap" /\ p.batch = q.batch /\ p.draft = q.draft
          /\ req' = [req EXCEPT ![r] = p]
      BY <1>1, <2>2 DEF GoTo, RequestRecord
    <3> HIDE DEF p
    <3>2. SlotTold(p, store.log)
      BY <1>2, <3>1 DEF SlotTold, Drafting, Restoring
    <3> QED BY <1>1, <2>1, <3>1, <3>2, OwnSlotTold
  <2>3. CASE Reply(r, "notRestored", << >>, EmptySnapshot, AccessOf(q.account))
    BY <1>1, <2>1, <2>3, RefusalTold
  <2> QED BY <1>3, <2>2, <2>3 DEF LoadRestore
<1>4. CASE SwapRestore(r) /\ SwapWins(r, {"owner"})
  <2> DEFINE p == [Idle EXCEPT !.phase = "replied", !.account = q.account,
                     !.batch = q.batch, !.result = "restored",
                     !.receipts = << >>, !.draft = EmptySnapshot,
                     !.access = AccessOf(q.account)]
  <2>1. /\ p.phase = "replied" /\ p.batch = q.batch /\ p.receipts = << >>
        /\ req' = [req EXCEPT ![r] = p] /\ backup' = backup
    BY <1>4 DEF SwapRestore, Reply, Idle
  <2> HIDE DEF p
  <2>2. store' = q.draft /\ Continues(q.draft.log, store.log)
    <3>1. /\ q.phase \in {"swap", "restoreSwap"} /\ store.rev = q.base.rev
          /\ store' = Install(store, q.base, q.draft)
      BY <1>4 DEF SwapRestore, SwapWins
    <3> QED BY <3>1, WinningSwap
  <2>3. SlotTold(p, store'.log)
    BY <1>2, <2>1 DEF SlotTold, AnswerTold, Drafting, Restoring
  <2>4. store' \in Snapshot
    BY DEF TypeInv, TypeOK
  <2> QED BY <1>1, <1>2, <2>1, <2>2, <2>3, <2>4, OneSlotTold
<1>5. CASE SwapRestore(r) /\ ~SwapWins(r, {"owner"})
  <2>1. /\ UnchangedStore
        /\ Reply(r, "notRestored", << >>, EmptySnapshot, AccessOf(q.account))
    BY <1>5 DEF SwapRestore, UnchangedStore
  <2> QED BY <1>1, <2>1, RefusalTold
<1> QED BY <1>3, <1>4, <1>5

\* The first steps of a request hold no receipts yet.
LEMMA FirstStepTold ==
  ASSUME TypeInv, ReceiptInv, NEW r \in Request,
         Authenticate(r) \/ Admit(r) \/ RefusalRead(r)
  PROVE  ReceiptInv'
<1> DEFINE q == req[r]
<1>1. q \in RequestRecord /\ UnchangedStore /\ DistinctIds(q.batch)
  BY DEF TypeInv, TypeOK, Authenticate, Admit, RefusalRead, ReceiptInv, SlotTold
<1>2. CASE Authenticate(r)
  BY <1>1, <1>2, GoToTold, RefusalTold DEF Authenticate
<1>3. CASE Admit(r)
  <2> DEFINE p == [q EXCEPT !.phase = "load", !.basis = BasisOf(q.batch, q.account)]
  <2>1. CASE req' = [req EXCEPT ![r] = p]
    <3>1. p.phase = "load" /\ p.batch = q.batch
      BY <1>1 DEF RequestRecord
    <3> HIDE DEF p
    <3>2. SlotTold(p, store.log)
      BY <1>1, <3>1 DEF SlotTold, Drafting, Restoring
    <3> QED BY <1>1, <2>1, <3>2, OwnSlotTold
  <2>2. CASE \E why, snapshot, acc : why # "ok" /\ Reply(r, why, << >>, snapshot, acc)
    BY <1>1, <2>2, RefusalTold
  <2>3. CASE \E why, snapshot, acc : why # "ok" /\
               Reply(r, why, AllRejected(q.batch, store.rev), snapshot, acc)
    BY <1>1, <2>3, RefusalTold
  <2> QED BY <1>3, <2>1, <2>2, <2>3 DEF Admit
<1>4. CASE RefusalRead(r)
  <2> DEFINE why == Failure(AccessOf(q.account), q.basis)
             result == IF why = "ok" THEN "revoked" ELSE why
  <2>1. /\ result # "ok"
        /\ Reply(r, result, AllRejected(q.batch, 0), EmptySnapshot,
                 AccessOf(q.account))
    BY <1>4 DEF RefusalRead
  <2> HIDE DEF result
  <2> QED BY <1>1, <2>1, RefusalTold
<1> QED BY <1>2, <1>3, <1>4

\* Every step of the server leaves true receipts true and sends only true ones.
LEMMA NextTold ==
  ASSUME \A batch \in Batch : DistinctIds(batch),
         SafetyInv, ReceiptInv, [Next]_vars
  PROVE  ReceiptInv'
<1>0. TypeInv /\ TypeInv'
  BY NextType DEF SafetyInv
<1>1. ASSUME NEW r \in Request, Handle(r)
      PROVE  ReceiptInv'
  BY <1>0, <1>1, FirstStepTold, LoadTold, ApplyNextTold, FinishBatchTold, SwapTold,
     RecheckTold, AnswerStepTold, RestoreStepTold DEF Handle
<1>2. ASSUME NEW r \in Request, SwapPaused(r)
      PROVE  ReceiptInv'
  BY <1>0, <1>2, RefusalTold DEF SwapPaused
<1>3. ASSUME NEW r \in Request, Close(r)
      PROVE  ReceiptInv'
  <2>1. SlotTold(Idle, store.log)
    BY DEF Idle, SlotTold, DistinctIds, Drafting, Restoring
  <2> QED BY <1>0, <1>3, <2>1, OwnSlotTold DEF Close
<1>4. CASE Export
  BY <1>4 DEF Export, ReceiptInv
<1>5. CASE UNCHANGED <<store, backup, req>>
  BY <1>5 DEF ReceiptInv
<1> QED BY <1>0, <1>1, <1>2, <1>3, <1>4, <1>5, ArriveTold DEF Next, vars

\* As long as no client sends a command twice in one batch, every receipt is
\* true when it is sent and stays true: an "applied" one (synchronize) names its
\* entry in the stored log although the swap came after it, a "duplicate" one
\* (wasApplied, authorizationReceipts) an entry already stored, and the snapshot
\* of the answer is not older than its receipts.
THEOREM ReceiptsStayTrue ==
  ASSUME \A batch \in Batch : DistinctIds(batch)
  PROVE  Spec => []ReceiptsAreTrue
<1>1. SafetyInv /\ ReceiptInv /\ [Next]_vars => ReceiptInv'
  BY NextTold
<1>2. ReceiptInv => ReceiptsAreTrue
  BY DEF ReceiptInv, SlotTold, AnswerTold, AppliedTold, DuplicateTold,
         ReceiptsAreTrue
<1> QED BY <1>1, <1>2, InitTold, Safety, PTL DEF Spec
=============================================================================
