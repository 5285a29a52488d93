-------------------------- MODULE HistoryRetention --------------------------
(***************************************************************************)
(* compactWorkspaceHistory: how the server keeps the history of a snapshot *)
(* within its limits after every accepted command.  A history holds the    *)
(* activities (what each command changed), the audit events (what each     *)
(* undo or redo was about), both oldest first, and the receipts: ids of    *)
(* commands whose activity or audit event is gone.  A command, its         *)
(* activity and its audit event have the same id here.                     *)
(***************************************************************************)
EXTENDS Integers, Sequences, FiniteSets, SequencesExt, Picking

CONSTANTS
  ActivityLimit, PatchLimit, AuditLimit, ReceiptLimit,
  SizeLimit     \* serializedBytes, less what the inventory itself takes

ASSUME RetentionAssumption ==
  {ActivityLimit, PatchLimit, AuditLimit, ReceiptLimit, SizeLimit}
    \subseteq Nat \ {0}

EmptyHistory == [activities |-> << >>, audit |-> << >>, receipts |-> << >>]

IdsOf(entries) == [i \in DOMAIN entries |-> entries[i].id]

Without(entries, gone) ==
  Picked(entries, {i \in DOMAIN entries : entries[i].id \notin gone})

Removable(entries, kept) ==
  IdsOf(Without(entries, kept))

\* The ids of the entries that are gone, in order.
Dropped(entries, gone) ==
  IdsOf(Picked(entries, {i \in DOMAIN entries : entries[i].id \in gone}))

First(ids, n) == {ids[i] : i \in 1..n}

\* All patches of the activities, counted by place.
PatchesIn(activities) ==
  Cardinality(UNION {{i} \X DOMAIN activities[i].patches : i \in DOMAIN activities})

TargetsIn(audit) == FoldLeft(LAMBDA n, e : n + Len(e.targets), 0, audit)

\* serializedBytes, in units that keep its order: an entry outweighs the
\* receipt that takes its place.
Size(h) ==
  2 * (Len(h.activities) + Len(h.audit)) + PatchesIn(h.activities)
    + TargetsIn(h.audit) + Len(h.receipts)

-----------------------------------------------------------------------------
\* The receipts end with the newest; those beyond the limit are forgotten.
WithReceipts(h, ids) ==
  LET new == Picked(ids, {i \in DOMAIN ids : ~ Contains(h.receipts, ids[i])})
      all == h.receipts \o new
  IN [h EXCEPT !.receipts =
        SubSeq(all, 1 + Max({0, Len(all) - ReceiptLimit}), Len(all))]

\* normalizeAudit: an event names only activities that still exist, and one
\* without any is gone.
TrimmedAudit(audit, kept) ==
  LET Kept(e) == Picked(e.targets, {i \in DOMAIN e.targets : e.targets[i] \in kept})
      left == [i \in DOMAIN audit |-> [audit[i] EXCEPT !.targets = Kept(audit[i])]]
  IN Picked(left, {i \in DOMAIN audit : left[i].targets # << >>})

WithoutActivities(h, gone) ==
  LET activities == Without(h.activities, gone)
      audit == TrimmedAudit(h.audit, ToSet(IdsOf(activities)))
      lost == Dropped(h.activities, gone)
                \o Removable(h.audit, ToSet(IdsOf(audit)))
  IN IF gone = {} THEN h
     ELSE WithReceipts([h EXCEPT !.activities = activities, !.audit = audit],
                       lost)

WithoutAudits(h, gone) ==
  WithReceipts([h EXCEPT !.audit = Without(@, gone)],
               Dropped(h.audit, gone))

WithoutReceipts(h, gone) ==
  [h EXCEPT !.receipts = Picked(@, {i \in DOMAIN @ : @[i] \notin gone})]

\* minimalRemovalCount: as few of the oldest as it takes, or all of them.
Shortened(h, ids, Drop(_, _)) ==
  LET fits == {n \in 1..Len(ids) :
                 Size(Drop(h, First(ids, n))) <= SizeLimit}
  IN IF ids = << >> \/ Size(h) <= SizeLimit THEN h
     ELSE Drop(h, First(ids, IF fits = {} THEN Len(ids) ELSE Min(fits)))

\* compactBytes: audit events first, then activities, then receipts, of which
\* the newest stays.
CompactSize(h, acts, audits) ==
  LET h1 == Shortened(h, Removable(h.audit, audits), WithoutAudits)
      h2 == Shortened(h1, Removable(h1.activities, acts), WithoutActivities)
  IN Shortened(h2, SubSeq(h2.receipts, 1, Len(h2.receipts) - 1),
               WithoutReceipts)

\* Mutation of Overflowing: one activity more than it takes.
OverflowingEarly(h, acts) ==
  LET ids == Removable(h.activities, acts)
      enough == {n \in 0..Len(ids) :
        LET kept == Without(h.activities, First(ids, n)) IN
        Len(kept) < ActivityLimit /\ PatchesIn(kept) <= PatchLimit}
  IN First(ids, IF enough = {} THEN Len(ids) ELSE Min(enough))

\* The oldest removable activities, until both limits hold.
Overflowing(h, acts) ==
  LET ids == Removable(h.activities, acts)
      enough == {n \in 0..Len(ids) :
        LET kept == Without(h.activities, First(ids, n)) IN
        Len(kept) <= ActivityLimit /\ PatchesIn(kept) <= PatchLimit}
  IN First(ids, IF enough = {} THEN Len(ids) ELSE Min(enough))

\* The activities acts and the audit events audits are protected: the command
\* just accepted may not lose them.
Compacted(h, acts, audits) ==
  LET h1 == WithReceipts(h, << >>)
      h2 == WithoutActivities(h1, Overflowing(h1, acts))
      old == Removable(h2.audit, audits)
      over == Min({Len(old), Max({0, Len(h2.audit) - AuditLimit})})
      h3 == WithoutAudits(h2, First(old, over))
  IN CompactSize(h3, acts, audits)
=============================================================================
