-------------------------- MODULE WorkspaceCommands --------------------------
(***************************************************************************)
(* What a workspace snapshot and a queued command are, and what applying   *)
(* one to the other does.  The device (src/client) and the server          *)
(* (src/server) run the same applyCommand of src/domain, so both are       *)
(* modelled with these operators.                                          *)
(*                                                                         *)
(* Data is abstracted to what the properties tell apart.  A snapshot holds *)
(* one value per Field (a field of one item, location or plan), its        *)
(* revision and the ledger of command ids it remembers (its activities,    *)
(* audit events and compact receipts, oldest first).  A command is the     *)
(* envelope that travels: its id, the fields it sets, the values it        *)
(* expects to find, the revision it was made at and the authorization      *)
(* basis it was made under.                                                *)
(*                                                                         *)
(* A snapshot also carries its log: every entry that ever made it what it  *)
(* is.  The program keeps no such thing (compaction prunes activities); it *)
(* is a history variable that no action reads and every property does.     *)
(***************************************************************************)
EXTENDS Integers, Sequences, FiniteSets

CONSTANTS
  Account,      \* the signed-in accounts
  Edit,         \* globally unique command ids
  Field,        \* the fields of the workspace
  Value,        \* what a field may hold
  Blank,        \* the value of a field nobody has set
  Restored,     \* the id of a log entry made by a backup restore
  NoBasis,      \* the basis of a command queued before server backup
  LedgerLimit,  \* how many of the newest command ids a snapshot remembers
  RecordQuota   \* how many set fields a snapshot may grow to

ASSUME CommandAssumption ==
  /\ Blank \in Value
  /\ Restored \notin Edit
  /\ NoBasis \notin [m : Nat, a : Nat]
  /\ LedgerLimit \in Nat \ {0}
  /\ RecordQuota \in Nat

Basis    == [m : Nat, a : Nat]
Partial  == UNION {[D -> Value] : D \in SUBSET Field}
Envelope == [id : Edit, sets : Partial, expect : Partial, base : Nat,
             basis : Basis \cup {NoBasis}]
Entry    == [id : Edit \cup {Restored}, by : Account, sets : Partial,
             expect : Partial]
Snapshot == [rev : Nat, val : [Field -> Value], ledger : Seq(Edit),
             log : Seq(Entry)]

Receipt  == [id : Edit, status : {"applied", "duplicate", "rejected"},
             rev : Nat]

EmptySnapshot ==
  [rev |-> 0, val |-> [f \in Field |-> Blank], ledger |-> << >>, log |-> << >>]

\* wasApplied: the ledger is the only memory of what was applied.
WasApplied(s, id) == \E i \in DOMAIN s.ledger : s.ledger[i] = id

\* expectationConflicts: a field no longer holds what the command expects.
Conflicts(s, c) == {f \in DOMAIN c.expect : s.val[f] # c.expect[f]}

\* A command that would leave everything as it is throws NO_CHANGES.
ChangesSomething(s, c) == \E f \in DOMAIN c.sets : s.val[f] # c.sets[f]

\* Mutation of CanApply: expectations are not looked at.
CanApplyBlindly(s, c) == ChangesSomething(s, c)

\* applyCommand does not throw, the revision check aside.
CanApply(s, c) == Conflicts(s, c) = {} /\ ChangesSomething(s, c)

Overwrite(val, sets) ==
  [f \in Field |-> IF f \in DOMAIN sets THEN sets[f] ELSE val[f]]

ApplyCommand(s, c, who) ==
  [rev    |-> s.rev + 1,
   val    |-> Overwrite(s.val, c.sets),
   ledger |-> Append(s.ledger, c.id),
   log    |-> Append(s.log, [id |-> c.id, by |-> who, sets |-> c.sets,
                             expect |-> c.expect])]

\* A snapshot computed from base replaces the stored one, s.  What it added to
\* the log of base is added to the log that really happened.
Install(s, base, draft) ==
  [draft EXCEPT !.log = s.log \o SubSeq(@, Len(base.log) + 1, Len(@))]

\* Mutation of Newest: one id fewer is remembered.
NewestButOne(ids) ==
  IF Len(ids) < LedgerLimit THEN ids
  ELSE SubSeq(ids, Len(ids) - LedgerLimit + 2, Len(ids))

\* compactWorkspaceHistory forgets the oldest ids and never the newest one.
Newest(ids) ==
  IF Len(ids) <= LedgerLimit THEN ids
  ELSE SubSeq(ids, Len(ids) - LedgerLimit + 1, Len(ids))

Compact(s) == [s EXCEPT !.ledger = Newest(s.ledger)]

Usage(s) == Cardinality({f \in Field : s.val[f] # Blank})

\* assertSnapshotWithinQuotas: over quota is refused only when it also grew.
WithinQuota(before, after) ==
  Usage(after) <= RecordQuota \/ Usage(after) <= Usage(before)

(***************************************************************************)
(* What synchronize does with one command of a batch: done commands before *)
(* it have their receipts, start is the revision the batch began at.       *)
(***************************************************************************)

\* The command is based on a revision the batch cannot have produced.
Ahead(draft, c, start, done) == c.base > draft.rev /\ c.base > start + done

\* Mutation of Verdict: nothing is a duplicate.
VerdictForgetful(draft, c, start, done, who) ==
  IF ~Ahead(draft, c, start, done) /\ CanApply(draft, c)
  THEN "applied" ELSE "rejected"

Verdict(draft, c, start, done, who) ==
  CASE WasApplied(draft, c.id) -> "duplicate"
    [] /\ ~WasApplied(draft, c.id)
       /\ ~Ahead(draft, c, start, done)
       /\ CanApply(draft, c)
       /\ WithinQuota(draft, ApplyCommand(draft, c, who)) -> "applied"
    [] OTHER -> "rejected"

AfterVerdict(draft, c, verdict, who) ==
  IF verdict = "applied" THEN Compact(ApplyCommand(draft, c, who)) ELSE draft

ReceiptOf(c, verdict, after) == [id |-> c.id, status |-> verdict, rev |-> after.rev]

(***************************************************************************)
(* What a log says, without recursion: the value of field f after the      *)
(* first n entries is the one set by the last of them that sets f.         *)
(***************************************************************************)
ValueAfter(log, n, f, v) ==
  \/ /\ v = Blank
     /\ \A i \in 1..n : f \notin DOMAIN log[i].sets
  \/ \E i \in 1..n :
       /\ f \in DOMAIN log[i].sets
       /\ log[i].sets[f] = v
       /\ \A j \in (i+1)..n : f \notin DOMAIN log[j].sets

\* The snapshot is exactly what its log says, entry by entry.
ExplainedByLog(s) ==
  /\ s.rev = Len(s.log)
  /\ \A f \in Field : ValueAfter(s.log, Len(s.log), f, s.val[f])

\* Every accepted entry found what its author expected when it was applied.
ExpectationsHeld(s) ==
  \A k \in DOMAIN s.log : \A f \in DOMAIN s.log[k].expect :
    ValueAfter(s.log, k - 1, f, s.log[k].expect[f])

RestoredWithin(log, i, j) == \E k \in i..j : log[k].id = Restored

\* An id is accepted again only after the ledger has forgotten it: more than
\* LedgerLimit entries later, or across a backup restore.
OnceWithinWindow(s) ==
  \A i, j \in DOMAIN s.log :
    (i < j /\ s.log[i].id = s.log[j].id /\ s.log[i].id # Restored)
      => j - i > LedgerLimit \/ RestoredWithin(s.log, i, j)

\* The newest LedgerLimit entries since the last restore are all remembered.
LedgerCoversWindow(s) ==
  \A i \in DOMAIN s.log :
    (Len(s.log) - i < LedgerLimit /\ ~RestoredWithin(s.log, i, Len(s.log)))
      => /\ Len(s.ledger) > Len(s.log) - i
         /\ s.ledger[Len(s.ledger) - (Len(s.log) - i)] = s.log[i].id

Consistent(s) ==
  /\ ExplainedByLog(s)
  /\ ExpectationsHeld(s)
  /\ OnceWithinWindow(s)
  /\ LedgerCoversWindow(s)

\* Log t starts with all of log s.
Continues(t, s) ==
  Len(s) <= Len(t) /\ \A i \in 1..Len(s) : s[i] = t[i]
=============================================================================
