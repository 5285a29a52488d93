------------------------------- MODULE EditLog -------------------------------
(***************************************************************************)
(* What the server promises about one backed-up workspace: a log of        *)
(* accepted entries that only ever grows, in atomic groups, each group     *)
(* appended by one account that may write at that very moment; every entry *)
(* finds what its author expected, and no id enters twice within the       *)
(* replay window.  Requests, retries, snapshots, receipts and revision     *)
(* counters are how SyncServer keeps this promise.                         *)
(***************************************************************************)
EXTENDS WorkspaceCommands

VARIABLES
  log,      \* the accepted entries, oldest first
  role,     \* the role of each account, "none" for no membership
  active,   \* the account may sign in
  deleted   \* the workspace is gone for good

vars == <<log, role, active, deleted>>

TypeOK ==
  /\ log \in Seq(Entry)
  /\ role \in [Account -> {"owner", "editor", "viewer", "none"}]
  /\ active \in [Account -> BOOLEAN]
  /\ deleted \in BOOLEAN

Init ==
  /\ log = << >>
  /\ role \in [Account -> {"owner", "editor", "viewer", "none"}]
  /\ active = [a \in Account |-> TRUE]
  /\ deleted = FALSE

\* Account a appends edits: all of them or none.
Edits(a) ==
  /\ role[a] \in {"owner", "editor"}
  /\ \A k \in (Len(log) + 1)..Len(log') :
       /\ log'[k].id # Restored
       /\ log'[k].by = a
       /\ \A f \in DOMAIN log'[k].expect :
            ValueAfter(log', k - 1, f, log'[k].expect[f])
       /\ \A i \in 1..(k - 1) :
            log'[i].id = log'[k].id
              => k - i > LedgerLimit \/ RestoredWithin(log', i, k)

\* Owner a replaces every field by what a backup holds.
Restore(a) ==
  /\ role[a] = "owner"
  /\ Len(log') = Len(log) + 1
  /\ log'[Len(log')].id = Restored
  /\ log'[Len(log')].by = a
  /\ DOMAIN log'[Len(log')].sets = Field

Commit ==
  /\ ~deleted
  /\ Len(log') > Len(log)
  /\ Continues(log', log)
  /\ \E a \in Account : active[a] /\ (Edits(a) \/ Restore(a))
  /\ UNCHANGED <<role, active, deleted>>

\* Access changes as they like, but nobody undoes a deletion.
ChangeAccess ==
  /\ deleted => deleted' /\ role' = role
  /\ deleted' => \A a \in Account : role'[a] = "none"
  /\ UNCHANGED log

Next == Commit \/ ChangeAccess

Spec == Init /\ [][Next]_vars
=============================================================================
