---------------------------- MODULE ServerAccess ----------------------------
(***************************************************************************)
(* Who may do what with one workspace, as the server's rows say it, and    *)
(* how those rows change.  Any change of a membership or of an account's   *)
(* status advances the account's membership revision and the workspace's   *)
(* access revision (the triggers of migration 0005); a guest link only     *)
(* advances the latter, another workspace's membership only the former.    *)
(* The routes that write these rows are a component of their own; here     *)
(* they are reduced to what they can do to one workspace's access.         *)
(***************************************************************************)
EXTENDS WorkspaceCommands

CONSTANTS
  InitialRole,           \* who may do what when the workspace is backed up
  MaxAccessRevision,     \* bound on the access changes of the workspace
  MaxMembershipRevision  \* bound on the membership changes of an account

Roles   == {"owner", "editor", "viewer", "none"}
Writers == {"owner", "editor"}
Access  == [active : BOOLEAN, deleted : BOOLEAN, role : Roles,
            m : Nat, a : Nat]

ASSUME AccessAssumption ==
  /\ InitialRole \in [Account -> Roles]
  /\ MaxAccessRevision \in Nat
  /\ MaxMembershipRevision \in Nat

VARIABLES
  role,      \* workspace_members.role, "none" without a row
  active,    \* users.status = 'active'
  deleted,   \* the workspace_deletions tombstone exists
  mrev,      \* users.membership_revision, one counter for all workspaces
  arev       \* workspace_snapshots.access_revision

access == <<role, active, deleted, mrev, arev>>

AccessTypeOK ==
  /\ role \in [Account -> Roles]
  /\ active \in [Account -> BOOLEAN]
  /\ deleted \in BOOLEAN
  /\ mrev \in [Account -> Nat]
  /\ arev \in Nat

AccessInit ==
  /\ role = InitialRole
  /\ active = [a \in Account |-> TRUE]
  /\ deleted = FALSE
  /\ mrev = [a \in Account |-> 0]
  /\ arev = 0

-----------------------------------------------------------------------------
(* Reading the rows. *)

\* loadAuthorized finds a row.
CanRead(a) == active[a] /\ ~deleted /\ role[a] # "none"

\* What loadAuthorization reads.  Once the tombstone exists the snapshot and
\* the member rows are gone, and with them the access revision.
AccessOf(a) ==
  [active |-> active[a], deleted |-> deleted, role |-> role[a],
   m |-> mrev[a], a |-> IF deleted THEN 0 ELSE arev]

CurrentBasis(a) == [m |-> mrev[a], a |-> arev]

\* The basis still names one of the two current counters.
BasisHolds(basis, acc) == basis.m = acc.m \/ basis.a = acc.a

\* authorizationFailure, in the order it checks; "ok" is no failure.
Failure(acc, basis) ==
  CASE ~acc.active -> "inactive"
    [] acc.active /\ acc.deleted -> "deleted"
    [] acc.active /\ ~acc.deleted /\ acc.role = "none" -> "revoked"
    [] acc.active /\ ~acc.deleted /\ acc.role = "viewer" -> "write"
    [] OTHER -> IF BasisHolds(basis, acc) THEN "ok" ELSE "stale"

\* Mutation of MayCommit: the access found when the request was admitted is
\* trusted.
MayCommitAsAdmitted(a, basis, roles) == ~deleted

\* The condition of compareAndSwapAuthorized on everything but the revision.
MayCommit(a, basis, roles) ==
  ~deleted /\ active[a] /\ role[a] \in roles /\ BasisHolds(basis, AccessOf(a))

-----------------------------------------------------------------------------
(* Changing the rows. *)

\* A member row is inserted, its role changed, or it is deleted.  The final
\* active owner stays.
SetRole(a, to) ==
  /\ ~deleted /\ role[a] # to
  /\ arev < MaxAccessRevision /\ mrev[a] < MaxMembershipRevision
  /\ role' = [role EXCEPT ![a] = to]
  /\ \E b \in Account : active[b] /\ role'[b] = "owner"
  /\ mrev' = [mrev EXCEPT ![a] = @ + 1]
  /\ arev' = arev + 1
  /\ UNCHANGED <<active, deleted>>

\* An administrator disables or re-enables an account.
SetActive(a) ==
  /\ arev < MaxAccessRevision /\ mrev[a] < MaxMembershipRevision
  /\ active' = [active EXCEPT ![a] = ~@]
  /\ ~deleted => \E b \in Account : active'[b] /\ role[b] = "owner"
  /\ mrev' = [mrev EXCEPT ![a] = @ + 1]
  /\ arev' = IF role[a] = "none" THEN arev ELSE arev + 1
  /\ UNCHANGED <<role, deleted>>

\* A guest link of this workspace is issued, revoked or deleted.
ChangeGuestLink ==
  /\ ~deleted /\ arev < MaxAccessRevision
  /\ arev' = arev + 1
  /\ UNCHANGED <<role, active, deleted, mrev>>

\* The account's membership of some other workspace changes.
ChangeOtherMembership(a) ==
  /\ mrev[a] < MaxMembershipRevision
  /\ mrev' = [mrev EXCEPT ![a] = @ + 1]
  /\ UNCHANGED <<role, active, deleted, arev>>

\* An owner deletes the workspace: tombstone, member rows and snapshot in one
\* transaction.
DeleteWorkspace(a) ==
  /\ CanRead(a) /\ role[a] = "owner"
  /\ \A b \in Account : mrev[b] < MaxMembershipRevision
  /\ deleted' = TRUE
  /\ mrev' = [b \in Account |-> IF role[b] = "none" THEN mrev[b]
                                ELSE mrev[b] + 1]
  /\ role' = [b \in Account |-> "none"]
  /\ UNCHANGED <<active, arev>>

ChangeAccess ==
  \/ \E a \in Account :
       \/ \E to \in Roles : SetRole(a, to)
       \/ SetActive(a)
       \/ ChangeOtherMembership(a)
       \/ DeleteWorkspace(a)
  \/ ChangeGuestLink
=============================================================================
