----------------------------- MODULE AccessOrder -----------------------------
(***************************************************************************)
(* src/domain/workspace-access.ts: the access a device remembers for its   *)
(* copy of a server workspace, and which of two such memories is the newer *)
(* one.  Catalog pages, sync answers and other tabs deliver them in any    *)
(* order.  One signed-in account; the write capability stands for all.     *)
(***************************************************************************)
EXTENDS ServerAccess

Statuses    == {"active", "revoked", "deleted", "unknown"}
LocalAccess == [m : Nat, a : Nat, status : Statuses, role : Roles,
                write : BOOLEAN]

Rank(r) == CASE r = "owner" -> 3 [] r = "editor" -> 2
             [] r = "viewer" -> 1 [] OTHER -> 0

\* capabilitiesForWorkspaceRole in an answer that grants access.
Granted(acc) ==
  [m |-> acc.m, a |-> acc.a, status |-> "active", role |-> acc.role,
   write |-> acc.role \in Writers]

\* refusedAccess: the rows as read, and no capability to write.
Refused(acc) ==
  [m |-> acc.m, a |-> acc.a, role |-> acc.role, write |-> FALSE,
   status |-> CASE acc.deleted -> "deleted"
                [] ~acc.deleted /\ acc.role = "none" -> "revoked"
                [] OTHER -> IF acc.active THEN "active" ELSE "unknown"]

\* inaccessibleWorkspaceAccess: an answer 404 says nothing about the rows.
Inaccessible(known) ==
  [known EXCEPT !.status = "unknown", !.role = "none", !.write = FALSE]

\* Mutation of ShouldApply: only the access revision is compared.
ShouldApplyByAccess(current, candidate) ==
  IF candidate.a # current.a THEN candidate.a > current.a
  ELSE candidate.write => current.write

\* shouldApplyWorkspaceAccess: counters first; at equal counters only a loss
\* of status, role or capability is news.
ShouldApply(current, candidate) ==
  CASE candidate.m # current.m -> candidate.m > current.m
    [] candidate.m = current.m /\ candidate.a # current.a ->
         candidate.a > current.a
    [] candidate.m = current.m /\ candidate.a = current.a
         /\ candidate.status # current.status -> current.status = "active"
    [] OTHER ->
         IF candidate.role # current.role
         THEN \/ candidate.role = "none"
              \/ current.role # "none" /\ Rank(candidate.role) < Rank(current.role)
         ELSE candidate.write => current.write

Newer(current, candidate) ==
  IF ShouldApply(current, candidate) THEN candidate ELSE current
=============================================================================
