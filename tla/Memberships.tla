---------------------------- MODULE Memberships ----------------------------
(***************************************************************************)
(* What owners, members and administrators do to the access of a           *)
(* workspace.  A request r carries who asks (by), about whom (of), where   *)
(* (at), and the database as its caller saw it (seen), from which its      *)
(* expected revisions come.  May... is what a handler requires, in the     *)
(* statements it commits; the operator after it is what they leave.        *)
(***************************************************************************)
EXTENDS UsageLimits

AccessSeen(d, r) == d.access[r.at] = r.seen.access[r.at]

MembershipSeen(d, r, u) ==
  d.membershipRevision[u] = r.seen.membershipRevision[u]

OwnerAsks(d, r) == Live(d, r.at) /\ Owns(d, r.at, r.by)

\* An administrator changes access from the control plane, without being a
\* member.
AdminAsks(d, r) == Live(d, r.at) /\ ActiveAdmin(d, r.by)

\* Mutation of KeepsOwner: owners who are not active count.
KeepsAnyOwner(d, w, u) ==
  Owns(d, w, u) => \E v \in Account \ {u} : d.role[w][v] = "owner"

\* A workspace keeps an active owner; an inactive one does not count.
KeepsOwner(d, w, u) ==
  Owns(d, w, u) => ActiveOwners(d, w) \ {u} # {}

MayOwnMore(d, u) == Active(d, u) /\ Cardinality(OwnedBy(d, u)) < OwnerLimit

-----------------------------------------------------------------------------
(* initializeOwnedWorkspace: the first synchronization of a device workspace. *)

MayInitialize(d, r) ==
  /\ d.phase[r.at] = "absent"
  /\ MayJoin(d, r.by)
  /\ AllocationAllowed(d, r.by, r.bytes, r.seen.clock)

Initialized(d, r) ==
  LET stored == [d EXCEPT !.phase[r.at] = "live", !.bytes[r.at] = r.bytes,
                          !.custodian[r.at] = r.by]
  IN WithRole(WithCreation(stored, "workspace", r.by, r.seen.clock),
              r.at, r.by, "owner")

(* changeWorkspaceMemberRole, member.role *)

MemberSeen(d, r) ==
  /\ AccessSeen(d, r) /\ MembershipSeen(d, r, r.of)
  /\ d.role[r.at][r.of] # "none"

MayChangeRole(d, r) ==
  /\ OwnerAsks(d, r) \/ AdminAsks(d, r)
  /\ MemberSeen(d, r)
  /\ d.role[r.at][r.of] # r.role
  /\ r.role = "owner" => MayOwnMore(d, r.of)
  /\ KeepsOwner(d, r.at, r.of)

RoleChanged(d, r) == WithRole(d, r.at, r.of, r.role)

(* A member goes: removeWorkspaceMember, leaveWorkspace, member.remove *)

MayGo(d, r) == MemberSeen(d, r) /\ KeepsOwner(d, r.at, r.of)

OwnerRemoves(d, r) == OwnerAsks(d, r) /\ r.by # r.of /\ MayGo(d, r)

Leaves(d, r) ==
  Live(d, r.at) /\ r.by = r.of /\ Active(d, r.by) /\ MayGo(d, r)

AdminRemoves(d, r) == AdminAsks(d, r) /\ MayGo(d, r)

MayRemoveMember(d, r) ==
  OwnerRemoves(d, r) \/ Leaves(d, r) \/ AdminRemoves(d, r)

MemberRemoved(d, r) == WithRole(d, r.at, r.of, "none")

(* transferWorkspaceOwnership: one statement changes both members. *)

MayTransfer(d, r) ==
  /\ OwnerAsks(d, r)
  /\ AccessSeen(d, r)
  /\ MembershipSeen(d, r, r.by) /\ MembershipSeen(d, r, r.of)
  /\ d.role[r.at][r.of] \notin {"none", "owner"}
  /\ MayOwnMore(d, r.of)

Transferred(d, r) ==
  WithRole(WithRole(d, r.at, r.by, "editor"), r.at, r.of, "owner")

(* takeAdminWorkspaceOwnership *)

MayTakeOwnership(d, r) ==
  /\ AdminAsks(d, r)
  /\ AccessSeen(d, r)
  /\ d.role[r.at][r.by] # "owner"
  /\ MayOwnMore(d, r.by)
  /\ d.role[r.at][r.by] = "none" =>
       /\ Cardinality(Members(d, r.at)) < MemberLimit
       /\ MayJoin(d, r.by)

OwnershipTaken(d, r) == WithRole(d, r.at, r.by, "owner")

-----------------------------------------------------------------------------
(* createWorkspaceGuestLink *)

MayCreateLink(d, r) ==
  /\ OwnerAsks(d, r)
  /\ AccessSeen(d, r)
  /\ d.link[r.item].state = "absent"
  /\ Cardinality(LinksOf(d, r.at)) < LinkLimit
  /\ LinkAllowed(d, r.by, r.seen.clock)

LinkCreated(d, r) ==
  [WithCreation(d, "link", r.by, r.seen.clock)
     EXCEPT !.link[r.item] = [of |-> r.at, by |-> r.by, role |-> r.role,
                              expired |-> FALSE, state |-> "unused"],
            !.access[r.at] = @ + 1]

(* revokeWorkspaceGuestLink, guest.revoke *)

MayRevokeLink(d, r) ==
  /\ Usable(d, r.item) /\ d.link[r.item].of = r.at
  /\ \/ OwnerAsks(d, r) /\ AccessSeen(d, r)
     \/ AdminAsks(d, r)

LinkRevoked(d, r) == WithLinkState(d, {r.item}, "revoked")

(* guest.delete: the row is still as it was read. *)

MayDeleteLink(d, r) ==
  /\ ActiveAdmin(d, r.by)
  /\ r.item \in LinksOf(d, r.at)
  /\ d.link[r.item].state = r.seen.link[r.item].state

LinkDeleted(d, r) == WithLinkState(d, {r.item}, "gone")

(* consumeGuestLink: the link is read first, with the time that decides     *)
(* whether it has expired, and consumed afterwards.                         *)

\* Mutation of MayRedeem: the link is consumed as it was read.
MayRedeemAsRead(d, r) ==
  /\ Usable(r.seen, r.item) /\ d.link[r.item].of = r.at
  /\ Live(d, r.at)
  /\ RedemptionAllowed(d, r.seen.clock)
  /\ d.role[r.at][r.by] = "none"
  /\ Cardinality(Members(d, r.at)) < MemberLimit
  /\ MayJoin(d, r.by)

MayRedeem(d, r) ==
  /\ Usable(r.seen, r.item) /\ Live(r.seen, r.at)
  /\ d.link[r.item].state = "unused" /\ d.link[r.item].of = r.at
  /\ Live(d, r.at)
  /\ RedemptionAllowed(d, r.seen.clock)
  /\ d.role[r.at][r.by] = "none"
  /\ Cardinality(Members(d, r.at)) < MemberLimit
  /\ MayJoin(d, r.by)

Redeemed(d, r) ==
  WithRole(WithLinkState(d, {r.item}, "used"),
           r.at, r.by, d.link[r.item].role)

-----------------------------------------------------------------------------
(* deleteServerWorkspace, deleteAdminWorkspace: links, then members, then   *)
(* the snapshot with its custody.  The tombstone keeps the revision of      *)
(* access after all of them.                                                *)

OwnerDeletes(d, r) ==
  OwnerAsks(d, r) /\ MembershipSeen(d, r, r.by) /\ AccessSeen(d, r)

AdminDeletes(d, r) == AdminAsks(d, r) /\ AccessSeen(d, r)

MayDeleteWorkspace(d, r) == OwnerDeletes(d, r) \/ AdminDeletes(d, r)

WorkspaceDeleted(d, r) ==
  LET members == Members(d, r.at)
      unlinked == WithLinkState(d, LinksOf(d, r.at), "gone")
  IN [unlinked EXCEPT
        !.phase[r.at] = "deleted", !.custodian[r.at] = Nobody,
        !.bytes[r.at] = 0,
        !.role[r.at] = [u \in Account |-> "none"],
        !.membershipRevision = [u \in Account |->
                                  @[u] + IF u \in members THEN 1 ELSE 0],
        !.access[r.at] = @ + Cardinality(members) + 1]
=============================================================================
