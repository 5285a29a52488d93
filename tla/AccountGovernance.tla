------------------------- MODULE AccountGovernance -------------------------
(***************************************************************************)
(* What administrators, and an account itself, do to an account: global    *)
(* role, status, bans, identities, sessions and deletion.  Requests are    *)
(* those of Memberships: who asks (by), about whom (of), the session or    *)
(* identity meant (item), and the database its caller saw (seen).          *)
(***************************************************************************)
EXTENDS UsageLimits

AccountSeen(d, r) == d.accountRevision[r.of] = r.seen.accountRevision[r.of]

Exists(d, u) == d.status[u] \notin {"absent", "deleted"}

\* An active account may stop being active unless it is the last
\* administrator or the last owner of a workspace.
MayStop(d, u) == Active(d, u) => ~ LastAdmin(d, u) /\ ~ FinalOwner(d, u)

(* changeGlobalRole *)

MayPromote(d, r) ==
  /\ ActiveAdmin(d, r.by) /\ AccountSeen(d, r)
  /\ Active(d, r.of) /\ ~ d.admin[r.of]

Promoted(d, r) ==
  SessionsRevoked(WithAdmin(d, r.of, TRUE), SessionsOf(d, r.of))

MayDemote(d, r) ==
  /\ ActiveAdmin(d, r.by) /\ AccountSeen(d, r)
  /\ Exists(d, r.of) /\ d.admin[r.of] /\ ~ LastAdmin(d, r.of)

Demoted(d, r) ==
  SessionsRevoked(WithAdmin(d, r.of, FALSE), SessionsOf(d, r.of))

(* changeAccountStatus *)

MayDisable(d, r) ==
  /\ ActiveAdmin(d, r.by) /\ AccountSeen(d, r)
  /\ Active(d, r.of) /\ MayStop(d, r.of)

Disabled(d, r) ==
  SessionsRevoked(LinksRevoked(WithStatus(d, r.of, "disabled"), r.of),
                  SessionsOf(d, r.of))

\* An account whose ban left digests behind stays disabled.
RetainsDigests(d, u) == \E i \in Identity : d.digest[i].source = u

MayEnable(d, r) ==
  /\ ActiveAdmin(d, r.by) /\ AccountSeen(d, r)
  /\ d.status[r.of] = "disabled" /\ ~ RetainsDigests(d, r.of)

Enabled(d, r) == WithStatus(d, r.of, "active")

-----------------------------------------------------------------------------
(* banAccount: the digest of each identity names the account, whatever it   *)
(* named before; a digest the account already has is enforced again.        *)

MayBan(d, r) ==
  /\ ActiveAdmin(d, r.by) /\ AccountSeen(d, r)
  /\ d.status[r.of] \in {"active", "disabled"} /\ ~ d.admin[r.of]
  /\ MayStop(d, r.of)
  /\ (IdentitiesOf(d, r.of) # {} \/ RetainsDigests(r.seen, r.of))

Enforced(d, u) ==
  [d EXCEPT !.digest = [i \in Identity |->
     IF d.identity[i] = u \/ @[i].source = u
     THEN [source |-> u, lifted |-> FALSE] ELSE @[i]]]

BanPlaced(d, r) ==
  LET stopped == WithStatus(Enforced(d, r.of), r.of, "banned")
  IN SessionsRevoked(LinksRevoked(WithoutIdentities(stopped, r.of), r.of),
                     SessionsOf(d, r.of))

(* liftAccountBan *)

MayLift(d, r) ==
  /\ ActiveAdmin(d, r.by) /\ AccountSeen(d, r)
  /\ d.status[r.of] = "banned"

BanLifted(d, r) ==
  WithStatus([d EXCEPT !.digest = [i \in Identity |->
                IF @[i].source = r.of THEN [@[i] EXCEPT !.lifted = TRUE] ELSE @[i]]],
             r.of, "disabled")

(* bootstrapGlobalAdmin: only while nobody administers the installation. *)

MayBootstrap(d, r) ==
  Active(d, r.by) /\ ~ d.admin[r.by] /\ ActiveAdmins(d) = {}

Bootstrapped(d, r) == WithAdmin(d, r.by, TRUE)

(* recoverGlobalAdmin: every other session of an administrator ends. *)

MayRecover(d, r) == Active(d, r.by) /\ SessionLive(d, r.item, r.by)

Recovered(d, r) ==
  LET promoted == WithAdmin(d, r.by, TRUE)
  IN SessionsRevoked(promoted,
       {x \in Session \ {r.item} :
          \E u \in Account : promoted.admin[u] /\ d.session[x].of = u})

(* revokeAccountSession, revokeCurrentSession, session.revoke *)

MayRevokeSession(d, r) ==
  /\ SessionLive(d, r.item, r.of)
  /\ \/ r.by = r.of /\ Active(d, r.by) /\ SignedIn(d, r.by)
     \/ ActiveAdmin(d, r.by)

SessionEnded(d, r) == SessionsRevoked(d, {r.item})

(* identity.unlink *)

MayUnlink(d, r) ==
  /\ ActiveAdmin(d, r.by)
  /\ d.identity[r.item] = r.of
  /\ IdentitiesOf(d, r.of) \ {r.item} # {}

Unlinked(d, r) ==
  [d EXCEPT !.identity[r.item] = Nobody, !.accountRevision[r.of] = @ + 1]

-----------------------------------------------------------------------------
(* executeAccountDeletion: prepareAccountDeletion chooses, from what it     *)
(* reads, who takes custody of each workspace; the batch checks again what  *)
(* it assumed, and no more.                                                 *)

\* With what it has, the recipient stays within its limits.
Receives(d, plan, u) ==
  LET given == {w \in DOMAIN plan : plan[w] = u} IN
  /\ Cardinality(CustodyOf(d, u)) + Cardinality(given) <= OwnerLimit
  /\ Stored(d, u) + BytesOf(d, given) <= ByteLimit

\* A plan is a function from the workspaces in custody to other owners.  The
\* code takes the first owner with room; here, any owner with room.
CustodyPlan(d, u) ==
  {plan \in [CustodyOf(d, u) -> Account \ {u}] :
     \A w \in CustodyOf(d, u) :
       /\ Owns(d, w, plan[w])
       /\ Receives(d, plan, plan[w])}

\* prepareAccountDeletion: a deletion is asked for with a plan made for it, when
\* nothing the account holds alone stands in its way.
Prepared(d, u) ==
  IF Active(d, u) /\ ~ d.admin[u] /\ FinallyOwned(d, u) = {}
  THEN CustodyPlan(d, u) ELSE {}

\* custodyGuard, and workspace_custody_transfer_guard.
PlanHolds(d, plan) ==
  \A w \in DOMAIN plan : Owns(d, w, plan[w]) /\ Receives(d, plan, plan[w])

MayDeleteAccount(d, r) ==
  /\ Active(d, r.by) /\ ~ d.admin[r.by] /\ ~ FinalOwner(d, r.by)
  /\ d.accountRevision[r.by] = r.seen.accountRevision[r.by]
  /\ d.membershipRevision[r.by] = r.seen.membershipRevision[r.by]
  /\ PlanHolds(d, r.plan)

\* The ledger names a deleted account no more.
Forgotten(d, u) ==
  [d EXCEPT !.ledger = [what \in DOMAIN @ |-> [@[what] EXCEPT ![u].kept = {}]]]

\* What a deleted account held: sessions, links, identities, memberships.
Erased(d, u) ==
  LET unlinked == LinksRevoked(SessionsRevoked(d, SessionsOf(d, u)), u)
  IN Forgotten(WithoutMemberships(WithoutIdentities(unlinked, u), u), u)

AccountDeleted(d, r) ==
  LET stopped == WithStatus(d, r.by, "deleted")
      handed == [stopped EXCEPT !.custodian = [w \in Workspace |->
                   IF w \in DOMAIN r.plan /\ @[w] = r.by THEN r.plan[w] ELSE @[w]]]
  IN Erased(handed, r.by)
=============================================================================
