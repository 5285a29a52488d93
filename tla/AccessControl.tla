--------------------------- MODULE AccessControl ---------------------------
(***************************************************************************)
(* Accounts and workspace access together: every operation of Memberships, *)
(* AccountGovernance and SignInFlow on one database.  A handler reads the  *)
(* database, decides, and commits one batch of guarded statements; other   *)
(* handlers may commit between its read and its batch.  A handler has read *)
(* the database as it is, or as it was at one earlier moment (seen), less  *)
(* than an hour ago.                                                       *)
(***************************************************************************)
EXTENDS Memberships, AccountGovernance, SignInFlow

CONSTANTS
  Scopes,  \* bounds: where a behaviour starts, which operations may happen in
           \* it, how many of them may be accepted, until when, and the
           \* circuits that administrators set
  Sizes    \* of snapshots

VARIABLES
  db,    \* the database
  seen,  \* the database that slow handlers read, some time ago
  done,  \* operations accepted so far
  scope

vars == <<db, seen, done, scope>>

-----------------------------------------------------------------------------
(* Requests of handlers that read d: what was asked, and by whom. *)

Ask(ops) == ops \cap scope.operations

\* A new row gets an identifier nobody uses, whichever.
Unused(free) == IF free = {} THEN {} ELSE {CHOOSE x \in free : TRUE}

\* Who may ask: active accounts that are signed in.
Callers(d) == {u \in Account : Active(d, u) /\ SignedIn(d, u)}

MembershipRequests(d) ==
  [op : Ask({"take ownership", "delete workspace"}),
   by : Callers(d), at : Workspace, seen : {d}]
  \cup
  [op : Ask({"store"}), by : Callers(d), at : Workspace, bytes : Sizes, seen : {d}]
  \cup
  [op : Ask({"initialize"}), by : Callers(d), bytes : Sizes, seen : {d},
   at : Unused({w \in Workspace : d.phase[w] = "absent"})]
  \cup
  [op : Ask({"change role"}), by : Callers(d), of : Account, at : Workspace,
   role : {"viewer", "editor", "owner"}, seen : {d}]
  \cup
  [op : Ask({"remove member", "transfer"}), by : Callers(d), of : Account,
   at : Workspace, seen : {d}]
  \cup
  [op : Ask({"create link"}), by : Callers(d), at : Workspace,
   item : Unused({l \in Link : d.link[l].state = "absent"}),
   role : {"viewer", "editor"}, seen : {d}]
  \cup
  [op : Ask({"revoke link", "delete link", "redeem"}), by : Callers(d),
   at : Workspace, item : Link, seen : {d}]

AccountRequests(d) ==
  [op : Ask({"promote", "demote", "disable", "enable", "ban", "lift"}),
   by : Callers(d), of : Account, seen : {d}]
  \cup
  [op : Ask({"set circuit"}), by : Callers(d), circuit : scope.circuits,
   pause : {"none", "security", "capacity"}, seen : {d}]
  \cup
  [op : Ask({"set limit"}), by : Callers(d), limit : {0, 1}, seen : {d}]
  \cup
  [op : Ask({"recover"}), by : Callers(d), item : Session, seen : {d}]
  \cup
  [op : Ask({"revoke session"}), by : Callers(d), of : Account, item : Session,
   seen : {d}]
  \cup
  [op : Ask({"unlink"}), by : Callers(d), of : Account, item : Identity,
   seen : {d}]
  \cup
  UNION {[op : Ask({"delete account"}), by : {u}, plan : Prepared(d, u),
          seen : {d}] : u \in Callers(d)}

\* These come before, or without, a session.
SignInRequests(d) ==
  [op : Ask({"bootstrap"}), by : Account, seen : {d}]
  \cup
  [op : Ask({"begin"}), by : Account, session : Session \cup {Nothing},
   item : Unused({t \in SignIn : Stage(db, t) = "absent"}), seen : {d}]
  \cup
  [op : Ask({"claim"}), item : SignIn, identity : Identity, seen : {d}]
  \cup
  [op : Ask({"recognize", "link"}), item : SignIn, seen : {d}]
  \cup
  [op : Ask({"enroll"}), item : SignIn, of : Account, seen : {d}]
  \cup
  [op : Ask({"issue"}), item : SignIn,
   session : Unused({x \in Session : db.session[x].of = Nobody}), seen : {d}]

-----------------------------------------------------------------------------
(* One batch each: its statements take effect together, or not at all. *)

Commit(after) ==
  /\ done < scope.depth
  /\ done' = done + 1
  /\ db' = after
  /\ UNCHANGED <<seen, scope>>

Initialize(r) ==
  r.op = "initialize" /\ MayInitialize(db, r) /\ Commit(Initialized(db, r))

ChangeRole(r) ==
  r.op = "change role" /\ MayChangeRole(db, r) /\ Commit(RoleChanged(db, r))

RemoveMember(r) ==
  r.op = "remove member" /\ MayRemoveMember(db, r) /\ Commit(MemberRemoved(db, r))

Transfer(r) ==
  r.op = "transfer" /\ MayTransfer(db, r) /\ Commit(Transferred(db, r))

TakeOwnership(r) ==
  r.op = "take ownership" /\ MayTakeOwnership(db, r) /\ Commit(OwnershipTaken(db, r))

CreateLink(r) ==
  r.op = "create link" /\ MayCreateLink(db, r) /\ Commit(LinkCreated(db, r))

RevokeLink(r) ==
  r.op = "revoke link" /\ MayRevokeLink(db, r) /\ Commit(LinkRevoked(db, r))

DeleteLink(r) ==
  r.op = "delete link" /\ MayDeleteLink(db, r) /\ Commit(LinkDeleted(db, r))

Redeem(r) ==
  r.op = "redeem" /\ MayRedeem(db, r) /\ Commit(Redeemed(db, r))

DeleteWorkspace(r) ==
  /\ r.op = "delete workspace"
  /\ MayDeleteWorkspace(db, r)
  /\ Commit(WorkspaceDeleted(db, r))

Store(r) ==
  r.op = "store" /\ MayStore(db, r) /\ Commit(SnapshotStored(db, r))

Membership(r) ==
  \/ Initialize(r) \/ CreateLink(r)
  \/ ChangeRole(r) \/ RemoveMember(r) \/ Transfer(r) \/ TakeOwnership(r)
  \/ RevokeLink(r) \/ DeleteLink(r) \/ Redeem(r) \/ DeleteWorkspace(r)
  \/ Store(r)

Promote(r) ==
  r.op = "promote" /\ MayPromote(db, r) /\ Commit(Promoted(db, r))

Demote(r) ==
  r.op = "demote" /\ MayDemote(db, r) /\ Commit(Demoted(db, r))

Disable(r) ==
  r.op = "disable" /\ MayDisable(db, r) /\ Commit(Disabled(db, r))

Enable(r) ==
  r.op = "enable" /\ MayEnable(db, r) /\ Commit(Enabled(db, r))

Ban(r) ==
  r.op = "ban" /\ MayBan(db, r) /\ Commit(BanPlaced(db, r))

Lift(r) ==
  r.op = "lift" /\ MayLift(db, r) /\ Commit(BanLifted(db, r))

Bootstrap(r) ==
  r.op = "bootstrap" /\ MayBootstrap(db, r) /\ Commit(Bootstrapped(db, r))

Recover(r) ==
  r.op = "recover" /\ MayRecover(db, r) /\ Commit(Recovered(db, r))

RevokeSession(r) ==
  r.op = "revoke session" /\ MayRevokeSession(db, r) /\ Commit(SessionEnded(db, r))

Unlink(r) ==
  r.op = "unlink" /\ MayUnlink(db, r) /\ Commit(Unlinked(db, r))

DeleteAccount(r) ==
  r.op = "delete account" /\ MayDeleteAccount(db, r) /\ Commit(AccountDeleted(db, r))

SetCircuit(r) ==
  r.op = "set circuit" /\ MaySetCircuit(db, r) /\ Commit(CircuitSet(db, r))

SetLimit(r) ==
  r.op = "set limit" /\ MaySetLimit(db, r) /\ Commit(LimitSet(db, r))

Governance(r) ==
  \/ Promote(r) \/ Demote(r) \/ Disable(r) \/ Enable(r) \/ Ban(r) \/ Lift(r)
  \/ Recover(r) \/ RevokeSession(r) \/ Unlink(r)
  \/ DeleteAccount(r) \/ SetCircuit(r) \/ SetLimit(r)

Begin(r) ==
  r.op = "begin" /\ MayBegin(db, r) /\ Commit(Begun(db, r))

Claim(r) ==
  r.op = "claim" /\ MayClaim(db, r) /\ Commit(Claimed(db, r))

Recognize(r) ==
  r.op = "recognize" /\ MayRecognize(db, r) /\ Commit(Recognized(db, r))

LinkIdentity(r) ==
  r.op = "link" /\ MayLink(db, r) /\ Commit(IdentityLinked(db, r))

Enroll(r) ==
  r.op = "enroll" /\ MayEnroll(db, r) /\ Commit(Enrolled(db, r))

Issue(r) ==
  r.op = "issue" /\ MayIssue(db, r) /\ Commit(Issued(db, r))

SigningIn(r) ==
  \/ Bootstrap(r) \/ Begin(r) \/ Claim(r) \/ Recognize(r) \/ LinkIdentity(r) \/ Enroll(r)
  \/ Issue(r)

-----------------------------------------------------------------------------
(* What every database satisfies, from the first batch to the last.  The      *)
(* databases that behaviours start from do.                                   *)

\* A live workspace has an active owner.
Owned(d) == \A w \in Workspace : Live(d, w) => ActiveOwners(d, w) # {}

\* An account that is not active has neither a live session nor a link that can
\* still be used; a deleted one no membership and no identity either, and an
\* account that was never opened no membership.
HoldsNothing(d, u) ==
  /\ \A x \in Session : ~ SessionLive(d, x, u)
  /\ \A l \in Link : d.link[l].by = u => ~ Usable(d, l)
  /\ d.status[u] = "deleted" => MemberOf(d, u) = {} /\ IdentitiesOf(d, u) = {}
  /\ d.status[u] = "absent" => MemberOf(d, u) = {}

\* A live workspace is charged to one account and has members within their
\* limit; one that is not live has neither members nor links.
AccountedFor(d, w) ==
  /\ Live(d, w) <=> d.custodian[w] # Nobody
  /\ Live(d, w) <=> Members(d, w) # {}
  /\ Cardinality(Members(d, w)) <= MemberLimit
  /\ ~ Live(d, w) => LinksOf(d, w) = {}

WithinLimits(d, u) ==
  Cardinality(CustodyOf(d, u)) <= OwnerLimit /\ Stored(d, u) <= ByteLimit

LiveSessionsOf(d, u) == {x \in Session : SessionLive(d, x, u)}

Deleted(d, u) == u \in Account /\ d.status[u] = "deleted"

\* The rows that a budget may still count are kept, until the account goes.
Remembered(d, what, u) ==
  LET rows == d.ledger[what][u] IN
  /\ rows.kept \subseteq DOMAIN rows.at
  /\ \A n \in DOMAIN rows.at :
       /\ rows.at[n] <= d.clock
       /\ rows.at[n] > d.clock - Grace - WindowTicks /\ ~ Deleted(d, u) =>
            n \in rows.kept

Consistent(d) ==
  /\ d \in Database
  /\ Owned(d)
  /\ \A w \in Workspace : AccountedFor(d, w)
  /\ Remembered(d, "account", Nobody)
  /\ \A u \in Account :
       /\ ~ Active(d, u) => HoldsNothing(d, u)
       /\ WithinLimits(d, u)
       /\ Cardinality(LiveSessionsOf(d, u)) <= SessionLimit
       /\ \A what \in {"workspace", "link", "session"} : Remembered(d, what, u)

ASSUME ScopesAssumption ==
  /\ Sizes \subseteq Nat
  /\ \A s \in Scopes :
       Consistent(s.start) /\ s.depth \in Nat /\ s.circuits \subseteq Circuit

-----------------------------------------------------------------------------
Init ==
  /\ scope \in Scopes
  /\ db = scope.start
  /\ seen = db
  /\ done = 0

\* A handler has read the database as it is, or as it was less than an hour ago.
Views == {db} \cup {d \in {seen} : Fresh(db, d.clock)}

Serve ==
  \E d \in Views :
    \/ \E r \in MembershipRequests(d) : Membership(r)
    \/ \E r \in AccountRequests(d) : Governance(r)
    \/ \E r \in SignInRequests(d) : SigningIn(r)

Look == seen # db /\ seen' = db /\ UNCHANGED <<db, done, scope>>

Tick ==
  /\ db.clock < scope.until
  /\ db' = [db EXCEPT !.clock = @ + 1]
  /\ UNCHANGED <<seen, done, scope>>

\* Several handlers clean up first, and go on when that fails.
Clean ==
  /\ "clean" \in scope.operations
  /\ db' = Cleaned(db)
  /\ UNCHANGED <<seen, done, scope>>

ExpireLink ==
  \E l \in Link :
    /\ "expire" \in scope.operations
    /\ Usable(db, l)
    /\ db' = [db EXCEPT !.link[l].expired = TRUE]
    /\ UNCHANGED <<seen, done, scope>>

ExpireSignIn ==
  \E t \in SignIn :
    /\ "expire" \in scope.operations
    /\ Stage(db, t) = "open"
    /\ db' = [db EXCEPT !.oauth[t].state = "expired"]
    /\ UNCHANGED <<seen, done, scope>>

Next == Serve \/ Look \/ Tick \/ Clean \/ ExpireLink \/ ExpireSignIn

Spec == Init /\ [][Next]_vars

-----------------------------------------------------------------------------
(* Properties. *)

\* The variables have their types.
TypeOK ==
  /\ db \in Database
  /\ seen \in Database
  /\ done \in 0..scope.depth
  /\ scope \in Scopes

\* A live workspace keeps an active owner, whatever owners, administrators and
\* the owners' own accounts do at once: the guards of workspace-access.ts and
\* admin.ts and users_final_owner_status_guard decide in the batch.
OwnerRemains == Owned(db)

Administered(d, e) == ActiveAdmins(d) # {} => ActiveAdmins(e) # {}

\* An installation that has an active administrator keeps one: two of them
\* demoting, disabling or deleting each other do not both succeed.
AdminRemains == [][Administered(db, db')]_vars

\* What a caller decides by who expects an access revision: the members of the
\* workspace, whether they are active, and its links.
AccessOf(d, w) ==
  [role |-> d.role[w],
   active |-> {u \in Members(d, w) : Active(d, u)},
   link |-> [l \in LinksOf(d, w) |-> d.link[l].state]]

AccountOf(d, u) ==
  [status |-> d.status[u], admin |-> d.admin[u], identities |-> IdentitiesOf(d, u)]

\* A revision that is still what a handler read means that nothing it stands for
\* changed in between, so a batch guarded by it changes what its caller saw: the
\* triggers of 0005 and 0006 move the revisions with every change, also when an
\* account is stopped elsewhere.
RevisionsTell ==
  /\ \A w \in Workspace :
       db.access[w] = seen.access[w] => AccessOf(db, w) = AccessOf(seen, w)
  /\ \A u \in Account :
       /\ db.accountRevision[u] = seen.accountRevision[u] =>
            AccountOf(db, u) = AccountOf(seen, u)
       /\ db.membershipRevision[u] = seen.membershipRevision[u] =>
            \A w \in Workspace : db.role[w][u] = seen.role[w][u]

Invited(d, e) ==
  \A w \in Workspace, u \in Account :
    d.role[w][u] = "none" /\ e.role[w][u] # "none" =>
      \/ d.phase[w] = "absent" /\ e.phase[w] = "live"
      \/ ActiveAdmin(d, u) /\ e.role[w][u] = "owner"
      \/ \E l \in Link :
           /\ d.link[l].of = w /\ d.link[l].role = e.role[w][u]
           /\ d.link[l].state = "unused" /\ e.link[l].state = "used"
           /\ Members(e, w) = Members(d, w) \cup {u}

\* An account becomes a member by initializing the workspace, by taking it over
\* as an administrator, or by using up one link that was unused and is used
\* from then on; a link never lets two accounts in (consumeGuestLink).
MembersEnterByInvitation == [][Invited(db, db')]_vars

\* An account that is not active has no live session and no link that can still
\* be used, and a deleted one no membership and no identity either: also when
\* its sign-in, or its link, was under way while it was stopped.
InactiveHoldNothing == \A u \in Account : ~ Active(db, u) => HoldsNothing(db, u)

\* A live workspace is charged to one account and has members within their
\* limit; a workspace that is not live has neither members nor links, and is
\* charged to nobody; nobody is charged for more workspaces, or more bytes, than
\* its limits, though deletions of two accounts may hand custody to the same
\* one while its snapshots grow.
WorkspacesAccountedFor ==
  /\ \A w \in Workspace : AccountedFor(db, w)
  /\ \A u \in Account : WithinLimits(db, u)

Intended(d, e) ==
  \A i \in Identity :
    e.identity[i] \notin {d.identity[i], Nobody} =>
      /\ d.identity[i] = Nobody
      /\ \/ d.status[e.identity[i]] = "absent"
         \/ \E t \in SignIn :
              /\ d.oauth[t].identity = i
              /\ d.oauth[t].user = e.identity[i]
              /\ SessionLive(d, d.oauth[t].session, e.identity[i])

\* An identity is given to a new account, or to the account whose session asked
\* to link it and is live when the link is stored; it never passes from one
\* account to another in one step (createOrLinkUser).
IdentitiesFollowIntent == [][Intended(db, db')]_vars

\* No account creates more than its budget on any day, or within any window of
\* 30 days, though handlers may commit in another order than they began in and
\* the ledger forgets (creation_ledger and the triggers that write it).
BudgetsHold ==
  \A what \in {"workspace", "link", "session"}, u \in Account :
    LET times == db.ledger[what][u].at IN
    \A k \in DOMAIN times : k > Len(scope.start.ledger[what][u].at) =>
      /\ Cardinality({n \in DOMAIN times : DayOf(times[n]) = DayOf(times[k])})
           <= DayLimit[what]
      /\ Cardinality({n \in DOMAIN times : times[n] <= times[k]
                                            /\ times[n] > times[k] - WindowTicks})
           <= WindowLimit[what]

OpenNow(d, c) == CircuitOpen(d, c, d.clock)

AccountsUnpaused(d, e) ==
  \A u \in Account :
    d.status[u] = "absent" /\ e.status[u] # "absent" =>
      /\ OpenNow(d, "new accounts")
      /\ Created(e, "account", Nobody) # Created(d, "account", Nobody)
      /\ d.accountsPerDay > 0

WorkspacesUnpaused(d, e) ==
  \A w \in Workspace :
    /\ d.phase[w] = "absent" /\ Live(e, w) => OpenNow(d, "new workspaces")
    /\ Live(d, w) /\ e.bytes[w] > d.bytes[w] => OpenNow(d, "snapshot growth")

LinksUnpaused(d, e) ==
  \A l \in Link :
    /\ d.link[l].state = "absent" /\ e.link[l].state # "absent" =>
         OpenNow(d, "guest links")
    /\ d.link[l].state # "used" /\ e.link[l].state = "used" =>
         OpenNow(d, "guest redemptions")

Unpaused(d, e) ==
  AccountsUnpaused(d, e) /\ WorkspacesUnpaused(d, e) /\ LinksUnpaused(d, e)

\* What a paused circuit governs does not happen while it is paused, also when
\* the handler found it open; and a limit that was lowered holds for accounts
\* whose creation is under way (the refusals are asked before the batch).
PausesHold == [][Unpaused(db, db')]_vars

\* An account has at most SessionLimit live sessions, whatever order its
\* sign-ins commit in (sessions_public_issuance_ledger).
SessionsBounded ==
  \A u \in Account : Cardinality(LiveSessionsOf(db, u)) <= SessionLimit

\* An allocation refused for a while is not refused by the same budgets when
\* that while has passed and nothing was created in between.
RetryAfterIsEnough ==
  \A u \in Account :
    LET later == db.clock + RetryAfter(db, u, db.clock) IN
    DayWait(db, u, later) = {} /\ RollingWait(db, u, later) = {}

\* The custodian of a workspace is not a deleted account: api.md says the
\* deletion transaction rechecks every blocker, among them custody that cannot
\* be transferred.
DeletedHoldNoCustody ==
  \A u \in Account : db.status[u] = "deleted" => CustodyOf(db, u) = {}
=============================================================================
