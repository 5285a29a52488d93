---------------------------- MODULE AccountStore ----------------------------
(***************************************************************************)
(* The server database of accounts and workspace access: users, sessions,  *)
(* identities, workspaces, members, custody and guest links.  A database   *)
(* is a record; the operators below are what a statement does to it, with  *)
(* what the triggers of the schema do in the same statement.  A handler    *)
(* commits one batch of statements, which happens at once or not at all.   *)
(* Time is counted in ticks.                                               *)
(***************************************************************************)
EXTENDS Integers, FiniteSets, Sequences

CONSTANTS
  Account, Workspace, Link, Session, Identity,
  SignIn,          \* OAuth transactions
  Nobody,          \* no account
  Nothing,         \* no session, identity or sign-in
  OwnerLimit,      \* ownedWorkspacesPerUser: workspaces owned, or in custody
  MemberLimit,     \* membersPerWorkspace
  MembershipLimit, \* workspaces an account is a member of
  LinkLimit,       \* guest links of a workspace
  IdentityLimit    \* linkedIdentitiesPerAccount

ASSUME StoreAssumption ==
  /\ Nobody \notin Account
  /\ Nothing \notin Session \cup Identity \cup SignIn
  /\ {OwnerLimit, MembershipLimit, LinkLimit, IdentityLimit} \subseteq Nat
  /\ MemberLimit \in Nat \ {0}

\* Rows are finitely many.
ASSUME FiniteAssumption ==
  /\ IsFiniteSet(Account) /\ IsFiniteSet(Workspace) /\ IsFiniteSet(Link)
  /\ IsFiniteSet(Session) /\ IsFiniteSet(Identity)

AccountOrNobody == Account \cup {Nobody}

\* "deleted" is a disabled user with a deleted_at; "absent" is no row.
Status == {"absent", "active", "disabled", "banned", "deleted"}

Phase == {"absent", "live", "deleted"}

MemberRole == {"none", "viewer", "editor", "owner"}

\* A link is unused until it is used or revoked; a deleted link is gone, with
\* the row.  It may expire in any state.
GuestLink == [of : Workspace, by : AccountOrNobody,
              role : {"viewer", "editor"}, expired : BOOLEAN,
              state : {"absent", "unused", "used", "revoked", "gone"}]

\* identity_ban_digests: the account whose ban wrote the digest last, and
\* whether that ban was lifted since.
Digest == [source : AccountOrNobody, lifted : BOOLEAN]

\* via is the sign-in that issued the session at that time; a session that is
\* not live was revoked.  Its end is when it was revoked, or will expire.
SessionRow == [of : AccountOrNobody, live : BOOLEAN, via : SignIn \cup {Nothing},
               at : Int, end : Int]

NoSession == [of |-> Nobody, live |-> FALSE, via |-> Nothing, at |-> 0, end |-> 0]

\* An OAuth transaction: begun (open), claimed by the first callback, which
\* learns the identity from the provider, resolved to an account, and done.
\* A transaction that links an identity remembers the session it began in.
OAuth == [state : {"absent", "open", "expired", "claimed", "resolved", "done"},
          session : Session \cup {Nothing}, user : AccountOrNobody,
          identity : Identity \cup {Nothing}]

\* A circuit is paused until it is opened, or, for security, until it resumes;
\* again: it was paused before.
Circuit == {"new accounts", "new workspaces", "guest links",
            "guest redemptions", "snapshot growth"}

Breaker == [paused : BOOLEAN, resume : SUBSET Int, again : BOOLEAN]

\* The times at which something was created, in the order of the rows, and which
\* of the rows are kept; accounts are counted for the installation, which is
\* Nobody.
Creations == [at : Seq(Int), kept : SUBSET Nat]

Ledger == [{"account", "workspace", "link", "session"} ->
             [AccountOrNobody -> Creations]]

Database ==
  [status : [Account -> Status], admin : [Account -> BOOLEAN],
   accountRevision : [Account -> Nat], membershipRevision : [Account -> Nat],
   identity : [Identity -> AccountOrNobody], digest : [Identity -> Digest],
   session : [Session -> SessionRow], oauth : [SignIn -> OAuth],
   phase : [Workspace -> Phase], access : [Workspace -> Nat],
   custodian : [Workspace -> AccountOrNobody],
   role : [Workspace -> [Account -> MemberRole]],
   link : [Link -> GuestLink],
   clock : Nat, bytes : [Workspace -> Nat], ledger : Ledger,
   circuit : [Circuit -> Breaker], accountsPerDay : Nat]

-----------------------------------------------------------------------------
(* What the statements look up. *)

Active(d, u) == u \in Account /\ d.status[u] = "active"

ActiveAdmin(d, u) == Active(d, u) /\ d.admin[u]

ActiveAdmins(d) == {u \in Account : ActiveAdmin(d, u)}

Live(d, w) == d.phase[w] = "live"

Owns(d, w, u) == Active(d, u) /\ d.role[w][u] = "owner"

ActiveOwners(d, w) == {u \in Account : Owns(d, w, u)}

Members(d, w) == {u \in Account : d.role[w][u] # "none"}

MemberOf(d, u) == {w \in Workspace : d.role[w][u] # "none"}

OwnedBy(d, u) == {w \in Workspace : d.role[w][u] = "owner"}

CustodyOf(d, u) == {w \in Workspace : d.custodian[w] = u}

IdentitiesOf(d, u) == {i \in Identity : d.identity[i] = u}

Usable(d, l) == d.link[l].state = "unused" /\ ~ d.link[l].expired

LinksOf(d, w) ==
  {l \in Link : d.link[l].of = w /\ d.link[l].state \notin {"absent", "gone"}}

Ended(d, x, at) == ~ d.session[x].live \/ d.session[x].end <= at

SessionLive(d, x, u) == d.session[x].of = u /\ ~ Ended(d, x, d.clock)

SignedIn(d, u) == \E x \in Session : SessionLive(d, x, u)

Banned(d, i) == d.digest[i].source # Nobody /\ ~ d.digest[i].lifted

-----------------------------------------------------------------------------
(* Statements with their triggers. *)

\* Every change of a member counts for the user and for the workspace.
WithRole(d, w, u, r) ==
  [d EXCEPT !.role[w][u] = r, !.membershipRevision[u] = @ + 1,
            !.access[w] = @ + 1]

\* Mutation of WithStatus: the workspaces of the account keep their revision.
WithStatusQuietly(d, u, s) ==
  [d EXCEPT !.status[u] = s, !.accountRevision[u] = @ + 1,
            !.membershipRevision[u] = @ + 1]

\* A change of status counts for the account, and for every workspace it is a
\* member of.
WithStatus(d, u, s) ==
  [d EXCEPT !.status[u] = s, !.accountRevision[u] = @ + 1,
            !.membershipRevision[u] = @ + 1,
            !.access = [w \in Workspace |->
                          @[w] + IF w \in MemberOf(d, u) THEN 1 ELSE 0]]

WithAdmin(d, u, yes) ==
  [d EXCEPT !.admin[u] = yes,
            !.accountRevision[u] = @ + IF d.admin[u] # yes THEN 1 ELSE 0]

WithIdentity(d, i, u) ==
  [d EXCEPT !.identity[i] = u, !.accountRevision[u] = @ + 1]

WithoutIdentities(d, u) ==
  [d EXCEPT !.identity = [i \in Identity |-> IF @[i] = u THEN Nobody ELSE @[i]],
            !.accountRevision[u] = @ + Cardinality(IdentitiesOf(d, u))]

WithLinkState(d, L, s) ==
  [d EXCEPT !.link = [l \in Link |->
                        IF l \in L THEN [@[l] EXCEPT !.state = s] ELSE @[l]],
            !.access = [w \in Workspace |->
                          @[w] + Cardinality({l \in L : d.link[l].of = w})]]

LinksRevoked(d, u) ==
  WithLinkState(d, {l \in Link : d.link[l].by = u /\ Usable(d, l)}, "revoked")

SessionsRevoked(d, X) ==
  [d EXCEPT !.session = [x \in Session |->
     IF x \in X /\ ~ Ended(d, x, d.clock)
     THEN [@[x] EXCEPT !.live = FALSE, !.end = d.clock] ELSE @[x]]]

SessionsOf(d, u) == {x \in Session : d.session[x].of = u}

\* workspace_members_delete_revisions, for every workspace of the account.
WithoutMemberships(d, u) ==
  [d EXCEPT !.role = [w \in Workspace |-> [@[w] EXCEPT ![u] = "none"]],
            !.membershipRevision[u] = @ + Cardinality(MemberOf(d, u)),
            !.access = [w \in Workspace |->
                          @[w] + IF w \in MemberOf(d, u) THEN 1 ELSE 0]]

-----------------------------------------------------------------------------
(* Triggers that abort a batch. *)

\* Mutation of LastAdmin: administrators who are not active count.
LastAdminOfAll(d, u) == {v \in Account : d.admin[v]} = {u}

\* users_last_admin_role_guard, users_last_admin_status_guard.
LastAdmin(d, u) == ActiveAdmins(d) = {u}

\* finalOwnedWorkspaceBlockers: the workspaces the account owns that no other
\* active account owns.
FinallyOwned(d, u) ==
  {w \in OwnedBy(d, u) : Live(d, w) /\ ActiveOwners(d, w) \subseteq {u}}

\* users_final_owner_status_guard: an active account that is the only active
\* owner of a workspace stays active.
FinalOwner(d, u) == \E w \in Workspace : ActiveOwners(d, w) = {u}

\* workspace_members_account_quota_guard.
MayJoin(d, u) == Active(d, u) /\ Cardinality(MemberOf(d, u)) < MembershipLimit
=============================================================================
