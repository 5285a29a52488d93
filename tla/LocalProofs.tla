----------------------------- MODULE LocalProofs -----------------------------
(***************************************************************************)
(* What LocalWorkspaces keeps true for every set of accounts, workspaces,  *)
(* edits and tabs and every bound: the copy that is open is the one that   *)
(* is stored, an edit that was stored is never lost without the user       *)
(* giving it up, and none is uploaded by an account other than its         *)
(* author's.                                                               *)
(*                                                                         *)
(* None of the three is inductive alone.  What a late answer removes from  *)
(* an outbox must have reached the server (Requests), what a confirmed     *)
(* removal drops must be what the user saw (Dates), what a first backup    *)
(* uploads must be work of a device-only copy, and such a copy must not be *)
(* one of a workspace the server already knows (Copies).                   *)
(***************************************************************************)
EXTENDS LocalWorkspaces, PickingProofs, SequenceTheorems

(* The values of the variables. *)

Accounts      == Account \cup {Nobody}
Partial(S, T) == UNION {[D -> T] : D \in SUBSET S}

AnyAccess == [kind : {"device", "server"}, account : Accounts, m : Nat, a : Nat,
              status : {"active", "left", "revoked", "deleted", "unknown"},
              role : Roles, write : BOOLEAN]
Access == {acc \in AnyAccess : acc.kind = "server" => acc.account \in Account}
Basis  == [m : Nat, a : Nat]
Entry  == [id : Edit, account : Accounts, status : {"pending", "blocked"}, basis : Seq(Basis)]
Copy   == [state : SUBSET Edit, outbox : Seq(Entry), access : Access,
           summary : Seq(Access), stamp : Nat]
Row    == [m : Nat, a : Nat, role : Roles]
Cursor == [after : Workspace, m : Nat]
Rows   == Partial(Workspace, Row)
Listing == [entries : Rows, m : Nat, complete : BOOLEAN, next : Seq(Cursor)]
Db == [copies : Partial(Workspace, Copy), open : Partial(Workspace, Copy),
       catalogs : Partial(Accounts, Listing), account : Accounts, clock : Nat]
Board == [w : Workspace, data : Seq(Access), over : Seq(Access), kept : Seq(Access),
          ended : BOOLEAN]
TabState == [who : Accounts, status : {"checking", "available", "signedOut"},
             shown : Partial(Workspace, Copy), ended : Partial(Workspace, Access),
             read : Rows, panel : Seq(Board)]
Kinds == {"remove", "sync", "open", "list", "apply", "access", "leave", "delete", "transfer"}

\* What a call asks, and an answer says, by its kind.
Asks(kind, x) ==
  CASE kind = "remove" -> x \in [stamp : Nat, loses : SUBSET Edit]
    [] kind = "sync" -> x \in [batch : Seq(Entry), body : SUBSET Edit, known : Access]
    [] kind = "list" -> x \in [from : Seq(Cursor)]
    [] kind = "apply" -> x \in [entries : Rows, complete : BOOLEAN, m : Nat,
                                left : SUBSET Workspace]
    [] kind = "access" -> x \in [closed : BOOLEAN]
    [] kind \in {"leave", "delete", "transfer"} -> x.data \in Access
    [] OTHER -> TRUE
Says(kind, a) ==
  CASE kind = "sync" -> /\ a.access \in Access /\ a.access.kind = "server"
                        /\ a.accepted \in BOOLEAN
                        /\ a.accepted => a.state \subseteq Edit
    [] kind = "open" -> /\ a.state \subseteq Edit
                        /\ a.access \in Access /\ a.access.kind = "server"
    [] kind = "list" -> a \in [m : Nat, entries : Rows, next : Seq(Cursor)]
    [] kind = "access" -> a.access \in Access /\ a.access.kind = "server"
    [] kind \in {"leave", "transfer"} -> a.m \in Nat /\ a.a \in Nat
    [] kind = "delete" -> a.a \in Nat
    [] OTHER -> TRUE

\* A call, and the account it is for.
Results == {"none", "ok", "signedOut", "mismatch", "refused", "stale"}
IsCall(c) ==
  /\ c \in [kind : Kinds, tab : Tab, w : {c.w}, account : Accounts, cookie : Accounts,
            asked : {c.asked}, result : Results, answer : {c.answer}]
  /\ c.kind \notin {"list", "apply"} => c.w \in Workspace
  /\ c.kind # "remove" => c.account \in Account
  /\ Asks(c.kind, c.asked)
  /\ c.result = "ok" => Says(c.kind, c.answer)

TypeOK ==
  /\ session \in Accounts
  /\ role \in [Account -> [Workspace -> Roles]]
  /\ mrev \in [Account -> Nat]
  /\ log \in Partial(Workspace, SUBSET [id : Edit, by : Account])
  /\ arev \in [DOMAIN log -> Nat]
  /\ gone \subseteq DOMAIN log
  /\ db \in Db
  /\ tabs \in [Tab -> TabState]
  /\ author \in Partial(Edit, Accounts)
  /\ loose \subseteq Edit /\ given \subseteq Edit
  /\ scope \in Scopes

(* What relates them.  known: the workspaces the server knows.  free: the edits   *)
(* of device-only copies.  by: whose work an edit is.  up: those the server has.  *)

\* Edit e is work of the account, or of a device-only workspace.
WorkOf(e, account, free, by) == e \in free \/ (e \in DOMAIN by /\ by[e] = account)

\* A copy's work is in what it shows; all of a device-only copy is its own, and
\* the server knows the workspace of any other; whose an entry is can be told.
CopyHolds(w, copy, known, free, by) ==
  /\ IdsOf(copy.outbox) \subseteq copy.state
  /\ copy.access.kind = "device" => copy.state \subseteq free
  /\ copy.access.kind = "server" => w \in known
  /\ \A i \in DOMAIN copy.outbox :
       WorkOf(copy.outbox[i].id, IF copy.outbox[i].account = Nobody THEN copy.access.account
                                 ELSE copy.outbox[i].account, free, by)
Copies == \A w \in DOMAIN db.copies : CopyHolds(w, db.copies[w], DOMAIN log, loose, author)

\* What a sync request carries is work of its account, or all of a device-only
\* copy; when it was accepted the server has it.
SyncHolds(c, known, free, by, up) ==
  /\ c.asked.known.kind = "server" =>
       /\ c.w \in known
       /\ \A i \in DOMAIN c.asked.batch : WorkOf(c.asked.batch[i].id, c.account, free, by)
  /\ c.asked.known.kind = "device" =>
       IdsOf(c.asked.batch) \subseteq c.asked.body /\ c.asked.body \subseteq free
  /\ (c.result = "ok" /\ c.answer.accepted) => IdsOf(c.asked.batch) \subseteq up

\* Besides, nobody is told of a workspace that the server does not know.
CallHolds(c, known, free, by, up) ==
  /\ IsCall(c)
  /\ c.kind = "sync" => SyncHolds(c, known, free, by, up)
  /\ (c.kind = "list" /\ c.result = "ok") => DOMAIN c.answer.entries \subseteq known
  /\ c.kind = "apply" => DOMAIN c.asked.entries \subseteq known
  /\ (c.kind \notin {"list", "remove", "apply"} /\ c.result = "ok") => c.w \in known
Requests == \A c \in calls : CallHolds(c, DOMAIN log, loose, author, Uploaded)

\* What a tab has read of lists, and the deletions it keeps, is of workspaces the
\* server knows.
TabHolds(tab, known) ==
  /\ DOMAIN tab.read \subseteq known
  /\ \A i \in DOMAIN tab.panel :
       tab.panel[i].kept # << >> =>
         /\ Len(tab.panel[i].kept) = 2 /\ tab.panel[i].kept[1].kind = "server"
         /\ tab.panel[i].w \in known
Told == \A t \in Tab : TabHolds(tabs[t], DOMAIN log)

\* The time of a copy tells its work: what the user saw of the copy of that time
\* is no less than what it holds.
DateHolds(c, d) ==
  c.kind = "remove" =>
    /\ c.asked.stamp < d.clock
    /\ (c.w \in DOMAIN d.copies /\ d.copies[c.w].stamp = c.asked.stamp) =>
         IdsOf(d.copies[c.w].outbox) \subseteq c.asked.loses
Dates ==
  /\ \A w \in DOMAIN db.copies : db.copies[w].stamp < db.clock
  /\ \A c \in calls : DateHolds(c, db)

\* Every stored edit is somewhere.
Kept == DOMAIN author \subseteq Queued \cup Uploaded \cup given

\* Whose work the server has.
Authors == \A w \in DOMAIN log : \A x \in log[w] : WorkOf(x.id, x.by, loose, author)

Inv == TypeOK /\ CopiesAgree /\ Copies /\ Requests /\ Told /\ Dates /\ Kept /\ Authors

-----------------------------------------------------------------------------
(* Partial functions. *)

\* A function on part of S with values in T.
LEMMA PartialIs ==
  ASSUME NEW S, NEW T, NEW f
  PROVE  f \in Partial(S, T) <=> (DOMAIN f \subseteq S /\ f \in [DOMAIN f -> T])
BY DEF Partial

\* One value put in, and what Put leaves alone.
LEMMA PutIn ==
  ASSUME NEW S, NEW T, NEW f \in Partial(S, T), NEW k \in S, NEW v \in T
  PROVE  /\ Put(f, k, v) \in Partial(S, T)
         /\ DOMAIN Put(f, k, v) = DOMAIN f \cup {k}
         /\ Put(f, k, v)[k] = v
         /\ \A x \in DOMAIN f : x # k => Put(f, k, v)[x] = f[x]
BY PartialIs DEF Put

\* A function of one value.
LEMMA OnlyIn ==
  ASSUME NEW S, NEW T, NEW k \in S, NEW v \in T
  PROVE  /\ Only(k, v) \in Partial(S, T)
         /\ DOMAIN Only(k, v) = {k}
         /\ Only(k, v)[k] = v
BY PartialIs DEF Only

\* The first function where it is defined, the second elsewhere.
LEMMA OverIn ==
  ASSUME NEW S, NEW T, NEW f \in Partial(S, T), NEW g \in Partial(S, T)
  PROVE  /\ Over(f, g) \in Partial(S, T)
         /\ DOMAIN Over(f, g) = DOMAIN f \cup DOMAIN g
         /\ \A x \in DOMAIN f : Over(f, g)[x] = f[x]
         /\ \A x \in DOMAIN g \ DOMAIN f : Over(f, g)[x] = g[x]
BY PartialIs DEF Over

\* One value taken out; the others stay.
LEMMA WithoutIn ==
  ASSUME NEW S, NEW T, NEW f \in Partial(S, T), NEW k
  PROVE  /\ Without(f, k) \in Partial(S, T)
         /\ DOMAIN Without(f, k) = DOMAIN f \ {k}
         /\ \A x \in DOMAIN f \ {k} : Without(f, k)[x] = f[x]
BY PartialIs DEF Without

\* The empty function.
LEMMA NothingIn ==
  ASSUME NEW S, NEW T
  PROVE  << >> \in Partial(S, T) /\ DOMAIN << >> = {}
<1>1. DOMAIN << >> = {} /\ << >> \in [{} -> T]
  <2>1. << >> \in Seq(T) /\ Len(<< >>) = 0
    BY EmptySeq
  <2>2. << >> \in [1..0 -> T] /\ DOMAIN << >> = 1..0
    BY <2>1, LenProperties
  <2>3. 1..0 = {}
    OBVIOUS
  <2> QED
    BY <2>2, <2>3
<1> QED
  BY <1>1, PartialIs

(* What a copy remembers. *)

\* The accesses the model makes are accesses.
LEMMA ServerAccessIs ==
  ASSUME NEW account \in Account, NEW m \in Nat, NEW a \in Nat,
         NEW status \in {"active", "left", "revoked", "deleted", "unknown"}, NEW r \in Roles
  PROVE  LET acc == ServerAccess(account, m, a, status, r)
         IN  /\ acc \in Access /\ acc.kind = "server" /\ acc.account = account
             /\ acc.status = status /\ acc.m = m /\ acc.a = a
BY DEF ServerAccess, Access, AnyAccess, Accounts

\* The access of a workspace that the server never saw.
LEMMA DeviceOnlyIs == DeviceOnly \in Access /\ DeviceOnly.kind = "device"
BY DEF DeviceOnly, Access, AnyAccess, Accounts, Roles

\* Another account's access, as it is shown.
LEMMA NoRightsIs ==
  ASSUME NEW acc \in Access, NEW who \in Account
  PROVE  NoRights(acc, who) \in Access /\ NoRights(acc, who).kind = acc.kind
BY DEF NoRights, Access, AnyAccess, Accounts, Roles

\* The access of a copy, as an account sees it.
LEMMA ForAccountIs ==
  ASSUME NEW acc \in Access, NEW who \in Accounts
  PROVE  ForAccount(acc, who) \in Access /\ ForAccount(acc, who).kind = acc.kind
BY NoRightsIs DEF ForAccount, Accounts

\* What an answer says of a workspace is at most an access.
LEMMA SummaryIs ==
  ASSUME NEW acc \in Access
  PROVE  SummaryOf(acc) \in Seq(Access)
<1>1. CASE acc.kind = "server" /\ acc.status = "active"
  <2>1. acc.account \in Account /\ acc.m \in Nat /\ acc.a \in Nat /\ acc.role \in Roles
    BY <1>1 DEF Access, AnyAccess
  <2>2. ServerAccess(acc.account, acc.m, acc.a, "active", acc.role) \in Access
    BY <2>1, ServerAccessIs
  <2> QED
    BY <1>1, <2>2 DEF SummaryOf
<1>2. CASE ~(acc.kind = "server" /\ acc.status = "active")
  BY <1>2 DEF SummaryOf
<1> QED
  BY <1>1, <1>2

\* The later of two is one of them.
LEMMA LaterSummaryIs ==
  ASSUME NEW S, NEW x \in S, NEW y \in S
  PROVE  LaterSummary(x, y) \in S
BY DEF LaterSummary

\* The tab's view of a copy.
LEMMA VisibleIs ==
  ASSUME NEW copy \in Copy, NEW who \in Accounts, NEW terminal \in Seq(Access)
  PROVE  Visible(copy, who, terminal) \in Access
<1> DEFINE base == IF terminal = << >> THEN copy.access ELSE terminal[1]
           acc == ForAccount(base, who)
<1>1. base \in Access
  BY DEF Copy
<1>2. acc \in Access
  BY <1>1, ForAccountIs
<1>3. CASE acc.kind = "server" /\ ForeignWork(copy.outbox, who)
  <2>1. who \in Account
    BY <1>3 DEF ForeignWork, Accounts
  <2> QED
    BY <1>2, <1>3, <2>1, NoRightsIs DEF Visible
<1>4. CASE ~(acc.kind = "server" /\ ForeignWork(copy.outbox, who))
  BY <1>2, <1>4 DEF Visible
<1> QED
  BY <1>3, <1>4

(* Outboxes. *)

\* What is changed in an entry is not its id.
LEMMA IdsStay ==
  ASSUME NEW x, NEW y, DOMAIN x = DOMAIN y, \A i \in DOMAIN x : x[i].id = y[i].id
  PROVE  IdsOf(x) = IdsOf(y)
BY DEF IdsOf

\* A sequence made entry by entry.
LEMMA EachIs ==
  ASSUME NEW S, NEW T, NEW x \in Seq(S), NEW y, DOMAIN y = DOMAIN x,
         y = [i \in DOMAIN y |-> y[i]], \A i \in DOMAIN y : y[i] \in T
  PROVE  y \in Seq(T)
<1>1. Len(x) \in Nat /\ DOMAIN x = 1..Len(x)
  OBVIOUS
<1>2. y \in [1..Len(x) -> T]
  BY <1>1
<1> QED
  BY <1>1, <1>2

\* Whether the candidate claims the entries of nobody, and for whom.
Claims(current, candidate) ==
  /\ candidate.kind = "server"
  /\ current.kind = "device" \/ current.account # candidate.account
Owner(current, candidate) ==
  IF current.kind = "device" THEN candidate.account ELSE current.account

\* ScopeOutbox attributes entries of nobody and blocks those of what has ended.
LEMMA ScopeIs ==
  ASSUME NEW outbox \in Seq(Entry), NEW current \in Access, NEW candidate \in Access
  PROVE  LET next == ScopeOutbox(outbox, current, candidate)
         IN  /\ next \in Seq(Entry)
             /\ DOMAIN next = DOMAIN outbox
             /\ IdsOf(next) = IdsOf(outbox)
             /\ \A i \in DOMAIN outbox :
                  /\ next[i].id = outbox[i].id
                  /\ next[i].account = IF Claims(current, candidate) /\ outbox[i].account = Nobody
                                       THEN Owner(current, candidate) ELSE outbox[i].account
<1> DEFINE next == ScopeOutbox(outbox, current, candidate)
           owner == Owner(current, candidate)
           Claim(e) == IF Claims(current, candidate) /\ e.account = Nobody
                       THEN [e EXCEPT !.account = owner] ELSE e
           Ends == candidate.kind = "server" /\ candidate.status = "deleted"
<1>1. next = [i \in DOMAIN outbox |-> IF Ends THEN Block(Claim(outbox[i])) ELSE Claim(outbox[i])]
  BY DEF ScopeOutbox, Claims, Owner
<1>2. owner \in Accounts
  BY DEF Owner, Access, AnyAccess
<1> HIDE DEF next, owner
<1>3. ASSUME NEW i \in DOMAIN outbox
      PROVE  /\ next[i] \in Entry /\ next[i].id = outbox[i].id
             /\ next[i].account = IF Claims(current, candidate) /\ outbox[i].account = Nobody
                                  THEN owner ELSE outbox[i].account
  <2>1. outbox[i] \in Entry
    OBVIOUS
  <2>2. /\ Claim(outbox[i]) \in Entry /\ Claim(outbox[i]).id = outbox[i].id
        /\ Claim(outbox[i]).account = IF Claims(current, candidate) /\ outbox[i].account = Nobody
                                      THEN owner ELSE outbox[i].account
    BY <2>1, <1>2 DEF Entry
  <2> HIDE DEF Claim
  <2>3. /\ Block(Claim(outbox[i])) \in Entry
        /\ Block(Claim(outbox[i])).id = Claim(outbox[i]).id
        /\ Block(Claim(outbox[i])).account = Claim(outbox[i]).account
    BY <2>2 DEF Entry, Block
  <2> QED
    BY <1>1, <2>2, <2>3
<1>4. DOMAIN next = DOMAIN outbox /\ next = [i \in DOMAIN next |-> next[i]]
  BY <1>1
<1>5. next \in Seq(Entry)
  BY <1>3, <1>4, EachIs
<1>6. IdsOf(next) = IdsOf(outbox)
  BY <1>3, <1>4, IdsStay
<1> QED
  BY <1>3, <1>4, <1>5, <1>6 DEF next, owner

\* A copy whose access changes, and its outbox with it, still holds.
LEMMA ScopedHolds ==
  ASSUME NEW w, NEW copy \in Copy, NEW known, NEW free, NEW by,
         NEW acc \in Access, NEW cand \in Access, NEW next,
         next.state = copy.state, next.access = acc,
         next.outbox = ScopeOutbox(copy.outbox, copy.access, cand),
         IdsOf(copy.outbox) \subseteq copy.state,
         copy.access.kind = "device" => IdsOf(copy.outbox) \subseteq free,
         \A i \in DOMAIN copy.outbox :
           WorkOf(copy.outbox[i].id, IF copy.outbox[i].account = Nobody THEN copy.access.account
                                     ELSE copy.outbox[i].account, free, by),
         \/ /\ acc = copy.access /\ cand = copy.access
            /\ acc.kind = "device" => copy.state \subseteq free
            /\ acc.kind = "server" => w \in known
         \/ /\ acc.kind = "server" /\ cand.kind = "server"
            /\ acc.account = cand.account /\ w \in known
  PROVE  CopyHolds(w, next, known, free, by)
<1>1. copy.outbox \in Seq(Entry) /\ copy.access \in Access
  BY DEF Copy
<1>2. /\ DOMAIN next.outbox = DOMAIN copy.outbox
      /\ IdsOf(next.outbox) = IdsOf(copy.outbox)
      /\ \A i \in DOMAIN copy.outbox :
           /\ next.outbox[i].id = copy.outbox[i].id
           /\ next.outbox[i].account =
                IF Claims(copy.access, cand) /\ copy.outbox[i].account = Nobody
                THEN Owner(copy.access, cand) ELSE copy.outbox[i].account
  <2> DEFINE scoped == ScopeOutbox(copy.outbox, copy.access, cand)
  <2>1. /\ DOMAIN scoped = DOMAIN copy.outbox
        /\ IdsOf(scoped) = IdsOf(copy.outbox)
        /\ \A i \in DOMAIN copy.outbox :
             /\ scoped[i].id = copy.outbox[i].id
             /\ scoped[i].account =
                  IF Claims(copy.access, cand) /\ copy.outbox[i].account = Nobody
                  THEN Owner(copy.access, cand) ELSE copy.outbox[i].account
    BY <1>1, ScopeIs
  <2> HIDE DEF scoped
  <2>2. next.outbox = scoped
    BY DEF scoped
  <2> QED
    BY <2>1, <2>2
<1>3. ASSUME NEW i \in DOMAIN next.outbox
      PROVE  WorkOf(next.outbox[i].id, IF next.outbox[i].account = Nobody THEN next.access.account
                                       ELSE next.outbox[i].account, free, by)
  <2>1. CASE copy.access.kind = "device"
    <3>1. next.outbox[i].id \in IdsOf(copy.outbox)
      BY <1>2 DEF IdsOf
    <3> QED
      BY <2>1, <3>1 DEF WorkOf
  <2>2. CASE copy.access.kind = "server"
    <3>1. copy.access.account \in Account /\ Nobody \notin Account
      BY <1>1, <2>2, LocalAssumption DEF Access
    <3>2. WorkOf(copy.outbox[i].id, IF copy.outbox[i].account = Nobody THEN copy.access.account
                                    ELSE copy.outbox[i].account, free, by)
      BY <1>2
    <3>3. CASE copy.outbox[i].account # Nobody
      BY <1>2, <3>2, <3>3
    <3>4. CASE copy.outbox[i].account = Nobody /\ Claims(copy.access, cand)
      <4>1. next.outbox[i].account = copy.access.account
        BY <1>2, <3>4, <2>2 DEF Owner
      <4> QED
        BY <1>2, <3>1, <3>2, <3>4, <4>1
    <3>5. CASE copy.outbox[i].account = Nobody /\ ~Claims(copy.access, cand)
      <4>1. acc.account = copy.access.account
        BY <3>5, <2>2 DEF Claims
      <4>2. next.outbox[i].account = Nobody
        BY <1>2, <3>5
      <4> QED
        BY <1>2, <3>2, <3>5, <4>1, <4>2
    <3> QED
      BY <3>3, <3>4, <3>5
  <2> QED
    BY <1>1, <2>1, <2>2 DEF Access, AnyAccess
<1>4. IdsOf(next.outbox) \subseteq next.state
  BY <1>2
<1>5. /\ next.access.kind = "device" => next.state \subseteq free
      /\ next.access.kind = "server" => w \in known
  OBVIOUS
<1> QED
  BY <1>3, <1>4, <1>5 DEF CopyHolds

(* What becomes of a copy. *)

\* WithAccess keeps a copy's work, whether or not the access is newer.
LEMMA WithAccessIs ==
  ASSUME NEW copy \in Copy, NEW cand \in Access
  PROVE  /\ WithAccess(copy, cand) \in Copy
         /\ WithAccess(copy, cand).state = copy.state
         /\ WithAccess(copy, cand).stamp = copy.stamp
         /\ IdsOf(WithAccess(copy, cand).outbox) = IdsOf(copy.outbox)
<1> DEFINE acc == IF ShouldApply(copy.access, cand) THEN cand ELSE copy.access
           next == WithAccess(copy, cand)
           outbox == ScopeOutbox(copy.outbox, copy.access, acc)
           summary == LaterSummary(copy.summary, SummaryOf(cand))
<1>1. next = [copy EXCEPT !.access = acc, !.outbox = outbox, !.summary = summary]
  BY DEF WithAccess
<1>2. copy.outbox \in Seq(Entry) /\ copy.access \in Access /\ acc \in Access
  BY DEF Copy
<1>3. outbox \in Seq(Entry) /\ IdsOf(outbox) = IdsOf(copy.outbox)
  BY <1>2, ScopeIs
<1>4. summary \in Seq(Access)
  BY SummaryIs, LaterSummaryIs DEF Copy
<1> HIDE DEF acc, outbox, summary, next
<1> QED
  BY <1>1, <1>2, <1>3, <1>4 DEF Copy, next

\* A copy told of an access of the server holds, even one whose inventory an
\* answer has just replaced.
LEMMA WithAccessHolds ==
  ASSUME NEW w, NEW copy \in Copy, NEW cand \in Access, NEW known, NEW free, NEW by,
         cand.kind = "server", w \in known,
         IdsOf(copy.outbox) \subseteq copy.state,
         copy.access.kind = "device" => IdsOf(copy.outbox) \subseteq free,
         \A i \in DOMAIN copy.outbox :
           WorkOf(copy.outbox[i].id, IF copy.outbox[i].account = Nobody THEN copy.access.account
                                     ELSE copy.outbox[i].account, free, by)
  PROVE  CopyHolds(w, WithAccess(copy, cand), known, free, by)
<1> DEFINE acc == IF ShouldApply(copy.access, cand) THEN cand ELSE copy.access
           next == WithAccess(copy, cand)
<1>1. /\ next.state = copy.state /\ next.access = acc
      /\ next.outbox = ScopeOutbox(copy.outbox, copy.access, acc)
  BY DEF WithAccess, Copy
<1>2. acc \in Access /\ copy.access \in Access
  BY DEF Copy
<1>3. copy.access.kind = "device" => ShouldApply(copy.access, cand)
  BY DEF ShouldApply
<1>4. \/ /\ acc = copy.access
         /\ acc.kind = "device" => copy.state \subseteq free
         /\ acc.kind = "server" => w \in known
      \/ /\ acc.kind = "server" /\ w \in known
  BY <1>2, <1>3 DEF Access, AnyAccess
<1>5. CASE ShouldApply(copy.access, cand)
  <2>1. acc = cand
    BY <1>5
  <2> QED
    BY <1>1, <1>2, <2>1, ScopedHolds
<1>6. CASE ~ShouldApply(copy.access, cand)
  <2>1. acc = copy.access /\ acc.kind = "server"
    BY <1>2, <1>3, <1>6 DEF Access, AnyAccess
  <2> QED
    BY <1>1, <1>2, <2>1, ScopedHolds
<1> QED
  BY <1>5, <1>6

\* The places of a sequence whose elements pass.
LEMMA PickedIds ==
  ASSUME NEW T, NEW s \in Seq(T), NEW K \in SUBSET DOMAIN s
  PROVE  IdsOf(Picked(s, K)) = {s[k].id : k \in K}
BY PickedIs DEF IdsOf

\* An answer takes from an outbox nothing but what was sent with its request.
LEMMA ReconcileIs ==
  ASSUME NEW copy \in Copy, NEW batch \in Seq(Entry), NEW state \in SUBSET Edit,
         IdsOf(copy.outbox) \subseteq copy.state
  PROVE  LET next == Reconcile(copy, batch, state)
         IN  /\ next \in Copy /\ next.access = copy.access /\ next.stamp = copy.stamp
             /\ IdsOf(next.outbox) \subseteq IdsOf(copy.outbox)
             /\ IdsOf(copy.outbox) \subseteq IdsOf(next.outbox) \cup IdsOf(batch)
             /\ IdsOf(next.outbox) \subseteq next.state
             /\ \A i \in DOMAIN next.outbox : \E k \in DOMAIN copy.outbox :
                  next.outbox[i] = copy.outbox[k]
<1> DEFINE K == {i \in DOMAIN copy.outbox : copy.outbox[i].id \notin IdsOf(batch)}
           left == Picked(copy.outbox, K)
           next == Reconcile(copy, batch, state)
           shown == IF HasBlocked(left) THEN copy.state ELSE state \cup IdsOf(left)
<1>1. copy.outbox \in Seq(Entry) /\ K \in SUBSET DOMAIN copy.outbox
  BY DEF Copy
<1>2. /\ left \in Seq(Entry)
      /\ \A i \in DOMAIN left : \E k \in K : left[i] = copy.outbox[k]
  BY <1>1, PickedIs
<1>3. IdsOf(left) = {copy.outbox[k].id : k \in K}
  BY <1>1, PickedIds
<1>4. next = copy \/ next = [copy EXCEPT !.outbox = left, !.state = shown]
  BY DEF Reconcile
<1>5. IdsOf(left) \subseteq Edit
  <2> HIDE DEF left
  <2>1. \A i \in DOMAIN left : left[i] \in Entry
    BY <1>2
  <2> QED
    BY <2>1 DEF IdsOf, Entry
<1>6. IdsOf(left) \subseteq IdsOf(copy.outbox)
  BY <1>3 DEF IdsOf
<1>7. IdsOf(copy.outbox) \subseteq IdsOf(left) \cup IdsOf(batch)
  BY <1>3 DEF IdsOf
<1> HIDE DEF left, next
<1>8. shown \subseteq Edit /\ IdsOf(left) \subseteq shown
  BY <1>5, <1>6 DEF Copy
<1>9. CASE next = copy
  BY <1>9 DEF next
<1>10. CASE next = [copy EXCEPT !.outbox = left, !.state = shown]
  <2> HIDE DEF shown, K
  <2>1. /\ next \in Copy /\ next.access = copy.access /\ next.stamp = copy.stamp
        /\ next.outbox = left /\ next.state = shown
    BY <1>2, <1>8, <1>10 DEF Copy
  <2>2. \A i \in DOMAIN left : \E k \in DOMAIN copy.outbox : left[i] = copy.outbox[k]
    BY <1>2 DEF K
  <2> QED
    BY <1>6, <1>7, <1>8, <2>1, <2>2 DEF next
<1> QED
  BY <1>4, <1>9, <1>10

\* What a refusal leaves of a copy: its work, waiting for review.
LEMMA BlockedIs ==
  ASSUME NEW w, NEW copy \in Copy, NEW ids, NEW known, NEW free, NEW by
  PROVE  LET next == [copy EXCEPT !.outbox = [i \in DOMAIN @ |->
                        IF @[i].id \in ids THEN Block(@[i]) ELSE @[i]]]
         IN  /\ next \in Copy /\ next.state = copy.state /\ next.stamp = copy.stamp
             /\ IdsOf(next.outbox) = IdsOf(copy.outbox)
             /\ CopyHolds(w, copy, known, free, by) => CopyHolds(w, next, known, free, by)
<1> DEFINE outbox == [i \in DOMAIN copy.outbox |-> IF copy.outbox[i].id \in ids
                        THEN Block(copy.outbox[i]) ELSE copy.outbox[i]]
           next == [copy EXCEPT !.outbox = outbox]
<1>1. copy.outbox \in Seq(Entry)
  BY DEF Copy
<1>2. \A e \in Entry : Block(e) \in Entry /\ Block(e).id = e.id /\ Block(e).account = e.account
  BY DEF Block, Entry
<1>3. \A i \in DOMAIN copy.outbox : /\ outbox[i] \in Entry /\ outbox[i].id = copy.outbox[i].id
                                    /\ outbox[i].account = copy.outbox[i].account
  BY <1>1, <1>2
<1>4. DOMAIN outbox = DOMAIN copy.outbox /\ outbox = [i \in DOMAIN outbox |-> outbox[i]]
  OBVIOUS
<1> HIDE DEF outbox
<1>5. outbox \in Seq(Entry)
  BY <1>1, <1>3, <1>4, EachIs
<1>6. IdsOf(outbox) = IdsOf(copy.outbox)
  BY <1>3, <1>4, IdsStay
<1>7. /\ next \in Copy /\ next.state = copy.state /\ next.stamp = copy.stamp
      /\ next.access = copy.access /\ next.outbox = outbox
  BY <1>5 DEF Copy
<1> HIDE DEF next
<1>8. CopyHolds(w, copy, known, free, by) => CopyHolds(w, next, known, free, by)
  BY <1>3, <1>4, <1>6, <1>7 DEF CopyHolds
<1> QED
  BY <1>6, <1>7, <1>8 DEF next, outbox

\* A confirmed deletion is told to a copy as any later access is.
LEMMA DeletedIs ==
  ASSUME NEW w, NEW copy \in Copy, NEW cand \in Access, NEW known, NEW free, NEW by,
         cand.kind = "server"
  PROVE  LET next == Deleted(copy, cand)
         IN  /\ next \in Copy /\ next.state = copy.state /\ next.stamp = copy.stamp
             /\ next.access \in Access /\ next.access.kind = "server"
             /\ IdsOf(next.outbox) = IdsOf(copy.outbox)
             /\ (CopyHolds(w, copy, known, free, by) /\ w \in known) =>
                  CopyHolds(w, next, known, free, by)
<1> DEFINE acc == Deleted(copy, cand).access
           next == Deleted(copy, cand)
<1>1. PICK m \in Nat, a \in Nat : next = [copy EXCEPT
        !.access = [cand EXCEPT !.m = m, !.a = a],
        !.outbox = ScopeOutbox(copy.outbox, copy.access, [cand EXCEPT !.m = m, !.a = a])]
  <2> DEFINE Higher(x, y) == IF x > y THEN x ELSE y
             again == /\ copy.access.kind = "server" /\ copy.access.status = "deleted"
                      /\ copy.access.account = cand.account
             m == IF again THEN Higher(cand.m, copy.access.m) ELSE cand.m
             a == IF again THEN Higher(cand.a, copy.access.a) ELSE cand.a
             told == IF again THEN [cand EXCEPT !.m = Higher(@, copy.access.m),
                                               !.a = Higher(@, copy.access.a)] ELSE cand
  <2>1. m \in Nat /\ a \in Nat
    BY DEF Copy, Access, AnyAccess
  <2>2. told = [cand EXCEPT !.m = m, !.a = a]
    BY DEF Access, AnyAccess
  <2>3. next = [copy EXCEPT !.access = told, !.outbox = ScopeOutbox(@, copy.access, told)]
    BY DEF Deleted
  <2>4. copy.outbox = copy.outbox
    OBVIOUS
  <2> HIDE DEF m, a, told, next
  <2>5. next = [copy EXCEPT !.access = [cand EXCEPT !.m = m, !.a = a],
          !.outbox = ScopeOutbox(copy.outbox, copy.access, [cand EXCEPT !.m = m, !.a = a])]
    BY <2>2, <2>3
  <2> QED
    BY <2>1, <2>5
<1> DEFINE told == [cand EXCEPT !.m = m, !.a = a]
<1>2. told \in Access /\ told.kind = "server"
  BY DEF Access, AnyAccess
<1>3. copy.outbox \in Seq(Entry) /\ copy.access \in Access
  BY DEF Copy
<1> DEFINE outbox == ScopeOutbox(copy.outbox, copy.access, told)
<1>4. outbox \in Seq(Entry) /\ IdsOf(outbox) = IdsOf(copy.outbox)
  BY <1>2, <1>3, ScopeIs
<1>5. next = [copy EXCEPT !.access = told, !.outbox = outbox]
  BY <1>1
<1> HIDE DEF next, told, outbox
<1>6. /\ next \in Copy /\ next.state = copy.state /\ next.stamp = copy.stamp
      /\ next.access = told /\ next.outbox = outbox
  BY <1>2, <1>4, <1>5 DEF Copy
<1>7. ASSUME CopyHolds(w, copy, known, free, by), w \in known
      PROVE  CopyHolds(w, next, known, free, by)
  <2>1. copy.access.kind = "device" => IdsOf(copy.outbox) \subseteq free
    BY <1>7 DEF CopyHolds
  <2>2. next.outbox = ScopeOutbox(copy.outbox, copy.access, told)
    BY <1>6 DEF outbox
  <2>3. IdsOf(copy.outbox) \subseteq copy.state
    BY <1>7 DEF CopyHolds
  <2>4. \A i \in DOMAIN copy.outbox :
          WorkOf(copy.outbox[i].id, IF copy.outbox[i].account = Nobody THEN copy.access.account
                                    ELSE copy.outbox[i].account, free, by)
    BY <1>7 DEF CopyHolds
  <2> QED
    BY <1>2, <1>6, <1>7, <2>1, <2>2, <2>3, <2>4, ScopedHolds
<1> QED
  BY <1>2, <1>4, <1>6, <1>7 DEF next

(* What is sent. *)

\* A batch is of entries of the outbox, and of one account when it is asked for.
LEMMA BatchIs ==
  ASSUME NEW outbox \in Seq(Entry), NEW who
  PROVE  /\ SelectBatch(outbox, who) \in Seq(Entry)
         /\ \A i \in DOMAIN SelectBatch(outbox, who) :
              /\ \E k \in DOMAIN outbox : SelectBatch(outbox, who)[i] = outbox[k]
              /\ who = Nobody \/ SelectBatch(outbox, who)[i].account = who
<1> DEFINE p == Pending(outbox)
           Fits(n) == \A i \in 1..n : /\ p[i].basis = p[1].basis
                                      /\ who = Nobody \/ p[i].account = who
           K == {k \in 0..Len(p) : k <= BatchLimit /\ Fits(k)}
           n == Max(K)
           batch == SelectBatch(outbox, who)
<1>1. batch = SubSeq(p, 1, n)
  BY DEF SelectBatch
<1>2. p \in Seq(Entry) /\ \A i \in DOMAIN p : \E k \in DOMAIN outbox : p[i] = outbox[k]
  <2> DEFINE waiting == {i \in DOMAIN outbox : outbox[i].status = "pending"}
  <2>1. waiting \in SUBSET DOMAIN outbox /\ p = Picked(outbox, waiting)
    BY DEF Pending
  <2> HIDE DEF waiting, p
  <2> QED
    BY <2>1, PickedIs
<1> HIDE DEF p
<1>3. Len(p) \in Nat /\ DOMAIN p = 1..Len(p) /\ \A i \in 1..Len(p) : p[i] \in Entry
  BY <1>2
<1>4. 0 \in K
  BY <1>3, LocalAssumption
<1>5. n \in K
  BY <1>3, <1>4, HasLargest DEF Max
<1>6. n \in 0..Len(p) /\ Fits(n)
  BY <1>5
<1> HIDE DEF n, K, batch
<1>7. /\ batch \in Seq(Entry) /\ Len(batch) = n
      /\ \A i \in 1..n : batch[i] = p[i]
  <2>1. n \in Int /\ 1 \in Int /\ \A i \in 1..n : p[i] \in Entry
    BY <1>3, <1>6
  <2>2. /\ SubSeq(p, 1, n) \in Seq(Entry)
        /\ Len(SubSeq(p, 1, n)) = IF 1 <= n THEN n - 1 + 1 ELSE 0
        /\ \A i \in 1 .. n - 1 + 1 : SubSeq(p, 1, n)[i] = p[1 + i - 1]
    BY <2>1, SubSeqProperties
  <2> QED
    BY <1>1, <1>6, <2>1, <2>2
<1>8. DOMAIN batch = 1..n
  BY <1>7
<1>9. \A i \in 1..n : /\ \E k \in DOMAIN outbox : p[i] = outbox[k]
                      /\ who = Nobody \/ p[i].account = who
  BY <1>2, <1>3, <1>6
<1> QED
  BY <1>7, <1>8, <1>9 DEF batch


(* Transactions. *)

\* The open copy of a database is the one stored: CopiesAgree, of any database.
Agrees(d) == \A w \in DOMAIN d.open : w \in DOMAIN d.copies /\ d.open[w] = d.copies[w]
\* The queued edits of a database.
QueuedOf(d) == UNION {IdsOf(d.copies[w].outbox) : w \in DOMAIN d.copies}

\* The two properties of databases, of the one there is.
LEMMA AgreesIs == (CopiesAgree <=> Agrees(db)) /\ Queued = QueuedOf(db)
BY DEF CopiesAgree, Agrees, Stored, Queued, QueuedOf

\* The parts of a database.
LEMMA DbIs ==
  ASSUME NEW d \in Db
  PROVE  /\ d.copies \in Partial(Workspace, Copy) /\ d.open \in Partial(Workspace, Copy)
         /\ d.catalogs \in Partial(Accounts, Listing) /\ d.clock \in Nat
         /\ \A w \in DOMAIN d.copies : w \in Workspace /\ d.copies[w] \in Copy
BY PartialIs DEF Db

\* So what is found under either key is what is stored.
LEMMA FoundIs ==
  ASSUME NEW d \in Db, Agrees(d), NEW w
  PROVE  /\ Has(d, w) <=> w \in DOMAIN d.copies
         /\ w \in DOMAIN d.copies => /\ Found(d, w) = d.copies[w]
                                     /\ Found(d, w) \in Copy /\ w \in Workspace
<1>1. DOMAIN d.open \subseteq DOMAIN d.copies
  BY DEF Agrees
<1>2. ASSUME w \in DOMAIN d.copies
      PROVE  Found(d, w) = d.copies[w] /\ Found(d, w) \in Copy /\ w \in Workspace
  <2>1. Over(d.copies, d.open)[w] = d.copies[w]
    BY <1>2 DEF Over
  <2> QED
    BY <1>2, <2>1, DbIs DEF Found
<1> QED
  BY <1>1, <1>2 DEF Has

\* One copy was written, of the copies in keep and it.
Wrote(d, e, keep, w, next) ==
  /\ e \in Db /\ Agrees(e) /\ e.clock = d.clock
  /\ keep \subseteq DOMAIN d.copies /\ DOMAIN e.copies = keep \cup {w}
  /\ e.copies[w] = next
  /\ \A x \in keep : x # w => e.copies[x] = d.copies[x]

\* mutateWorkspaceReplica writes one copy under both keys.
LEMMA MutateIs ==
  ASSUME NEW d \in Db, Agrees(d), NEW w \in Workspace, NEW next \in Copy
  PROVE  Wrote(d, Mutate(d, w, next), DOMAIN d.copies, w, next)
<1> DEFINE copies == Put(d.copies, w, next)
           open == IF w \in DOMAIN d.open THEN Only(w, next) ELSE d.open
           e == Mutate(d, w, next)
<1>1. e = [d EXCEPT !.copies = copies, !.open = open]
  BY DEF Mutate
<1>2. /\ copies \in Partial(Workspace, Copy) /\ DOMAIN copies = DOMAIN d.copies \cup {w}
      /\ copies[w] = next /\ \A x \in DOMAIN d.copies : x # w => copies[x] = d.copies[x]
  <2>1. d.copies \in Partial(Workspace, Copy)
    BY DbIs
  <2>2. copies \in Partial(Workspace, Copy)
    BY <2>1, PutIn
  <2> QED
    BY <2>2 DEF Put
<1>3. open \in Partial(Workspace, Copy)
  BY DbIs, OnlyIn
<1>4. \A x \in DOMAIN open : x \in DOMAIN copies /\ open[x] = copies[x]
  <2>1. CASE w \in DOMAIN d.open
    BY <1>2, <2>1 DEF Only
  <2>2. CASE w \notin DOMAIN d.open
    BY <1>2, <2>2 DEF Agrees
  <2> QED
    BY <2>1, <2>2
<1> HIDE DEF copies, open, e
<1>5. e \in Db /\ e.copies = copies /\ e.open = open /\ e.clock = d.clock
  BY <1>1, <1>2, <1>3 DEF Db
<1> QED
  BY <1>2, <1>4, <1>5 DEF Wrote, Agrees, e

\* writeReplica opens one copy and stores the one that was open.
LEMMA InstallIs ==
  ASSUME NEW d \in Db, Agrees(d), NEW w \in Workspace, NEW next \in Copy
  PROVE  Wrote(d, Install(d, w, next), DOMAIN d.copies, w, next)
<1> DEFINE all == Over(d.open, d.copies)
           copies == Put(all, w, next)
           e == Install(d, w, next)
<1>1. e = [d EXCEPT !.copies = copies, !.open = Only(w, next)]
  BY DEF Install
<1>2. /\ all \in Partial(Workspace, Copy) /\ DOMAIN all = DOMAIN d.copies
      /\ \A x \in DOMAIN d.copies : all[x] = d.copies[x]
  <2>1. /\ all \in Partial(Workspace, Copy) /\ DOMAIN all = DOMAIN d.open \cup DOMAIN d.copies
        /\ \A x \in DOMAIN d.open : all[x] = d.open[x]
        /\ \A x \in DOMAIN d.copies \ DOMAIN d.open : all[x] = d.copies[x]
    <3>1. d.copies \in Partial(Workspace, Copy) /\ d.open \in Partial(Workspace, Copy)
      BY DbIs
    <3>2. all \in Partial(Workspace, Copy)
      BY <3>1, OverIn
    <3> QED
      BY <3>2 DEF Over
  <2> QED
    BY <2>1 DEF Agrees
<1> HIDE DEF all
<1>3. /\ copies \in Partial(Workspace, Copy) /\ DOMAIN copies = DOMAIN d.copies \cup {w}
      /\ copies[w] = next /\ \A x \in DOMAIN d.copies : x # w => copies[x] = d.copies[x]
  <2>1. copies \in Partial(Workspace, Copy)
    BY <1>2, PutIn
  <2> QED
    BY <1>2, <2>1 DEF Put
<1>4. Only(w, next) \in Partial(Workspace, Copy) /\ DOMAIN Only(w, next) = {w}
      /\ Only(w, next)[w] = next
  BY OnlyIn
<1> HIDE DEF copies, e
<1>5. e \in Db /\ e.copies = copies /\ e.open = Only(w, next) /\ e.clock = d.clock
  BY <1>1, <1>3, <1>4 DEF Db
<1> QED
  BY <1>3, <1>4, <1>5 DEF Wrote, Agrees, e

\* The open copy becomes one that is stored already.
LEMMA ActivateIs ==
  ASSUME NEW d \in Db, Agrees(d), NEW w \in DOMAIN d.copies
  PROVE  LET e == Activate(d, w)
         IN  e \in Db /\ Agrees(e) /\ e.copies = d.copies /\ e.clock = d.clock
<1>1. w \in Workspace /\ d.copies[w] \in Copy
  BY DbIs
<1> DEFINE open == Only(w, d.copies[w])
           e == Activate(d, w)
<1>2. open \in Partial(Workspace, Copy) /\ DOMAIN open = {w} /\ open[w] = d.copies[w]
  BY <1>1, OnlyIn
<1>3. e = [d EXCEPT !.open = open]
  BY DEF Activate
<1> HIDE DEF open, e
<1>4. e \in Db /\ e.copies = d.copies /\ e.open = open /\ e.clock = d.clock
  BY <1>2, <1>3 DEF Db
<1> QED
  BY <1>2, <1>4 DEF Agrees, e

\* replaceReplicaIfUnchanged drops the old copy for another.
LEMMA ReplaceOpenIs ==
  ASSUME NEW d \in Db, Agrees(d), NEW old, NEW w \in Workspace, NEW next \in Copy
  PROVE  Wrote(d, ReplaceOpen(d, old, w, next), DOMAIN d.copies \ {old}, w, next)
<1> DEFINE rest == IF w = old THEN d.copies ELSE Without(d.copies, old)
           copies == Put(rest, w, next)
           e == ReplaceOpen(d, old, w, next)
<1>1. e = [d EXCEPT !.copies = copies, !.open = Only(w, next)]
  BY DEF ReplaceOpen
<1>2. /\ rest \in Partial(Workspace, Copy)
      /\ DOMAIN rest \cup {w} = (DOMAIN d.copies \ {old}) \cup {w}
      /\ \A x \in DOMAIN d.copies \ {old} : x \in DOMAIN rest /\ rest[x] = d.copies[x]
  <2>1. d.copies \in Partial(Workspace, Copy)
    BY DbIs
  <2>2. /\ Without(d.copies, old) \in Partial(Workspace, Copy)
        /\ DOMAIN Without(d.copies, old) = DOMAIN d.copies \ {old}
        /\ \A x \in DOMAIN d.copies \ {old} : Without(d.copies, old)[x] = d.copies[x]
    BY <2>1, WithoutIn DEF Without
  <2> QED
    BY <2>1, <2>2
<1> HIDE DEF rest
<1>3. /\ copies \in Partial(Workspace, Copy)
      /\ DOMAIN copies = (DOMAIN d.copies \ {old}) \cup {w}
      /\ copies[w] = next /\ \A x \in DOMAIN d.copies \ {old} : x # w => copies[x] = d.copies[x]
  BY <1>2, PutIn
<1>4. Only(w, next) \in Partial(Workspace, Copy) /\ DOMAIN Only(w, next) = {w}
      /\ Only(w, next)[w] = next
  BY OnlyIn
<1> HIDE DEF copies, e
<1>5. e \in Db /\ e.copies = copies /\ e.open = Only(w, next) /\ e.clock = d.clock
  BY <1>1, <1>3, <1>4 DEF Db
<1> QED
  BY <1>3, <1>4, <1>5 DEF Wrote, Agrees, e

\* A copy is removed, from whichever keys have it.
LEMMA RemoveIs ==
  ASSUME NEW d \in Db, Agrees(d), NEW w \in DOMAIN d.copies
  PROVE  LET e == RemoveCopyOf(d, w)
         IN  /\ e \in Db /\ Agrees(e) /\ e.clock = d.clock
             /\ DOMAIN e.copies = DOMAIN d.copies \ {w}
             /\ \A x \in DOMAIN e.copies : e.copies[x] = d.copies[x]
<1> DEFINE acc == Found(d, w).access
           list == CatalogOf(d, acc.account)
           Prunes == acc.kind = "server" /\ acc.status # "active" /\ list.m <= acc.m
           entries == Without(list.entries, w)
           pruned == [list EXCEPT !.entries = entries, !.m = acc.m]
           catalogs == IF Has(d, w) /\ Prunes THEN Put(d.catalogs, acc.account, pruned)
                       ELSE d.catalogs
           e == RemoveCopyOf(d, w)
<1>1. e = [d EXCEPT !.copies = Without(d.copies, w), !.open = Without(d.open, w),
                    !.catalogs = catalogs]
  BY DEF RemoveCopyOf
<1>2. acc \in Access
  BY FoundIs DEF Copy
<1>3. acc.account \in Accounts /\ acc.m \in Nat
  BY <1>2 DEF Access, AnyAccess
<1> HIDE DEF acc
<1>4. list \in Listing
  <2>1. d.catalogs \in Partial(Accounts, Listing)
    BY DbIs
  <2>2. \A x \in DOMAIN d.catalogs : d.catalogs[x] \in Listing
    BY <2>1, PartialIs
  <2>3. << >> \in Rows
    BY NothingIn DEF Rows
  <2>4. NoCatalog \in Listing
    BY <2>3 DEF NoCatalog, Listing
  <2> QED
    BY <2>2, <2>4 DEF CatalogOf
<1> HIDE DEF list
<1>5. entries \in Rows
  BY <1>4, WithoutIn DEF Listing, Rows
<1> HIDE DEF entries
<1>6. pruned \in Listing
  BY <1>3, <1>4, <1>5 DEF Listing
<1> HIDE DEF pruned, Prunes
<1>7. catalogs \in Partial(Accounts, Listing)
  BY <1>3, <1>6, DbIs, PutIn
<1> HIDE DEF catalogs
<1> DEFINE copies == Without(d.copies, w)
           open == Without(d.open, w)
<1>8. /\ copies \in Partial(Workspace, Copy) /\ DOMAIN copies = DOMAIN d.copies \ {w}
      /\ \A x \in DOMAIN copies : copies[x] = d.copies[x]
  <2>1. d.copies \in Partial(Workspace, Copy) /\ d.open \in Partial(Workspace, Copy)
    BY DbIs
  <2> QED
    BY <2>1, WithoutIn DEF Without
<1>9. /\ open \in Partial(Workspace, Copy) /\ DOMAIN open = DOMAIN d.open \ {w}
      /\ \A x \in DOMAIN open : open[x] = d.open[x]
  <2>1. d.copies \in Partial(Workspace, Copy) /\ d.open \in Partial(Workspace, Copy)
    BY DbIs
  <2> QED
    BY <2>1, WithoutIn DEF Without
<1> HIDE DEF copies, open, e
<1>10. e = [d EXCEPT !.copies = copies, !.open = open, !.catalogs = catalogs]
  BY <1>1 DEF copies, open
<1>11. e \in Db /\ e.copies = copies /\ e.open = open /\ e.clock = d.clock
  BY <1>7, <1>8, <1>9, <1>10 DEF Db
<1>12. Agrees(e)
  BY <1>8, <1>9, <1>11 DEF Agrees
<1> QED
  BY <1>8, <1>11, <1>12 DEF e

\* A download never takes work from a copy that came to be stored meanwhile.
LEMMA DownloadIs ==
  ASSUME NEW d \in Db, Agrees(d), NEW w \in Workspace, NEW download \in Copy,
         NEW known, NEW free, NEW by,
         download.access.kind = "server", download.outbox = << >>, w \in known
  PROVE  LET e == InstallDownload(d, w, download)
             next == e.copies[w]
         IN  /\ Wrote(d, e, DOMAIN d.copies, w, next) /\ next \in Copy
             /\ w \notin DOMAIN d.copies => next.stamp = download.stamp
             /\ w \in DOMAIN d.copies => /\ next.stamp = d.copies[w].stamp
                                         /\ IdsOf(next.outbox) = IdsOf(d.copies[w].outbox)
             /\ (w \in DOMAIN d.copies => CopyHolds(w, d.copies[w], known, free, by)) =>
                  CopyHolds(w, next, known, free, by)
<1> DEFINE e == InstallDownload(d, w, download)
<1>1. CASE w \notin DOMAIN d.copies
  <2>1. e = Install(d, w, download)
    BY <1>1, FoundIs DEF InstallDownload
  <2>2. Wrote(d, e, DOMAIN d.copies, w, download)
    BY <2>1, InstallIs
  <2>3. e.copies[w] = download
    BY <2>2 DEF Wrote
  <2>4. CopyHolds(w, download, known, free, by)
    <3>1. DOMAIN download.outbox = {}
      BY NothingIn
    <3> QED
      BY <3>1 DEF CopyHolds, IdsOf
  <2> QED
    BY <1>1, <2>2, <2>3, <2>4
<1>2. CASE w \in DOMAIN d.copies
  <2> DEFINE copy == d.copies[w]
             acc == IF ShouldApply(copy.access, download.access) THEN download.access
                    ELSE copy.access
             outbox == ScopeOutbox(copy.outbox, copy.access, download.access)
             summary == LaterSummary(copy.summary, download.summary)
             next == [copy EXCEPT !.access = acc, !.outbox = outbox, !.summary = summary]
  <2>1. copy \in Copy /\ Has(d, w) /\ Found(d, w) = copy
    BY <1>2, FoundIs
  <2>2. e = Install(d, w, next)
    BY <2>1 DEF InstallDownload
  <2> HIDE DEF copy
  <2>3. copy.outbox \in Seq(Entry) /\ copy.access \in Access /\ download.access \in Access
    BY <2>1 DEF Copy
  <2>4. outbox \in Seq(Entry) /\ IdsOf(outbox) = IdsOf(copy.outbox)
    BY <2>3, ScopeIs
  <2>5. summary \in Seq(Access)
    BY <2>1, LaterSummaryIs DEF Copy
  <2>6. acc \in Access
    BY <2>3
  <2>7. /\ ShouldApply(copy.access, download.access) => acc = download.access
        /\ ~ShouldApply(copy.access, download.access) =>
             acc.kind = "server" /\ acc.account = download.access.account
    BY <2>3 DEF ShouldApply, Access, AnyAccess
  <2>8. acc.kind = "server" /\ acc.account = download.access.account
    BY <2>7
  <2> HIDE DEF acc, outbox, summary, next, e
  <2>9. /\ next \in Copy /\ next.state = copy.state /\ next.stamp = copy.stamp
        /\ next.access = acc /\ next.outbox = outbox
    BY <2>1, <2>4, <2>5, <2>6 DEF Copy, next
  <2>10. ASSUME CopyHolds(w, copy, known, free, by)
         PROVE  CopyHolds(w, next, known, free, by)
    <3>1. copy.access.kind = "device" => IdsOf(copy.outbox) \subseteq free
      BY <2>10 DEF CopyHolds
    <3>2. next.outbox = ScopeOutbox(copy.outbox, copy.access, download.access)
      BY <2>9 DEF outbox
    <3>3. IdsOf(copy.outbox) \subseteq copy.state
      BY <2>10 DEF CopyHolds
    <3>4. \A i \in DOMAIN copy.outbox :
            WorkOf(copy.outbox[i].id, IF copy.outbox[i].account = Nobody THEN copy.access.account
                                      ELSE copy.outbox[i].account, free, by)
      BY <2>10 DEF CopyHolds
    <3> QED
      BY <2>1, <2>3, <2>6, <2>8, <2>9, <3>1, <3>2, <3>3, <3>4, ScopedHolds
  <2>11. Wrote(d, e, DOMAIN d.copies, w, next)
    BY <2>2, <2>9, InstallIs
  <2>12. e.copies[w] = next
    BY <2>11 DEF Wrote
  <2> QED
    BY <1>2, <2>4, <2>9, <2>10, <2>11, <2>12 DEF copy, e
<1> QED
  BY <1>1, <1>2

(* What growth keeps. *)

\* More edits have an author, and more are of device-only copies.
More(free, by, free2, by2) ==
  /\ free \subseteq free2
  /\ DOMAIN by \subseteq DOMAIN by2 /\ \A e \in DOMAIN by : by2[e] = by[e]

\* Whose work an edit is does not change.
LEMMA WorkStays ==
  ASSUME NEW free, NEW by, NEW free2, NEW by2, More(free, by, free2, by2),
         NEW e, NEW account, WorkOf(e, account, free, by)
  PROVE  WorkOf(e, account, free2, by2)
BY DEF WorkOf, More

\* A copy that holds goes on doing so as edits are stored and uploaded.
LEMMA CopyStays ==
  ASSUME NEW w, NEW copy, NEW known, NEW free, NEW by, NEW known2, NEW free2, NEW by2,
         known \subseteq known2, More(free, by, free2, by2),
         CopyHolds(w, copy, known, free, by)
  PROVE  CopyHolds(w, copy, known2, free2, by2)
<1>1. free \subseteq free2
  BY DEF More
<1>2. \A i \in DOMAIN copy.outbox :
        WorkOf(copy.outbox[i].id, IF copy.outbox[i].account = Nobody THEN copy.access.account
                                  ELSE copy.outbox[i].account, free2, by2)
  BY WorkStays DEF CopyHolds
<1> QED
  BY <1>1, <1>2 DEF CopyHolds

\* So does what a request carries.
LEMMA CallStays ==
  ASSUME NEW c, NEW known, NEW free, NEW by, NEW up, NEW known2, NEW free2, NEW by2, NEW up2,
         known \subseteq known2, More(free, by, free2, by2), up \subseteq up2,
         CallHolds(c, known, free, by, up)
  PROVE  CallHolds(c, known2, free2, by2, up2)
<1>1. free \subseteq free2
  BY DEF More
<1>2. c.kind = "sync" => SyncHolds(c, known2, free2, by2, up2)
  <2> SUFFICES ASSUME c.kind = "sync"
               PROVE  SyncHolds(c, known2, free2, by2, up2)
    OBVIOUS
  <2>1. SyncHolds(c, known, free, by, up)
    BY DEF CallHolds
  <2>2. c.asked.known.kind = "server" =>
          \A i \in DOMAIN c.asked.batch : WorkOf(c.asked.batch[i].id, c.account, free2, by2)
    BY <2>1, WorkStays DEF SyncHolds
  <2> QED
    BY <2>1, <2>2, <1>1 DEF SyncHolds
<1>3. IsCall(c)
  BY DEF CallHolds
<1>4. /\ (c.kind = "list" /\ c.result = "ok") => DOMAIN c.answer.entries \subseteq known2
      /\ c.kind = "apply" => DOMAIN c.asked.entries \subseteq known2
      /\ (c.kind \notin {"list", "remove", "apply"} /\ c.result = "ok") => c.w \in known2
  BY DEF CallHolds
<1> QED
  BY <1>2, <1>3, <1>4 DEF CallHolds

\* The copies of the later database: each is newly dated, or holds no work that
\* its predecessor did not.
Moves(d, e) ==
  /\ e.clock >= d.clock
  /\ \A w \in DOMAIN e.copies :
       /\ e.copies[w].stamp < e.clock
       /\ \/ e.copies[w].stamp >= d.clock
          \/ /\ w \in DOMAIN d.copies /\ e.copies[w].stamp = d.copies[w].stamp
             /\ IdsOf(e.copies[w].outbox) \subseteq IdsOf(d.copies[w].outbox)

\* What the user saw of a copy still tells its work, whatever moved.
LEMMA DatesMove ==
  ASSUME NEW c, NEW d \in Db, NEW e \in Db, IsCall(c), DateHolds(c, d), Moves(d, e)
  PROVE  DateHolds(c, e)
<1> SUFFICES ASSUME c.kind = "remove"
             PROVE  /\ c.asked.stamp < e.clock
                    /\ (c.w \in DOMAIN e.copies /\ e.copies[c.w].stamp = c.asked.stamp) =>
                         IdsOf(e.copies[c.w].outbox) \subseteq c.asked.loses
  BY DEF DateHolds
<1>1. c.asked.stamp \in Nat /\ c.asked.stamp < d.clock
  BY DEF IsCall, Asks, DateHolds
<1>2. d.clock \in Nat /\ e.clock \in Nat /\ e.clock >= d.clock
  BY DbIs DEF Moves
<1>3. ASSUME c.w \in DOMAIN e.copies, e.copies[c.w].stamp = c.asked.stamp
      PROVE  IdsOf(e.copies[c.w].outbox) \subseteq c.asked.loses
  <2>1. /\ c.w \in DOMAIN d.copies /\ e.copies[c.w].stamp = d.copies[c.w].stamp
        /\ IdsOf(e.copies[c.w].outbox) \subseteq IdsOf(d.copies[c.w].outbox)
    BY <1>1, <1>2, <1>3 DEF Moves
  <2> QED
    BY <1>3, <2>1 DEF DateHolds
<1> QED
  BY <1>1, <1>2, <1>3

\* What writing one copy keeps of the others.  lost: the work it drops.
LEMMA WroteIs ==
  ASSUME NEW d \in Db, NEW e, NEW keep, NEW w, NEW next \in Copy, Wrote(d, e, keep, w, next),
         \A x \in DOMAIN d.copies : d.copies[x].stamp < d.clock,
         NEW known, NEW free, NEW by, CopyHolds(w, next, known, free, by),
         \A x \in DOMAIN d.copies : CopyHolds(x, d.copies[x], known, free, by)
  PROVE  /\ \A x \in DOMAIN e.copies : CopyHolds(x, e.copies[x], known, free, by)
         /\ (w \in DOMAIN d.copies /\ next.stamp = d.copies[w].stamp
              /\ IdsOf(next.outbox) \subseteq IdsOf(d.copies[w].outbox)) => Moves(d, e)
         /\ \A f \in Db : (f.copies = e.copies /\ f.clock = d.clock + 1 /\
              (\/ next.stamp = d.clock
               \/ /\ w \in DOMAIN d.copies /\ next.stamp = d.copies[w].stamp
                  /\ IdsOf(next.outbox) \subseteq IdsOf(d.copies[w].outbox))) => Moves(d, f)
         /\ \A lost : (/\ \A x \in DOMAIN d.copies \ keep : IdsOf(d.copies[x].outbox) \subseteq lost
                       /\ w \in DOMAIN d.copies =>
                            IdsOf(d.copies[w].outbox) \subseteq IdsOf(next.outbox) \cup lost)
              => QueuedOf(d) \subseteq QueuedOf(e) \cup lost
         /\ IdsOf(next.outbox) \subseteq QueuedOf(e)
<1>1. /\ DOMAIN e.copies = keep \cup {w} /\ keep \subseteq DOMAIN d.copies
      /\ e.copies[w] = next /\ e.clock = d.clock
      /\ \A x \in keep : x # w => e.copies[x] = d.copies[x]
  BY DEF Wrote
<1>2. d.clock \in Nat /\ \A x \in DOMAIN d.copies : d.copies[x].stamp \in Nat
  BY DbIs DEF Copy
<1>3. \A x \in DOMAIN e.copies : CopyHolds(x, e.copies[x], known, free, by)
  BY <1>1
<1>4. ASSUME w \in DOMAIN d.copies, next.stamp = d.copies[w].stamp,
             IdsOf(next.outbox) \subseteq IdsOf(d.copies[w].outbox)
      PROVE  Moves(d, e)
  BY <1>1, <1>2, <1>4 DEF Moves
<1>5. ASSUME NEW f \in Db, f.copies = e.copies, f.clock = d.clock + 1,
             \/ next.stamp = d.clock
             \/ /\ w \in DOMAIN d.copies /\ next.stamp = d.copies[w].stamp
                /\ IdsOf(next.outbox) \subseteq IdsOf(d.copies[w].outbox)
      PROVE  Moves(d, f)
  BY <1>1, <1>2, <1>5 DEF Moves
<1>6. ASSUME NEW lost,
             \A x \in DOMAIN d.copies \ keep : IdsOf(d.copies[x].outbox) \subseteq lost,
             w \in DOMAIN d.copies => IdsOf(d.copies[w].outbox) \subseteq IdsOf(next.outbox) \cup lost
      PROVE  QueuedOf(d) \subseteq QueuedOf(e) \cup lost
  <2>1. ASSUME NEW x \in DOMAIN d.copies
        PROVE  IdsOf(d.copies[x].outbox) \subseteq QueuedOf(e) \cup lost
    <3>1. CASE x = w
      BY <1>1, <1>6, <3>1 DEF QueuedOf
    <3>2. CASE x # w /\ x \in keep
      BY <1>1, <3>2 DEF QueuedOf
    <3>3. CASE x # w /\ x \notin keep
      BY <1>6, <3>3
    <3> QED
      BY <3>1, <3>2, <3>3
  <2> QED
    BY <2>1 DEF QueuedOf
<1>7. IdsOf(next.outbox) \subseteq QueuedOf(e)
  BY <1>1 DEF QueuedOf
<1> QED
  BY <1>3, <1>4, <1>5, <1>6, <1>7

(* What a step must show.  The parts of Inv, for steps of the browser and for    *)
(* steps of the server.                                                          *)

\* A step of the browser leaves the server alone.
LEMMA BrowserStep ==
  ASSUME Inv, UNCHANGED <<role, mrev, arev, log, gone, scope>>, session' \in Accounts,
         author' \in Partial(Edit, Accounts), loose' \subseteq Edit,
         given' \subseteq Edit, given \subseteq given', More(loose, author, loose', author'),
         db' \in Db, Agrees(db'), Moves(db, db'),
         \A w \in DOMAIN db'.copies : CopyHolds(w, db'.copies[w], DOMAIN log, loose', author'),
         DOMAIN author' \subseteq DOMAIN author \cup QueuedOf(db'),
         QueuedOf(db) \subseteq QueuedOf(db') \cup Uploaded \cup given',
         tabs' \in [Tab -> TabState], \A t \in Tab : TabHolds(tabs'[t], DOMAIN log),
         \A c \in calls' : \/ c \in calls
                           \/ /\ CallHolds(c, DOMAIN log, loose', author', Uploaded)
                              /\ DateHolds(c, db')
  PROVE  Inv'
<1>1. /\ TypeOK /\ Agrees(db) /\ Copies /\ Requests /\ Told /\ Dates /\ Kept /\ Authors
  BY AgreesIs DEF Inv
<1>2. TypeOK'
  BY <1>1 DEF TypeOK
<1>3. CopiesAgree'
  BY DEF CopiesAgree, Agrees, Stored
<1>4. Copies' /\ Told'
  BY DEF Copies, Told
<1>5. Uploaded' = Uploaded
  BY DEF Uploaded, EditsOf
<1>6. Requests'
  <2>1. ASSUME NEW c \in calls'
        PROVE  CallHolds(c, DOMAIN log, loose', author', Uploaded)
    BY <1>1, CallStays DEF Requests
  <2> QED
    BY <1>5, <2>1 DEF Requests
<1>7. Dates'
  <2>1. \A c \in calls : IsCall(c) /\ DateHolds(c, db)
    BY <1>1 DEF Requests, CallHolds, Dates
  <2>2. db \in Db
    BY <1>1 DEF TypeOK
  <2>3. \A c \in calls' : DateHolds(c, db')
    BY <2>1, <2>2, DatesMove
  <2>4. \A w \in DOMAIN db'.copies : db'.copies[w].stamp < db'.clock
    BY DEF Moves
  <2> QED
    BY <2>3, <2>4 DEF Dates
<1>8. Kept'
  <2>1. Queued = QueuedOf(db) /\ Queued' = QueuedOf(db')
    BY DEF Queued, QueuedOf
  <2> QED
    BY <1>1, <1>5, <2>1 DEF Kept
<1>9. Authors'
  <2>1. \A w \in DOMAIN log : \A x \in log[w] : WorkOf(x.id, x.by, loose', author')
    BY <1>1, WorkStays DEF Authors
  <2> QED
    BY <2>1 DEF Authors
<1> QED
  BY <1>2, <1>3, <1>4, <1>6, <1>7, <1>8, <1>9 DEF Inv

\* A step of the server leaves the browser alone, but for what it answers.
LEMMA ServerStep ==
  ASSUME Inv, UNCHANGED <<session, db, tabs, author, loose, given, scope>>,
         role' \in [Account -> [Workspace -> Roles]], mrev' \in [Account -> Nat],
         log' \in Partial(Workspace, SUBSET [id : Edit, by : Account]),
         arev' \in [DOMAIN log' -> Nat], gone' \subseteq DOMAIN log',
         DOMAIN log \subseteq DOMAIN log', Uploaded \subseteq Uploaded',
         \A w \in DOMAIN log' : \A x \in log'[w] : WorkOf(x.id, x.by, loose, author),
         \A c \in calls' : \/ c \in calls
                           \/ /\ CallHolds(c, DOMAIN log', loose, author, Uploaded')
                              /\ c.kind # "remove"
  PROVE  Inv'
<1>1. /\ TypeOK /\ CopiesAgree /\ Copies /\ Requests /\ Told /\ Dates /\ Kept /\ Authors
  BY DEF Inv
<1>2. TypeOK'
  BY <1>1 DEF TypeOK
<1>3. CopiesAgree'
  BY <1>1 DEF CopiesAgree, Stored
<1>4. More(loose, author, loose, author)
  BY DEF More
<1>5. Copies'
  BY <1>1, <1>4, CopyStays DEF Copies
<1>6. Told'
  BY <1>1 DEF Told, TabHolds
<1>7. Requests'
  <2>1. ASSUME NEW c \in calls'
        PROVE  CallHolds(c, DOMAIN log', loose, author, Uploaded')
    BY <1>1, <1>4, CallStays DEF Requests
  <2> QED
    BY <2>1 DEF Requests
<1>8. Dates'
  BY <1>1 DEF Dates, DateHolds
<1>9. Kept'
  <2>1. Queued' = Queued
    BY DEF Queued
  <2> QED
    BY <1>1, <2>1 DEF Kept
<1>10. Authors'
  BY DEF Authors
<1> QED
  BY <1>2, <1>3, <1>5, <1>6, <1>7, <1>8, <1>9, <1>10 DEF Inv

(* The server. *)

\* A call of Inv.
LEMMA CallIs ==
  ASSUME Inv, NEW c \in calls
  PROVE  /\ CallHolds(c, DOMAIN log, loose, author, Uploaded) /\ IsCall(c)
         /\ c.kind # "remove" => c.account \in Account
         /\ c.kind \notin {"list", "apply"} => c.w \in Workspace
BY DEF Inv, Requests, CallHolds, IsCall

\* A request that is answered holds what it asked, and what it is told.
Replies(c, next, r, a) ==
  next \in [kind : {c.kind}, tab : {c.tab}, w : {c.w}, account : {c.account},
            cookie : {c.cookie}, asked : {c.asked}, result : {r}, answer : {a}]

\* A call that held before, with an answer that is true, holds.
LEMMA ReplyHolds ==
  ASSUME NEW c, NEW known, NEW free, NEW by, NEW up, NEW known2, NEW up2, NEW next,
         CallHolds(c, known, free, by, up), known \subseteq known2, up \subseteq up2,
         Replies(c, next, next.result, next.answer), next.result \in Results,
         next.result = "ok" =>
           /\ Says(c.kind, next.answer)
           /\ (c.kind = "sync" /\ next.answer.accepted) => IdsOf(c.asked.batch) \subseteq up2
           /\ c.kind = "list" => DOMAIN next.answer.entries \subseteq known2
           /\ c.kind \notin {"list", "remove", "apply"} => c.w \in known2
  PROVE  CallHolds(next, known2, free, by, up2) /\ next.kind = c.kind
<1>1. c \in [kind : Kinds, tab : Tab, w : {c.w}, account : Accounts, cookie : Accounts,
             asked : {c.asked}, result : Results, answer : {c.answer}]
  BY DEF CallHolds, IsCall
<1>3. /\ next.kind = c.kind /\ next.tab = c.tab /\ next.w = c.w /\ next.account = c.account
      /\ next.cookie = c.cookie /\ next.asked = c.asked
  BY DEF Replies
<1>4. next \in [kind : Kinds, tab : Tab, w : {next.w}, account : Accounts, cookie : Accounts,
                asked : {next.asked}, result : Results, answer : {next.answer}]
  BY <1>1, <1>3 DEF Replies
<1>5. Asks(next.kind, next.asked)
  BY <1>3 DEF CallHolds, IsCall
<1>6. IsCall(next)
  BY <1>3, <1>4, <1>5 DEF CallHolds, IsCall
<1>7. c.kind = "sync" => SyncHolds(next, known2, free, by, up2)
  BY <1>3 DEF CallHolds, SyncHolds
<1>8. c.kind = "apply" => DOMAIN next.asked.entries \subseteq known2
  BY <1>3 DEF CallHolds
<1> QED
  BY <1>3, <1>6, <1>7, <1>8 DEF CallHolds

\* What is told, of what the server knows and has after a step.
Tells(c, r, a, known, up) ==
  r = "ok" =>
    /\ Says(c.kind, a)
    /\ (c.kind = "sync" /\ a.accepted) => IdsOf(c.asked.batch) \subseteq up
    /\ c.kind = "list" => DOMAIN a.entries \subseteq known
    /\ c.kind \notin {"list", "remove", "apply"} => c.w \in known

\* So does the call as Reply writes it.
LEMMA AnswerHolds ==
  ASSUME NEW c, NEW known, NEW free, NEW by, NEW up, NEW known2, NEW up2,
         NEW r \in Results, NEW a, CallHolds(c, known, free, by, up),
         known \subseteq known2, up \subseteq up2, Tells(c, r, a, known2, up2)
  PROVE  CallHolds([c EXCEPT !.result = r, !.answer = a], known2, free, by, up2)
<1> DEFINE next == [c EXCEPT !.result = r, !.answer = a]
<1>1. Replies(c, next, r, a)
  BY DEF CallHolds, IsCall, Replies
<1>2. next.result = r /\ next.answer = a
  BY <1>1 DEF Replies
<1> HIDE DEF next
<1>3. Replies(c, next, next.result, next.answer) /\ next.result \in Results
  BY <1>1, <1>2
<1>4. next.result = "ok" =>
           /\ Says(c.kind, next.answer)
           /\ (c.kind = "sync" /\ next.answer.accepted) => IdsOf(c.asked.batch) \subseteq up2
           /\ c.kind = "list" => DOMAIN next.answer.entries \subseteq known2
           /\ c.kind \notin {"list", "remove", "apply"} => c.w \in known2
  BY <1>2 DEF Tells
<1>5. CallHolds(next, known2, free, by, up2)
  BY <1>3, <1>4, ReplyHolds
<1> QED
  BY <1>5 DEF next

\* The server answers.
LEMMA Replied ==
  ASSUME Inv, NEW c \in calls, c.kind # "remove", NEW r \in Results, NEW a, Reply(c, r, a),
         UNCHANGED <<session, db, tabs, history, scope>>,
         role' \in [Account -> [Workspace -> Roles]], mrev' \in [Account -> Nat],
         log' \in Partial(Workspace, SUBSET [id : Edit, by : Account]),
         arev' \in [DOMAIN log' -> Nat], gone' \subseteq DOMAIN log',
         DOMAIN log \subseteq DOMAIN log', Uploaded \subseteq Uploaded',
         \A w \in DOMAIN log' : \A x \in log'[w] : WorkOf(x.id, x.by, loose, author),
         Tells(c, r, a, DOMAIN log', Uploaded')
  PROVE  Inv'
<1> DEFINE next == [c EXCEPT !.result = r, !.answer = a]
<1>1. CallHolds(next, DOMAIN log', loose, author, Uploaded')
  <2>1. CallHolds(c, DOMAIN log, loose, author, Uploaded)
    BY CallIs
  <2> QED
    BY <2>1, AnswerHolds
<1>4. next.kind = c.kind
  <2>1. IsCall(c)
    BY CallIs
  <2> QED
    BY <2>1 DEF IsCall
<1>2. calls' = (calls \ {c}) \cup {next}
  BY DEF Reply
<1> HIDE DEF next
<1>3. \A x \in calls' : \/ x \in calls
                        \/ /\ CallHolds(x, DOMAIN log', loose, author, Uploaded')
                           /\ x.kind # "remove"
  BY <1>1, <1>2, <1>4
<1>5. UNCHANGED <<session, db, tabs, author, loose, given, scope>>
  BY DEF history
<1> QED
  BY <1>3, <1>5, ServerStep

\* The server answers and changes nothing.
LEMMA Informed ==
  ASSUME Inv, NEW c \in calls, c.kind # "remove", NEW r \in Results, NEW a, Reply(c, r, a), NoChange,
         UNCHANGED <<session, db, tabs, history, scope>>,
         Tells(c, r, a, DOMAIN log, Uploaded)
  PROVE  Inv'
<1>1. TypeOK /\ Authors
  BY DEF Inv
<1>2. Uploaded' = Uploaded /\ UNCHANGED <<role, mrev, arev, log, gone>>
  BY DEF Uploaded, EditsOf, NoChange
<1>3. \A w \in DOMAIN log' : \A x \in log'[w] : WorkOf(x.id, x.by, loose, author)
  BY <1>1, <1>2 DEF Authors
<1>4. /\ role' \in [Account -> [Workspace -> Roles]] /\ mrev' \in [Account -> Nat]
      /\ log' \in Partial(Workspace, SUBSET [id : Edit, by : Account])
      /\ arev' \in [DOMAIN log' -> Nat] /\ gone' \subseteq DOMAIN log'
  BY <1>1, <1>2 DEF TypeOK
<1>5. DOMAIN log \subseteq DOMAIN log' /\ Uploaded \subseteq Uploaded'
  BY <1>2
<1>6. Tells(c, r, a, DOMAIN log', Uploaded')
  BY <1>2
<1> QED
  BY <1>3, <1>4, <1>5, <1>6, Replied

\* What the server can say of a workspace.
LEMMA RowIs ==
  ASSUME TypeOK, NEW a \in Account, NEW w \in Workspace
  PROVE  /\ mrev[a] \in Nat /\ role[a][w] \in Roles
         /\ \A x \in DOMAIN log : arev[x] \in Nat /\ x \in Workspace
                                  /\ log[x] \in SUBSET [id : Edit, by : Account]
                                  /\ EditsOf(x) \subseteq Edit
         /\ (CanRead(a, w) \/ Exists(w) \/ w \in gone) => w \in DOMAIN log
         /\ w \in DOMAIN log => Granted(a, w) \in Access /\ Granted(a, w).kind = "server"
<1>1. mrev[a] \in Nat /\ role[a][w] \in Roles
  BY DEF TypeOK
<1>2. \A x \in DOMAIN log : arev[x] \in Nat /\ x \in Workspace
                            /\ log[x] \in SUBSET [id : Edit, by : Account]
  BY PartialIs DEF TypeOK
<1>3. \A x \in DOMAIN log : EditsOf(x) \subseteq Edit
  BY <1>2 DEF EditsOf
<1>4. (CanRead(a, w) \/ Exists(w) \/ w \in gone) => w \in DOMAIN log
  BY DEF TypeOK, CanRead, Exists
<1>5. w \in DOMAIN log => Granted(a, w) \in Access /\ Granted(a, w).kind = "server"
  BY <1>1, <1>2, ServerAccessIs DEF Granted
<1> QED
  BY <1>1, <1>2, <1>3, <1>4, <1>5

\* requireExpectedAccount and a session that is gone: refused.
LEMMA NobodyKeeps ==
  ASSUME Inv, NEW c \in calls, c.kind # "remove", ServeNobody(c) \/ ServeRevoked(c),
         UNCHANGED <<session, db, tabs, history, scope>>
  PROVE  Inv'
<1>1. PICK r \in {"signedOut", "mismatch"} : Reply(c, r, << >>) /\ NoChange
  BY DEF ServeNobody, ServeRevoked, Fail
<1>2. r \in Results /\ Tells(c, r, << >>, DOMAIN log, Uploaded)
  BY DEF Results, Tells
<1> QED
  BY <1>1, <1>2, Informed

\* The edits of an upload.
LEMMA UploadsIs ==
  ASSUME NEW ids \in SUBSET Edit, NEW a \in Account
  PROVE  /\ Uploads(ids, a) \in SUBSET [id : Edit, by : Account]
         /\ \A x \in Uploads(ids, a) : x.id \in ids /\ x.by = a
         /\ \A e \in ids : \E x \in Uploads(ids, a) : x.id = e
<1>1. \A x \in Uploads(ids, a) : \E e \in ids : x = [id |-> e, by |-> a]
  BY DEF Uploads
<1>2. \A e \in ids : [id |-> e, by |-> a] \in Uploads(ids, a)
  BY DEF Uploads
<1>3. \A e \in ids : [id |-> e, by |-> a].id = e
  OBVIOUS
<1>4. \A x \in Uploads(ids, a) : x \in [id : Edit, by : Account] /\ x.id \in ids /\ x.by = a
  BY <1>1
<1> QED
  BY <1>2, <1>3, <1>4

\* What a member's upload carries is its account's, or of a device-only copy.
LEMMA UploadKeeps ==
  ASSUME Inv, NEW c \in calls, c.kind = "sync", ServeUpload(c),
         UNCHANGED <<session, db, tabs, history, scope>>
  PROVE  Inv'
<1> DEFINE w == c.w
           who == c.account
           ids == IdsOf(c.asked.batch)
           a == [accepted |-> TRUE, access |-> Granted(who, w), state |-> EditsOf(w) \cup ids]
<1>1. TypeOK /\ Authors
  BY DEF Inv
<1>2. /\ CallHolds(c, DOMAIN log, loose, author, Uploaded) /\ IsCall(c)
      /\ who \in Account /\ w \in Workspace
  BY CallIs
<1>3. /\ Reply(c, "ok", a) /\ UNCHANGED <<role, mrev, arev, gone>>
      /\ log' = [log EXCEPT ![w] = @ \cup Uploads(ids \ EditsOf(w), who)]
  BY DEF ServeUpload, Answer
<1>4. /\ w \in DOMAIN log /\ log[w] \in SUBSET [id : Edit, by : Account]
      /\ EditsOf(w) \subseteq Edit
      /\ Granted(who, w) \in Access /\ Granted(who, w).kind = "server"
  BY <1>1, <1>2, RowIs DEF ServeUpload, Admitted
<1>5. c.asked.batch \in Seq(Entry) /\ ids \subseteq Edit
  <2>1. c.asked.batch \in Seq(Entry)
    BY <1>2 DEF IsCall, Asks
  <2>2. \A i \in DOMAIN c.asked.batch : c.asked.batch[i] \in Entry
    BY <2>1
  <2> QED
    BY <2>1, <2>2 DEF IdsOf, Entry
<1>6. \A e \in ids : WorkOf(e, who, loose, author)
  <2>1. SyncHolds(c, DOMAIN log, loose, author, Uploaded)
    BY <1>2 DEF CallHolds
  <2>2. c.asked.known.kind \in {"device", "server"}
    BY <1>2 DEF IsCall, Asks, Access, AnyAccess
  <2>3. CASE c.asked.known.kind = "server"
    BY <2>1, <2>3 DEF SyncHolds, IdsOf
  <2>4. CASE c.asked.known.kind = "device"
    BY <2>1, <2>4 DEF SyncHolds, WorkOf
  <2> QED
    BY <2>2, <2>3, <2>4
<1> HIDE DEF w, who, ids, a
<1> DEFINE new == Uploads(ids \ EditsOf(w), who)
<1>7. /\ new \subseteq [id : Edit, by : Account]
      /\ \A x \in new : x.id \in ids /\ x.by = who
      /\ \A e \in ids \ EditsOf(w) : \E x \in new : x.id = e
  <2>1. ids \ EditsOf(w) \in SUBSET Edit /\ who \in Account
    BY <1>2, <1>5 DEF ids, who
  <2> QED
    BY <2>1, UploadsIs
<1> HIDE DEF new
<1>8. log' \in Partial(Workspace, SUBSET [id : Edit, by : Account]) /\ DOMAIN log' = DOMAIN log
  <2>1. /\ DOMAIN log \subseteq Workspace
        /\ log \in [DOMAIN log -> SUBSET [id : Edit, by : Account]]
    BY <1>1, PartialIs DEF TypeOK
  <2>2. log' = [log EXCEPT ![w] = log[w] \cup new]
    BY <1>3 DEF w, who, ids, new
  <2>3. log[w] \cup new \in SUBSET [id : Edit, by : Account]
    BY <1>4, <1>7 DEF w
  <2>4. log' \in [DOMAIN log -> SUBSET [id : Edit, by : Account]] /\ DOMAIN log' = DOMAIN log
    BY <2>1, <2>2, <2>3
  <2> QED
    BY <2>1, <2>4, PartialIs
<1>9. /\ log'[w] = log[w] \cup new
      /\ \A x \in DOMAIN log : x # w => log'[x] = log[x]
  <2>1. log' = [log EXCEPT ![w] = log[w] \cup new]
    BY <1>3 DEF w, who, ids, new
  <2> QED
    BY <2>1, <1>4 DEF w
<1>10. \A x \in DOMAIN log' : \A y \in log'[x] : WorkOf(y.id, y.by, loose, author)
  <2>1. \A x \in DOMAIN log : \A y \in log[x] : WorkOf(y.id, y.by, loose, author)
    BY <1>1 DEF Authors
  <2>2. \A y \in new : WorkOf(y.id, y.by, loose, author)
    BY <1>6, <1>7 DEF ids, who
  <2> QED
    BY <1>8, <1>9, <2>1, <2>2
<1>11. Uploaded \subseteq Uploaded' /\ ids \subseteq Uploaded'
  <2>1. \A x \in DOMAIN log : log[x] \subseteq log'[x]
    BY <1>9
  <2>2. Uploaded \subseteq Uploaded'
    BY <1>8, <2>1 DEF Uploaded, EditsOf
  <2>3. ASSUME NEW e \in ids
        PROVE  \E y \in log'[w] : y.id = e
    <3>1. CASE e \in EditsOf(w)
      BY <1>9, <3>1 DEF EditsOf
    <3>2. CASE e \notin EditsOf(w)
      BY <1>7, <1>9, <3>2
    <3> QED
      BY <3>1, <3>2
  <2>4. w \in DOMAIN log'
    BY <1>4, <1>8 DEF w
  <2>5. ids \subseteq Uploaded'
    BY <2>3, <2>4 DEF Uploaded, EditsOf
  <2> QED
    BY <2>2, <2>5
<1>12. Tells(c, "ok", a, DOMAIN log', Uploaded')
  <2>1. Says("sync", a)
    BY <1>4, <1>5 DEF Says, a, who, w, ids
  <2> QED
    BY <1>4, <1>8, <1>11, <2>1 DEF Tells, w, ids
<1>13. /\ role' \in [Account -> [Workspace -> Roles]] /\ mrev' \in [Account -> Nat]
       /\ arev' \in [DOMAIN log' -> Nat] /\ gone' \subseteq DOMAIN log'
  BY <1>1, <1>3, <1>8 DEF TypeOK
<1>14. "ok" \in Results
  BY DEF Results
<1> QED
  BY <1>3, <1>8, <1>10, <1>11, <1>12, <1>13, <1>14, Replied

\* A change of one member's row.
LEMMA ChangeIs ==
  ASSUME TypeOK, NEW a \in Account, NEW w \in Workspace, NEW to \in Roles, Change(a, w, to)
  PROVE  role' \in [Account -> [Workspace -> Roles]] /\ mrev' \in [Account -> Nat]
<1>1. role \in [Account -> [Workspace -> Roles]] /\ mrev \in [Account -> Nat]
  BY DEF TypeOK
<1>2. role' = [role EXCEPT ![a][w] = to] /\ mrev' = [mrev EXCEPT ![a] = @ + 1]
  BY DEF Change
<1>3. mrev' \in [Account -> Nat]
  BY <1>1, <1>2
<1>4. role' \in [Account -> [Workspace -> Roles]]
  BY <1>1, <1>2
<1> QED
  BY <1>3, <1>4

\* A workspace that the server does not know is uploaded from a device-only copy,
\* all of which is its own.
LEMMA BackupKeeps ==
  ASSUME Inv, NEW c \in calls, c.kind = "sync", ServeBackup(c),
         UNCHANGED <<session, db, tabs, history, scope>>
  PROVE  Inv'
<1> DEFINE w == c.w
           who == c.account
           body == c.asked.body
           acc == ServerAccess(who, mrev[who] + 1, 0, "active", "owner")
           a == [accepted |-> TRUE, state |-> body, access |-> acc]
           new == Uploads(body, who)
<1>1. TypeOK /\ Authors
  BY DEF Inv
<1>2. /\ CallHolds(c, DOMAIN log, loose, author, Uploaded) /\ IsCall(c)
      /\ who \in Account /\ w \in Workspace
  BY CallIs
<1>3. /\ Reply(c, "ok", a) /\ Change(who, w, "owner") /\ gone' = gone
      /\ arev' = Put(arev, w, 0) /\ log' = Put(log, w, new)
  BY DEF ServeBackup, Answer
<1>4. w \notin DOMAIN log
  BY DEF ServeBackup, Exists
<1>5. /\ body \subseteq loose /\ IdsOf(c.asked.batch) \subseteq body /\ body \subseteq Edit
  <2>1. SyncHolds(c, DOMAIN log, loose, author, Uploaded)
    BY <1>2 DEF CallHolds
  <2>2. c.asked.known.kind \in {"device", "server"} /\ body \subseteq Edit
    BY <1>2 DEF IsCall, Asks, Access, AnyAccess
  <2> QED
    BY <1>4, <2>1, <2>2 DEF SyncHolds
<1>6. acc \in Access /\ acc.kind = "server"
  <2>1. mrev[who] + 1 \in Nat /\ "owner" \in Roles
    BY <1>1, <1>2 DEF TypeOK, Roles
  <2> QED
    BY <1>2, <2>1, ServerAccessIs
<1> HIDE DEF w, who, body, acc
<1>7. /\ new \in SUBSET [id : Edit, by : Account]
      /\ \A x \in new : x.id \in body
      /\ \A e \in body : \E x \in new : x.id = e
  <2>1. body \in SUBSET Edit /\ who \in Account
    BY <1>2, <1>5 DEF body, who
  <2> QED
    BY <2>1, UploadsIs
<1> HIDE DEF new
<1>8. /\ log' \in Partial(Workspace, SUBSET [id : Edit, by : Account])
      /\ DOMAIN log' = DOMAIN log \cup {w} /\ log'[w] = new
      /\ \A x \in DOMAIN log : log'[x] = log[x]
  <2>1. w \in Workspace /\ log \in Partial(Workspace, SUBSET [id : Edit, by : Account])
    BY <1>1, <1>2 DEF TypeOK, w
  <2>2. log' \in Partial(Workspace, SUBSET [id : Edit, by : Account])
    BY <1>3, <1>7, <2>1, PutIn DEF w, new, body, who
  <2>3. log' = Put(log, w, new)
    BY <1>3 DEF w, new, body, who
  <2>4. w \notin DOMAIN log
    BY <1>4 DEF w
  <2> QED
    BY <2>2, <2>3, <2>4 DEF Put
<1>9. arev' \in [DOMAIN log' -> Nat]
  <2>1. arev \in [DOMAIN log -> Nat]
    BY <1>1 DEF TypeOK
  <2>2. arev' = Put(arev, w, 0)
    BY <1>3 DEF w
  <2> QED
    BY <1>8, <2>1, <2>2 DEF Put
<1>10. \A x \in DOMAIN log' : \A y \in log'[x] : WorkOf(y.id, y.by, loose, author)
  BY <1>1, <1>5, <1>7, <1>8 DEF Authors, WorkOf
<1>11. Uploaded \subseteq Uploaded' /\ body \subseteq Uploaded'
  <2>1. \A x \in DOMAIN log : x \in DOMAIN log' /\ log'[x] = log[x]
    BY <1>8
  <2>2. Uploaded \subseteq Uploaded'
    BY <2>1 DEF Uploaded, EditsOf
  <2>3. w \in DOMAIN log' /\ \A e \in body : \E x \in log'[w] : x.id = e
    <3>1. w \in DOMAIN log' /\ log'[w] = new
      BY <1>8
    <3>2. \A e \in body : \E x \in new : x.id = e
      BY <1>7
    <3> QED
      BY <3>1, <3>2
  <2>4. body \subseteq Uploaded'
    BY <2>3 DEF Uploaded, EditsOf
  <2> QED
    BY <2>2, <2>4
<1>12. Tells(c, "ok", a, DOMAIN log', Uploaded')
  <2>1. Says("sync", a)
    BY <1>5, <1>6 DEF Says
  <2> QED
    BY <1>5, <1>8, <1>11, <2>1 DEF Tells, w
<1>13. /\ role' \in [Account -> [Workspace -> Roles]] /\ mrev' \in [Account -> Nat]
       /\ gone' \subseteq DOMAIN log'
  <2>1. Change(c.account, c.w, "owner") /\ c.account \in Account /\ c.w \in Workspace
    BY <1>2, <1>3 DEF w, who
  <2>2. "owner" \in Roles
    BY DEF Roles
  <2>3. gone' \subseteq DOMAIN log'
    BY <1>1, <1>3, <1>8 DEF TypeOK
  <2> QED
    BY <1>1, <2>1, <2>2, <2>3, ChangeIs
<1>14. Reply(c, "ok", a)
  BY <1>3 DEF a, body, acc, who
<1>15. DOMAIN log \subseteq DOMAIN log' /\ "ok" \in Results
  BY <1>8 DEF Results
<1> HIDE DEF a
<1> QED
  BY <1>8, <1>9, <1>10, <1>11, <1>12, <1>13, <1>14, <1>15, Replied

\* A refused batch is answered with what the account may know.
LEMMA RefusalKeeps ==
  ASSUME Inv, NEW c \in calls, c.kind = "sync", RefuseSync(c),
         UNCHANGED <<session, db, tabs, history, scope>>
  PROVE  Inv'
<1> DEFINE w == c.w
           who == c.account
<1>1. TypeOK
  BY DEF Inv
<1>2. IsCall(c) /\ who \in Account /\ w \in Workspace
  BY CallIs
<1>3. w \in DOMAIN log
  BY <1>1, <1>2, RowIs DEF RefuseSync
<1>4. Refused(who, w) \in Access /\ Refused(who, w).kind = "server"
  <2> DEFINE rev == IF Exists(w) THEN arev[w] ELSE 0
             status == CASE w \in gone -> "deleted"
                         [] CanRead(who, w) -> "active"
                         [] OTHER -> "revoked"
             acc == ServerAccess(who, mrev[who], rev, status, role[who][w])
  <2>1. mrev[who] \in Nat /\ role[who][w] \in Roles /\ rev \in Nat
    BY <1>1, <1>2, <1>3, RowIs
  <2>2. status \in {"active", "left", "revoked", "deleted", "unknown"}
    OBVIOUS
  <2>3. Refused(who, w) = [acc EXCEPT !.write = FALSE]
    BY DEF Refused
  <2> HIDE DEF rev, status, who, w
  <2>4. acc \in Access /\ acc.kind = "server"
    BY <1>2, <2>1, <2>2, ServerAccessIs DEF who
  <2> HIDE DEF acc
  <2> QED
    BY <2>3, <2>4 DEF Access, AnyAccess
<1>5. c.asked.known.kind = "server" =>
        Unknown(who, c.asked.known) \in Access /\ Unknown(who, c.asked.known).kind = "server"
  <2>1. c.asked.known \in Access
    BY <1>2 DEF IsCall, Asks
  <2> QED
    BY <1>2, <2>1, NoRightsIs DEF Unknown
<1>6. PICK acc : /\ Reply(c, "ok", [accepted |-> FALSE, access |-> acc]) /\ NoChange
                 /\ acc \in Access /\ acc.kind = "server"
  BY <1>4, <1>5 DEF RefuseSync, Answer
<1> DEFINE a == [accepted |-> FALSE, access |-> acc]
<1>7. Tells(c, "ok", a, DOMAIN log, Uploaded) /\ "ok" \in Results
  <2>1. Says("sync", a)
    BY <1>6 DEF Says
  <2> QED
    BY <1>3, <2>1 DEF Tells, Results
<1> HIDE DEF a
<1>8. Reply(c, "ok", a)
  BY <1>6 DEF a
<1> QED
  BY <1>6, <1>7, <1>8, Informed

\* A download answers what the workspace's row says.
LEMMA ServedOpenKeeps ==
  ASSUME Inv, NEW c \in calls, c.kind = "open", ServeOpen(c),
         UNCHANGED <<session, db, tabs, history, scope>>
  PROVE  Inv'
<1>1. TypeOK
  BY DEF Inv
<1>2. c.account \in Account /\ c.w \in Workspace
  BY CallIs
<1>3. CASE CanRead(c.account, c.w)
  <2> DEFINE a == [state |-> EditsOf(c.w), access |-> Granted(c.account, c.w)]
  <2>1. Reply(c, "ok", a) /\ NoChange
    BY <1>3 DEF ServeOpen, Answer
  <2>2. c.w \in DOMAIN log
    BY <1>1, <1>2, <1>3, RowIs
  <2>3. /\ EditsOf(c.w) \subseteq Edit
        /\ Granted(c.account, c.w) \in Access /\ Granted(c.account, c.w).kind = "server"
    BY <1>1, <1>2, <2>2, RowIs
  <2>4. Says("open", a)
    BY <2>3 DEF Says
  <2>5. Tells(c, "ok", a, DOMAIN log, Uploaded) /\ "ok" \in Results
    BY <2>2, <2>4 DEF Tells, Results
  <2> HIDE DEF a
  <2> QED
    BY <2>1, <2>5, Informed
<1>4. CASE ~CanRead(c.account, c.w)
  <2>1. Reply(c, "refused", << >>) /\ NoChange
    BY <1>4 DEF ServeOpen, Fail
  <2>2. "refused" \in Results /\ Tells(c, "refused", << >>, DOMAIN log, Uploaded)
    BY DEF Results, Tells
  <2> QED
    BY <2>1, <2>2, Informed
<1> QED
  BY <1>3, <1>4

\* A page of the account's list is of workspaces the server knows.
LEMMA ServedListKeeps ==
  ASSUME Inv, NEW c \in calls, c.kind = "list", ServeList(c),
         UNCHANGED <<session, db, tabs, history, scope>>
  PROVE  Inv'
<1> DEFINE who == c.account
           K == {j \in DOMAIN Order : CanRead(who, Order[j]) /\
                   (c.asked.from = << >> \/ \E i \in 1..(j - 1) : Order[i] = c.asked.from[1].after)}
           rows == Picked(Order, K)
           n == IF Len(rows) < PageSize THEN Len(rows) ELSE PageSize
           page == SubSeq(rows, 1, n)
           more == Len(rows) > PageSize
           entries == [w \in ToSet(page) |-> [m |-> mrev[who], a |-> arev[w], role |-> role[who][w]]]
           next == IF more THEN <<[after |-> Last(page), m |-> mrev[who]]>> ELSE << >>
           a == [m |-> mrev[who], entries |-> entries, next |-> next]
<1>1. TypeOK
  BY DEF Inv
<1>2. who \in Account
  BY CallIs
<1>3. \/ Reply(c, "stale", << >>)
      \/ Reply(c, "ok", a)
  BY DEF ServeList, Fail, Answer
<1>4. NoChange
  BY DEF ServeList
<1>5. Order \in Seq(Workspace) /\ K \in SUBSET DOMAIN Order
  BY LocalAssumption
<1>6. /\ rows \in Seq(Workspace)
      /\ \A i \in DOMAIN rows : \E k \in K : rows[i] = Order[k]
  <2> HIDE DEF K
  <2> QED
    BY <1>5, PickedIs
<1>7. \A i \in DOMAIN rows : rows[i] \in Workspace /\ rows[i] \in DOMAIN log
  <2>1. \A k \in K : Order[k] \in Workspace /\ CanRead(who, Order[k])
    BY <1>5
  <2>2. \A k \in K : Order[k] \in DOMAIN log
    BY <1>1, <1>2, <2>1, RowIs
  <2> QED
    BY <1>6, <2>1, <2>2
<1> HIDE DEF rows, K
<1>8. /\ Len(rows) \in Nat /\ DOMAIN rows = 1..Len(rows)
      /\ PageSize \in Nat /\ PageSize > 0
  BY <1>6, LocalAssumption
<1>9. n \in Nat /\ n <= Len(rows) /\ (more => n > 0)
  BY <1>8
<1> HIDE DEF n
<1>10. Len(page) = n /\ DOMAIN page = 1..n /\ \A i \in 1..n : page[i] = rows[i]
  <2>1. n \in Int /\ 1 \in Int /\ \A i \in 1..n : rows[i] \in Workspace
    BY <1>7, <1>8, <1>9
  <2>2. /\ SubSeq(rows, 1, n) \in Seq(Workspace)
        /\ Len(SubSeq(rows, 1, n)) = IF 1 <= n THEN n - 1 + 1 ELSE 0
        /\ \A i \in 1 .. n - 1 + 1 : SubSeq(rows, 1, n)[i] = rows[1 + i - 1]
    BY <2>1, SubSeqProperties
  <2> QED
    BY <1>9, <2>2
<1> HIDE DEF page
<1>11. ToSet(page) \subseteq DOMAIN log \cap Workspace
  BY <1>7, <1>8, <1>9, <1>10 DEF ToSet
<1>12. entries \in Rows /\ DOMAIN entries \subseteq DOMAIN log
  <2>1. \A w \in ToSet(page) : mrev[who] \in Nat /\ arev[w] \in Nat /\ role[who][w] \in Roles
    BY <1>1, <1>2, <1>11, RowIs
  <2>2. DOMAIN entries = ToSet(page) /\ entries \in [ToSet(page) -> Row]
    BY <2>1 DEF Row
  <2> HIDE DEF entries
  <2>3. DOMAIN entries \subseteq Workspace /\ entries \in [DOMAIN entries -> Row]
    BY <1>11, <2>2
  <2> QED
    BY <1>11, <2>2, <2>3, PartialIs DEF Rows
<1>13. next \in Seq(Cursor)
  <2>1. more => Last(page) \in Workspace
    BY <1>7, <1>8, <1>9, <1>10 DEF Last
  <2>2. mrev[who] \in Nat
    BY <1>1, <1>2 DEF TypeOK
  <2>3. CASE more
    <3>1. [after |-> Last(page), m |-> mrev[who]] \in Cursor
      BY <2>1, <2>2, <2>3 DEF Cursor
    <3> QED
      BY <2>3, <3>1
  <2>4. CASE ~more
    BY <2>4
  <2> QED
    BY <2>3, <2>4
<1>14. mrev[who] \in Nat
  BY <1>1, <1>2 DEF TypeOK
<1> HIDE DEF entries, next
<1>15. Says("list", a)
  BY <1>12, <1>13, <1>14 DEF Says
<1>16. Tells(c, "ok", a, DOMAIN log, Uploaded) /\ Tells(c, "stale", << >>, DOMAIN log, Uploaded)
  BY <1>12, <1>15 DEF Tells
<1>17. {"ok", "stale"} \subseteq Results
  BY DEF Results
<1> HIDE DEF a
<1>18. CASE Reply(c, "ok", a)
  <2>1. "ok" \in Results
    BY <1>17
  <2> QED
    BY <1>4, <1>16, <1>18, <2>1, Informed
<1>19. CASE Reply(c, "stale", << >>)
  <2>1. "stale" \in Results
    BY <1>17
  <2> QED
    BY <1>4, <1>16, <1>19, <2>1, Informed
<1> QED
  BY <1>3, <1>18, <1>19

\* What the access panel asks is answered, or refused.
LEMMA StaleKeeps ==
  ASSUME Inv, NEW c \in calls, c.kind # "remove", ServeStale(c),
         UNCHANGED <<session, db, tabs, history, scope>>
  PROVE  Inv'
<1>1. Reply(c, "refused", << >>) /\ NoChange
  BY DEF ServeStale, Fail
<1>2. "refused" \in Results /\ Tells(c, "refused", << >>, DOMAIN log, Uploaded)
  BY DEF Results, Tells
<1> QED
  BY <1>1, <1>2, Informed

\* The access a member asks for is what the row says.
LEMMA ReadKeeps ==
  ASSUME Inv, NEW c \in calls, ServeRead(c), UNCHANGED <<session, db, tabs, history, scope>>
  PROVE  Inv'
<1> DEFINE a == [access |-> Granted(c.account, c.w)]
<1>1. TypeOK
  BY DEF Inv
<1>2. c.kind = "access" /\ c.account \in Account /\ c.w \in Workspace
  BY CallIs DEF ServeRead
<1>3. Reply(c, "ok", a) /\ NoChange
  BY DEF ServeRead, Answer
<1>4. c.w \in DOMAIN log
  BY <1>1, <1>2, RowIs DEF ServeRead
<1>5. Granted(c.account, c.w) \in Access /\ Granted(c.account, c.w).kind = "server"
  BY <1>1, <1>2, <1>4, RowIs
<1>6. Says("access", a)
  BY <1>5 DEF Says
<1>7. Tells(c, "ok", a, DOMAIN log, Uploaded) /\ "ok" \in Results
  BY <1>2, <1>4, <1>6 DEF Tells, Results
<1> HIDE DEF a
<1> QED
  BY <1>2, <1>3, <1>7, Informed

\* A change of the members of a workspace, and what is answered.
LEMMA MembersChange ==
  ASSUME Inv, NEW c \in calls, c.kind \in {"leave", "transfer", "delete"}, NEW a,
         Reply(c, "ok", a), UNCHANGED <<session, db, tabs, history, scope>>, log' = log,
         role' \in [Account -> [Workspace -> Roles]], mrev' \in [Account -> Nat],
         arev' \in [DOMAIN log -> Nat], gone' \subseteq DOMAIN log,
         c.w \in DOMAIN log, Says(c.kind, a)
  PROVE  Inv'
<1>1. TypeOK /\ Authors
  BY DEF Inv
<1>2. log' \in Partial(Workspace, SUBSET [id : Edit, by : Account]) /\ Uploaded' = Uploaded
  BY <1>1 DEF TypeOK, Uploaded, EditsOf
<1>3. \A w \in DOMAIN log' : \A x \in log'[w] : WorkOf(x.id, x.by, loose, author)
  BY <1>1 DEF Authors
<1>4. Tells(c, "ok", a, DOMAIN log', Uploaded') /\ "ok" \in Results
  BY DEF Tells, Results
<1>5. c.kind # "remove" /\ arev' \in [DOMAIN log' -> Nat] /\ gone' \subseteq DOMAIN log'
      /\ DOMAIN log \subseteq DOMAIN log' /\ Uploaded \subseteq Uploaded'
  BY <1>2
<1> QED
  BY <1>2, <1>3, <1>4, <1>5, Replied

\* A member leaves.
LEMMA ServedLeaveKeeps ==
  ASSUME Inv, NEW c \in calls, ServeLeave(c), UNCHANGED <<session, db, tabs, history, scope>>
  PROVE  Inv'
<1> DEFINE w == c.w
           who == c.account
           a == [m |-> mrev[who] + 1, a |-> arev[w] + 1]
<1>1. TypeOK
  BY DEF Inv
<1>2. c.kind = "leave" /\ who \in Account /\ w \in Workspace
  BY CallIs DEF ServeLeave
<1>3. /\ Reply(c, "ok", a) /\ log' = log /\ gone' = gone
      /\ Change(who, w, "none") /\ arev' = [arev EXCEPT ![w] = @ + 1]
  BY DEF ServeLeave, Answer
<1>4. w \in DOMAIN log
  BY <1>1, <1>2, RowIs DEF ServeLeave
<1>5. mrev[who] \in Nat /\ arev[w] \in Nat
  BY <1>1, <1>2, <1>4, RowIs
<1>6. role' \in [Account -> [Workspace -> Roles]] /\ mrev' \in [Account -> Nat]
  <2>1. "none" \in Roles
    BY DEF Roles
  <2> QED
    BY <1>1, <1>2, <1>3, <2>1, ChangeIs
<1>7. arev' \in [DOMAIN log -> Nat] /\ gone' \subseteq DOMAIN log
  BY <1>1, <1>3, <1>4, <1>5 DEF TypeOK
<1>8. Says("leave", a)
  BY <1>5 DEF Says
<1> HIDE DEF a
<1> QED
  BY <1>2, <1>3, <1>4, <1>6, <1>7, <1>8, MembersChange

\* The owner hands the workspace over.
LEMMA ServedTransferKeeps ==
  ASSUME Inv, NEW c \in calls, ServeTransfer(c), UNCHANGED <<session, db, tabs, history, scope>>
  PROVE  Inv'
<1> DEFINE w == c.w
           who == c.account
           a == [m |-> mrev[who] + 1, a |-> arev[w] + 2]
<1>1. TypeOK
  BY DEF Inv
<1>2. c.kind = "transfer" /\ who \in Account /\ w \in Workspace
  BY CallIs DEF ServeTransfer
<1>3. /\ Reply(c, "ok", a) /\ log' = log /\ gone' = gone
      /\ arev' = [arev EXCEPT ![w] = @ + 2]
  BY DEF ServeTransfer, Answer
<1>4. PICK b \in Account : /\ role' = [role EXCEPT ![who][w] = "editor", ![b][w] = "owner"]
                           /\ mrev' = [mrev EXCEPT ![who] = @ + 1, ![b] = @ + 1]
  BY DEF ServeTransfer, MembersOf
<1>5. w \in DOMAIN log
  BY <1>1, <1>2, RowIs DEF ServeTransfer, Owns
<1>6. mrev[who] \in Nat /\ arev[w] \in Nat
  BY <1>1, <1>2, <1>5, RowIs
<1> HIDE DEF who, w
<1>7. role' \in [Account -> [Workspace -> Roles]]
  <2>1. role \in [Account -> [Workspace -> Roles]] /\ {"editor", "owner"} \subseteq Roles
    BY <1>1 DEF TypeOK, Roles
  <2> DEFINE first == [role EXCEPT ![who][w] = "editor"]
  <2>2. first \in [Account -> [Workspace -> Roles]]
    BY <1>2, <2>1
  <2>3. role' = [first EXCEPT ![b][w] = "owner"]
    BY <1>4
  <2> HIDE DEF first
  <2> QED
    BY <2>1, <2>2, <2>3
<1>8. mrev' \in [Account -> Nat]
  <2>1. mrev \in [Account -> Nat]
    BY <1>1 DEF TypeOK
  <2>2. who \in Account
    BY <1>2 DEF who
  <2>3. \A x \in Account : mrev[x] + 1 \in Nat /\ mrev[x] + 1 + 1 \in Nat
    BY <2>1
  <2> QED
    BY <1>4, <2>1, <2>2, <2>3
<1>9. arev' \in [DOMAIN log -> Nat] /\ gone' \subseteq DOMAIN log
  BY <1>1, <1>3, <1>5, <1>6 DEF TypeOK
<1>10. Says("transfer", a)
  BY <1>6 DEF Says
<1>11. Reply(c, "ok", a) /\ c.w \in DOMAIN log
  BY <1>3, <1>5 DEF w
<1> HIDE DEF a
<1> QED
  BY <1>2, <1>3, <1>7, <1>8, <1>9, <1>10, <1>11, MembersChange

\* The owner deletes the workspace; its edits stay in the log.
LEMMA ServedDeleteKeeps ==
  ASSUME Inv, NEW c \in calls, ServeDelete(c), UNCHANGED <<session, db, tabs, history, scope>>
  PROVE  Inv'
<1> DEFINE w == c.w
           members == MembersOf(w)
           a == [a |-> arev[w] + Cardinality(members) + 1]
<1>1. TypeOK
  BY DEF Inv
<1>2. c.kind = "delete" /\ c.account \in Account /\ w \in Workspace
  BY CallIs DEF ServeDelete
<1>3. /\ Reply(c, "ok", a) /\ log' = log /\ arev' = arev /\ gone' = gone \cup {w}
      /\ mrev' = [b \in Account |-> IF b \in members THEN mrev[b] + 1 ELSE mrev[b]]
      /\ role' = [b \in Account |-> [role[b] EXCEPT ![w] = "none"]]
  BY DEF ServeDelete, Answer
<1>4. w \in DOMAIN log
  BY <1>1, <1>2, RowIs DEF ServeDelete, Owns
<1>5. arev[w] \in Nat
  BY <1>1, <1>2, <1>4, RowIs
<1>6. Cardinality(members) \in Nat
  <2>1. IsFiniteSet(Account)
    BY LocalAssumption
  <2>2. members \in SUBSET Account
    BY DEF MembersOf
  <2>3. IsFiniteSet(members)
    BY <2>1, <2>2, FS_Subset
  <2> QED
    BY <2>3, FS_CardinalityType
<1> HIDE DEF members
<1>7. /\ role' \in [Account -> [Workspace -> Roles]] /\ mrev' \in [Account -> Nat]
      /\ arev' \in [DOMAIN log -> Nat] /\ gone' \subseteq DOMAIN log
  <2>1. \A b \in Account : mrev[b] \in Nat /\ role[b] \in [Workspace -> Roles]
    BY <1>1 DEF TypeOK
  <2>2. \A b \in Account : [role[b] EXCEPT ![w] = "none"] \in [Workspace -> Roles]
    BY <2>1 DEF Roles
  <2>3. role' \in [Account -> [Workspace -> Roles]]
    BY <1>3, <2>2
  <2>4. mrev' \in [Account -> Nat]
    BY <1>3, <2>1
  <2> QED
    BY <1>1, <1>3, <1>4, <2>3, <2>4 DEF TypeOK
<1>8. Says("delete", a)
  BY <1>5, <1>6 DEF Says
<1> HIDE DEF a
<1> QED
  BY <1>2, <1>3, <1>4, <1>7, <1>8, MembersChange

\* Whatever the server does for a request.
LEMMA ServeKeeps ==
  ASSUME Inv, NEW c \in calls, Serve(c)
  PROVE  Inv'
<1>1. c.kind \notin {"remove", "apply"} /\ UNCHANGED <<session, db, tabs, history, scope>>
  BY DEF Serve
<1>2. CASE ServeNobody(c) \/ ServeRevoked(c)
  BY <1>1, <1>2, NobodyKeeps
<1>3. CASE c.kind = "sync" /\ ServeSync(c)
  BY <1>1, <1>3, UploadKeeps, BackupKeeps, RefusalKeeps DEF ServeSync
<1>4. CASE c.kind = "open" /\ ServeOpen(c)
  BY <1>1, <1>4, ServedOpenKeeps
<1>5. CASE c.kind = "list" /\ ServeList(c)
  BY <1>1, <1>5, ServedListKeeps
<1>6. CASE ServeAccess(c)
  BY <1>1, <1>6, StaleKeeps, ReadKeeps, ServedLeaveKeeps, ServedTransferKeeps, ServedDeleteKeeps
     DEF ServeAccess
<1> QED
  BY <1>2, <1>3, <1>4, <1>5, <1>6 DEF Serve

(* The browser: what its steps are made of. *)

\* What a tab holds in memory.
LEMMA TabIs ==
  ASSUME Inv, NEW t \in Tab
  PROVE  /\ tabs[t] \in TabState /\ TabHolds(tabs[t], DOMAIN log)
         /\ tabs[t].who \in Accounts /\ tabs[t].shown \in Partial(Workspace, Copy)
         /\ tabs[t].ended \in Partial(Workspace, Access) /\ tabs[t].read \in Rows
         /\ tabs[t].panel \in Seq(Board)
<1>1. tabs[t] \in TabState /\ TabHolds(tabs[t], DOMAIN log)
  BY DEF Inv, TypeOK, Told
<1> QED
  BY <1>1 DEF TabState

\* One tab changes.
LEMMA TabChanges ==
  ASSUME Inv, NEW t \in Tab, NEW v \in TabState, TabHolds(v, DOMAIN log),
         tabs' = [tabs EXCEPT ![t] = v]
  PROVE  tabs' \in [Tab -> TabState] /\ \A x \in Tab : TabHolds(tabs'[x], DOMAIN log)
<1>1. tabs \in [Tab -> TabState] /\ \A x \in Tab : TabHolds(tabs[x], DOMAIN log)
  BY DEF Inv, TypeOK, Told
<1> QED
  BY <1>1

\* The database and its copies.
LEMMA StoredIs ==
  ASSUME Inv
  PROVE  /\ db \in Db /\ Agrees(db) /\ Moves(db, db)
         /\ db.copies \in Partial(Workspace, Copy) /\ db.open \in Partial(Workspace, Copy)
         /\ db.clock \in Nat
         /\ \A w \in DOMAIN db.copies :
              /\ w \in Workspace /\ db.copies[w] \in Copy /\ db.copies[w].stamp < db.clock
              /\ CopyHolds(w, db.copies[w], DOMAIN log, loose, author)
<1>1. db \in Db /\ Agrees(db) /\ Copies /\ Dates
  BY AgreesIs DEF Inv, TypeOK
<1>2. /\ db.copies \in Partial(Workspace, Copy) /\ db.open \in Partial(Workspace, Copy)
      /\ db.clock \in Nat /\ \A w \in DOMAIN db.copies : w \in Workspace /\ db.copies[w] \in Copy
  BY <1>1, DbIs
<1>3. \A w \in DOMAIN db.copies : /\ db.copies[w].stamp < db.clock
                                  /\ CopyHolds(w, db.copies[w], DOMAIN log, loose, author)
  BY <1>1 DEF Copies, Dates
<1>4. Moves(db, db)
  BY <1>2, <1>3 DEF Moves
<1> QED
  BY <1>1, <1>2, <1>3, <1>4

\* A step that stores changed copies but loses no work and drops none.
LEMMA StoreStep ==
  ASSUME Inv, UNCHANGED <<session, server, history, scope>>,
         db' \in Db, Agrees(db'), Moves(db, db'),
         \A w \in DOMAIN db'.copies : CopyHolds(w, db'.copies[w], DOMAIN log, loose, author),
         QueuedOf(db) \subseteq QueuedOf(db') \cup Uploaded,
         tabs' \in [Tab -> TabState], \A t \in Tab : TabHolds(tabs'[t], DOMAIN log),
         \A c \in calls' : \/ c \in calls
                           \/ /\ CallHolds(c, DOMAIN log, loose, author, Uploaded)
                              /\ DateHolds(c, db')
  PROVE  Inv'
<1>1. /\ UNCHANGED <<role, mrev, arev, log, gone, scope>> /\ session' = session
      /\ author' = author /\ loose' = loose /\ given' = given
  BY DEF server, history
<1>2. TypeOK
  BY DEF Inv
<1>3. /\ session' \in Accounts /\ author' \in Partial(Edit, Accounts)
      /\ loose' \subseteq Edit /\ given' \subseteq Edit
  BY <1>1, <1>2 DEF TypeOK
<1>4. given \subseteq given' /\ More(loose, author, loose', author')
  BY <1>1 DEF More
<1>5. DOMAIN author' \subseteq DOMAIN author \cup QueuedOf(db')
      /\ QueuedOf(db) \subseteq QueuedOf(db') \cup Uploaded \cup given'
  BY <1>1
<1>6. \A w \in DOMAIN db'.copies : CopyHolds(w, db'.copies[w], DOMAIN log, loose', author')
  BY <1>1
<1>7. \A c \in calls' : \/ c \in calls
                        \/ /\ CallHolds(c, DOMAIN log, loose', author', Uploaded)
                           /\ DateHolds(c, db')
  BY <1>1
<1> QED
  BY <1>1, <1>3, <1>4, <1>5, <1>6, <1>7, BrowserStep

\* A step that leaves every copy as it was.
LEMMA MemoryStep ==
  ASSUME Inv, UNCHANGED <<server, history, scope>>, session' \in Accounts,
         db' \in Db, Agrees(db'), db'.copies = db.copies, db'.clock = db.clock,
         tabs' \in [Tab -> TabState], \A t \in Tab : TabHolds(tabs'[t], DOMAIN log),
         \A c \in calls' : \/ c \in calls
                           \/ /\ CallHolds(c, DOMAIN log, loose, author, Uploaded)
                              /\ DateHolds(c, db')
  PROVE  Inv'
<1>1. /\ UNCHANGED <<role, mrev, arev, log, gone, scope>>
      /\ author' = author /\ loose' = loose /\ given' = given
  BY DEF server, history
<1>2. TypeOK
  BY DEF Inv
<1>3. /\ author' \in Partial(Edit, Accounts) /\ loose' \subseteq Edit /\ given' \subseteq Edit
  BY <1>1, <1>2 DEF TypeOK
<1>4. given \subseteq given' /\ More(loose, author, loose', author')
  BY <1>1 DEF More
<1>5. QueuedOf(db') = QueuedOf(db)
  BY DEF QueuedOf
<1>6. DOMAIN author' \subseteq DOMAIN author \cup QueuedOf(db')
      /\ QueuedOf(db) \subseteq QueuedOf(db') \cup Uploaded \cup given'
  BY <1>1, <1>5
<1>7. \A w \in DOMAIN db'.copies : CopyHolds(w, db'.copies[w], DOMAIN log, loose', author')
  BY <1>1, StoredIs
<1>8. Moves(db, db')
  BY StoredIs DEF Moves
<1>9. \A c \in calls' : \/ c \in calls
                        \/ /\ CallHolds(c, DOMAIN log, loose', author', Uploaded)
                           /\ DateHolds(c, db')
  BY <1>1
<1> QED
  BY <1>1, <1>3, <1>4, <1>6, <1>7, <1>8, <1>9, BrowserStep

\* A request as it is made.
LEMMA RequestIs ==
  ASSUME Inv, NEW t \in Tab, NEW kind \in Kinds, NEW w, NEW asked,
         kind \notin {"list", "apply"} => w \in Workspace,
         kind # "remove" => tabs[t].who \in Account, Asks(kind, asked)
  PROVE  LET c == Request(t, kind, w, asked)
         IN  /\ IsCall(c) /\ c.kind = kind /\ c.w = w /\ c.asked = asked
             /\ c.account = tabs[t].who /\ c.result = "none"
<1> DEFINE c == Request(t, kind, w, asked)
<1>1. tabs[t].who \in Accounts /\ session \in Accounts
  BY TabIs DEF Inv, TypeOK
<1>2. c = [kind |-> kind, tab |-> t, w |-> w, account |-> tabs[t].who, cookie |-> session,
           asked |-> asked, result |-> "none", answer |-> << >>]
  BY DEF Request
<1> HIDE DEF c
<1>3. /\ c.kind = kind /\ c.w = w /\ c.asked = asked /\ c.account = tabs[t].who
      /\ c.result = "none" /\ c.tab = t /\ c.cookie = session
  BY <1>2
<1>4. c \in [kind : Kinds, tab : Tab, w : {c.w}, account : Accounts, cookie : Accounts,
             asked : {c.asked}, result : Results, answer : {c.answer}]
  <2>1. "none" \in Results /\ c.answer = << >>
    BY <1>2 DEF Results
  <2> QED
    BY <1>1, <1>2, <1>3, <2>1
<1>5. IsCall(c)
  BY <1>3, <1>4 DEF IsCall
<1> QED
  BY <1>3, <1>5 DEF c

\* Most requests ask nothing that could be wrong.
LEMMA PlainRequest ==
  ASSUME Inv, NEW t \in Tab, NEW kind \in Kinds \ {"remove", "sync", "apply"}, NEW w, NEW asked,
         kind # "list" => w \in Workspace, tabs[t].who \in Account, Asks(kind, asked)
  PROVE  LET c == Request(t, kind, w, asked)
         IN  /\ CallHolds(c, DOMAIN log, loose, author, Uploaded) /\ c.kind = kind
             /\ \A d : DateHolds(c, d)
<1> DEFINE c == Request(t, kind, w, asked)
<1>1. IsCall(c) /\ c.kind = kind /\ c.result = "none"
  BY RequestIs
<1> HIDE DEF c
<1>2. CallHolds(c, DOMAIN log, loose, author, Uploaded)
  BY <1>1 DEF CallHolds
<1>3. \A d : DateHolds(c, d)
  BY <1>1 DEF DateHolds
<1> QED
  BY <1>1, <1>2, <1>3 DEF c

\* A tab that has read no more and keeps no other deletion.
LEMMA SameReading ==
  ASSUME Inv, NEW t \in Tab, NEW v, v.read = tabs[t].read,
         v.panel = tabs[t].panel \/ v.panel = << >>
  PROVE  TabHolds(v, DOMAIN log)
<1>1. TabHolds(tabs[t], DOMAIN log)
  BY TabIs
<1>2. DOMAIN << >> = {}
  BY NothingIn
<1> QED
  BY <1>1, <1>2 DEF TabHolds

\* What tabs show of copies.
LEMMA ShownIs ==
  ASSUME Inv, NEW t \in Tab, NEW w \in Workspace, NEW copy \in Copy
  PROVE  /\ Show(tabs[t], w, copy) \in TabState
         /\ TabHolds(Show(tabs[t], w, copy), DOMAIN log)
         /\ ShowIf(tabs[t], w, copy) \in TabState
         /\ TabHolds(ShowIf(tabs[t], w, copy), DOMAIN log)
<1> DEFINE one == Only(w, copy)
           shown == IF w \in DOMAIN tabs[t].shown THEN one ELSE tabs[t].shown
<1>1. /\ one \in Partial(Workspace, Copy) /\ tabs[t] \in TabState
      /\ << >> \in Seq(Board)
  <2>1. one \in Partial(Workspace, Copy)
    BY OnlyIn
  <2>2. tabs[t] \in TabState
    BY TabIs
  <2> QED
    BY <2>1, <2>2
<1>2. shown \in Partial(Workspace, Copy)
  BY <1>1, TabIs
<1>3. /\ Show(tabs[t], w, copy) = [tabs[t] EXCEPT !.shown = one, !.panel = << >>]
      /\ ShowIf(tabs[t], w, copy) = [tabs[t] EXCEPT !.shown = shown]
  BY DEF Show, ShowIf
<1> HIDE DEF one, shown
<1>4. /\ Show(tabs[t], w, copy) \in TabState /\ Show(tabs[t], w, copy).read = tabs[t].read
      /\ Show(tabs[t], w, copy).panel = << >>
  BY <1>1, <1>3 DEF TabState
<1>5. /\ ShowIf(tabs[t], w, copy) \in TabState /\ ShowIf(tabs[t], w, copy).read = tabs[t].read
      /\ ShowIf(tabs[t], w, copy).panel = tabs[t].panel
  BY <1>1, <1>2, <1>3 DEF TabState
<1> QED
  BY <1>4, <1>5, SameReading

\* Signing in or out touches only the cookie.
LEMMA SwitchKeeps ==
  ASSUME Inv, SwitchAccount
  PROVE  Inv'
<1>1. /\ UNCHANGED <<server, history, scope>> /\ UNCHANGED <<db, tabs, calls>>
      /\ session' \in Accounts
  BY DEF SwitchAccount, Accounts
<1>2. tabs' \in [Tab -> TabState] /\ \A t \in Tab : TabHolds(tabs'[t], DOMAIN log)
  BY <1>1 DEF Inv, TypeOK, Told
<1>3. db' \in Db /\ Agrees(db') /\ db'.copies = db.copies /\ db'.clock = db.clock
  BY <1>1, StoredIs
<1> QED
  BY <1>1, <1>2, <1>3, MemoryStep

\* A change of roles by somebody else.
LEMMA RoleKeeps ==
  ASSUME Inv, NEW a \in Account, NEW w \in Workspace, NEW to \in Roles, ChangeRole(a, w, to)
  PROVE  Inv'
<1>1. TypeOK /\ Authors
  BY DEF Inv
<1>2. /\ UNCHANGED <<session, log, gone, db, tabs, calls, author, loose, given, scope>>
      /\ Change(a, w, to) /\ arev' = [arev EXCEPT ![w] = @ + 1] /\ w \in DOMAIN log
  BY DEF ChangeRole, history, Exists
<1>3. role' \in [Account -> [Workspace -> Roles]] /\ mrev' \in [Account -> Nat]
  BY <1>1, <1>2, ChangeIs
<1>4. arev' \in [DOMAIN log' -> Nat]
  BY <1>1, <1>2 DEF TypeOK
<1>5. /\ log' \in Partial(Workspace, SUBSET [id : Edit, by : Account])
      /\ gone' \subseteq DOMAIN log' /\ Uploaded' = Uploaded
  BY <1>1, <1>2 DEF TypeOK, Uploaded, EditsOf
<1>6. \A x \in DOMAIN log' : \A y \in log'[x] : WorkOf(y.id, y.by, loose, author)
  BY <1>1, <1>2 DEF Authors
<1>7. /\ UNCHANGED <<session, db, tabs, author, loose, given, scope>>
      /\ DOMAIN log \subseteq DOMAIN log' /\ Uploaded \subseteq Uploaded'
      /\ \A c \in calls' : c \in calls
  BY <1>2, <1>5
<1> QED
  BY <1>3, <1>4, <1>5, <1>6, <1>7, ServerStep

\* The tab hears who is signed in.
LEMMA CheckKeeps ==
  ASSUME Inv, NEW t \in Tab, CheckAuth(t)
  PROVE  Inv'
<1> DEFINE status == IF session = Nobody THEN "signedOut" ELSE "available"
           panel == IF tabs[t].who = session THEN tabs[t].panel ELSE << >>
           v == [tabs[t] EXCEPT !.who = session, !.status = status, !.panel = panel]
           u == [tabs[t] EXCEPT !.status = "available"]
<1>0. tabs \in [Tab -> TabState] /\ session \in Accounts
  BY DEF Inv, TypeOK
<1>1. tabs[t] \in TabState /\ panel \in Seq(Board)
  BY TabIs
<1> HIDE DEF panel
<1>2. /\ v \in TabState /\ v.read = tabs[t].read /\ v.panel = panel
      /\ u \in TabState /\ u.read = tabs[t].read /\ u.panel = tabs[t].panel
  BY <1>0, <1>1 DEF TabState
<1>3. TabHolds(v, DOMAIN log) /\ TabHolds(u, DOMAIN log)
  BY <1>2, SameReading DEF panel
<1>4. UNCHANGED <<session, server, calls, history, scope>>
  BY DEF CheckAuth
<1>7. \/ tabs' = [tabs EXCEPT ![t] = v] /\ db' = [db EXCEPT !.account = session]
      \/ tabs' = [tabs EXCEPT ![t] = u] /\ db' = db
  <2>1. CASE /\ tabs' = [tabs EXCEPT ![t].who = session,
                           ![t].status = IF session = Nobody THEN "signedOut" ELSE "available",
                           ![t].panel = IF tabs[t].who = session THEN @ ELSE << >>]
             /\ db' = [db EXCEPT !.account = session]
    BY <1>0, <1>1, <2>1 DEF panel
  <2>2. CASE tabs' = [tabs EXCEPT ![t].status = "available"] /\ db' = db
    BY <1>0, <2>2
  <2> HIDE DEF u, v
  <2> QED
    BY <2>1, <2>2 DEF CheckAuth
<1> HIDE DEF u, v
<1>5. tabs' \in [Tab -> TabState] /\ \A x \in Tab : TabHolds(tabs'[x], DOMAIN log)
  BY <1>2, <1>3, <1>7, TabChanges
<1>6. db' \in Db /\ Agrees(db') /\ db'.copies = db.copies /\ db'.clock = db.clock
  BY <1>0, <1>7, StoredIs DEF Db, Agrees
<1> QED
  BY <1>0, <1>4, <1>5, <1>6, MemoryStep

\* A tab that is loaded again shows what is stored.
LEMMA ReloadKeeps ==
  ASSUME Inv, NEW t \in Tab, Reload(t)
  PROVE  Inv'
<1>1. /\ UNCHANGED <<session, server, db, history, scope>> /\ calls' \subseteq calls
      /\ tabs' = [tabs EXCEPT ![t] = NewTab(t)]
  BY DEF Reload
<1>2. db.account \in Accounts /\ db.open \in Partial(Workspace, Copy) /\ session \in Accounts
  BY StoredIs DEF Db, Inv, TypeOK
<1>3. /\ << >> \in Partial(Workspace, Access) /\ << >> \in Rows /\ << >> \in Seq(Board)
      /\ DOMAIN << >> = {}
  BY NothingIn DEF Rows
<1>4. NewTab(t) \in TabState
  BY <1>2, <1>3 DEF NewTab, TabState
<1>5. TabHolds(NewTab(t), DOMAIN log)
  BY <1>3 DEF NewTab, TabHolds
<1>6. tabs' \in [Tab -> TabState] /\ \A x \in Tab : TabHolds(tabs'[x], DOMAIN log)
  BY <1>1, <1>4, <1>5, TabChanges
<1> QED
  BY <1>1, <1>2, <1>6, StoredIs, MemoryStep

\* A tab that follows another shows what is stored.
LEMMA FollowKeeps ==
  ASSUME Inv, NEW t \in Tab, Follow(t)
  PROVE  Inv'
<1>1. PICK w \in DOMAIN tabs[t].shown :
        tabs' = [tabs EXCEPT ![t].shown = IF Stored(db, w) THEN Only(w, db.copies[w]) ELSE << >>]
  BY DEF Follow
<1>2. UNCHANGED <<session, server, db, calls, history, scope>>
  BY DEF Follow
<1> DEFINE now == IF Stored(db, w) THEN Only(w, db.copies[w]) ELSE << >>
           v == [tabs[t] EXCEPT !.shown = now]
<1>3. now \in Partial(Workspace, Copy)
  <2>1. CASE Stored(db, w)
    <3>1. w \in Workspace /\ db.copies[w] \in Copy
      BY <2>1, StoredIs DEF Stored
    <3> QED
      BY <2>1, <3>1, OnlyIn
  <2>2. CASE ~Stored(db, w)
    BY <2>2, NothingIn
  <2> QED
    BY <2>1, <2>2
<1>4. tabs' = [tabs EXCEPT ![t].shown = now]
  BY <1>1
<1> HIDE DEF now
<1>5. v \in TabState /\ v.read = tabs[t].read /\ v.panel = tabs[t].panel
  BY <1>3, TabIs DEF TabState
<1>6. tabs' = [tabs EXCEPT ![t] = v]
  BY <1>4
<1> HIDE DEF v
<1>7. tabs' \in [Tab -> TabState] /\ \A x \in Tab : TabHolds(tabs'[x], DOMAIN log)
  BY <1>5, <1>6, SameReading, TabChanges
<1>8. session \in Accounts
  BY DEF Inv, TypeOK
<1> QED
  BY <1>2, <1>7, <1>8, StoredIs, MemoryStep

\* Nobody waits for a call any more.
LEMMA LoseKeeps ==
  ASSUME Inv, NEW c \in calls, Lose(c)
  PROVE  Inv'
<1>1. UNCHANGED <<session, server, db, tabs, history, scope>> /\ calls' \subseteq calls
  BY DEF Lose, Done
<1>2. /\ session \in Accounts /\ tabs' \in [Tab -> TabState]
      /\ \A t \in Tab : TabHolds(tabs'[t], DOMAIN log)
  BY <1>1 DEF Inv, TypeOK, Told
<1> QED
  BY <1>1, <1>2, StoredIs, MemoryStep

(* The browser: what tabs ask for. *)

\* A tab that only asks.
LEMMA AskStep ==
  ASSUME Inv, UNCHANGED <<session, server, db, history, scope>>, NEW c,
         CallHolds(c, DOMAIN log, loose, author, Uploaded), DateHolds(c, db),
         calls' \subseteq calls \cup {c},
         tabs' \in [Tab -> TabState], \A t \in Tab : TabHolds(tabs'[t], DOMAIN log)
  PROVE  Inv'
<1>1. session' \in Accounts
  BY DEF Inv, TypeOK
<1>2. db' \in Db /\ Agrees(db') /\ db'.copies = db.copies /\ db'.clock = db.clock
  BY StoredIs
<1>3. \A x \in calls' : \/ x \in calls
                        \/ /\ CallHolds(x, DOMAIN log, loose, author, Uploaded)
                           /\ DateHolds(x, db')
  OBVIOUS
<1> QED
  BY <1>1, <1>2, <1>3, MemoryStep

\* Tabs that do not change.
LEMMA TabsStay ==
  ASSUME Inv, tabs' = tabs
  PROVE  tabs' \in [Tab -> TabState] /\ \A t \in Tab : TabHolds(tabs'[t], DOMAIN log)
BY DEF Inv, TypeOK, Told

\* What the user saw of a copy is what it holds as long as it has that date.
LEMMA ReviewKeeps ==
  ASSUME Inv, NEW t \in Tab, NEW w \in Workspace, ReviewRemoval(t, w)
  PROVE  Inv'
<1> DEFINE asked == [stamp |-> db.copies[w].stamp, loses |-> IdsOf(db.copies[w].outbox)]
           c == Request(t, "remove", w, asked)
<1>1. UNCHANGED <<session, server, db, tabs, history, scope>> /\ calls' = calls \cup {c}
  BY DEF ReviewRemoval, Ask
<1>2. w \in DOMAIN db.copies /\ db.copies[w] \in Copy /\ db.copies[w].stamp < db.clock
  BY StoredIs DEF ReviewRemoval, Stored
<1>3. asked \in [stamp : Nat, loses : SUBSET Edit]
  <2>1. \A i \in DOMAIN db.copies[w].outbox : db.copies[w].outbox[i] \in Entry
    BY <1>2 DEF Copy
  <2>2. IdsOf(db.copies[w].outbox) \subseteq Edit
    BY <2>1 DEF IdsOf, Entry
  <2> QED
    BY <1>2, <2>2 DEF Copy
<1>4. asked.stamp = db.copies[w].stamp /\ asked.loses = IdsOf(db.copies[w].outbox)
  OBVIOUS
<1> HIDE DEF asked
<1>5. Asks("remove", asked) /\ "remove" \in Kinds
  BY <1>3 DEF Asks, Kinds
<1>6. IsCall(c) /\ c.kind = "remove" /\ c.w = w /\ c.asked = asked /\ c.result = "none"
  BY <1>5, RequestIs
<1> HIDE DEF c
<1>7. CallHolds(c, DOMAIN log, loose, author, Uploaded)
  BY <1>6 DEF CallHolds
<1>8. DateHolds(c, db)
  BY <1>2, <1>4, <1>6 DEF DateHolds
<1> QED
  BY <1>1, <1>7, <1>8, TabsStay, AskStep

\* A batch is of the work of the account that sends it, or of a device-only copy.
LEMMA FlushKeeps ==
  ASSUME Inv, NEW t \in Tab, NEW w \in Workspace, Flush(t, w)
  PROVE  Inv'
<1> DEFINE copy == db.copies[w]
           acc == copy.access
           who == tabs[t].who
           batch == SelectBatch(copy.outbox, IF acc.kind = "server" THEN who ELSE Nobody)
           asked == [batch |-> batch, body |-> copy.state, known |-> acc]
           c == Request(t, "sync", w, asked)
<1>1. UNCHANGED <<session, server, db, tabs, history, scope>> /\ calls' = calls \cup {c}
  BY DEF Flush, Ask
<1>2. w \in DOMAIN db.copies /\ copy \in Copy /\ CopyHolds(w, copy, DOMAIN log, loose, author)
  BY StoredIs DEF Flush, Stored
<1>3. who \in Account
  <2>1. who \in Accounts
    BY TabIs
  <2> QED
    BY <2>1 DEF Flush, Accounts
<1> HIDE DEF who
<1>4. copy.outbox \in Seq(Entry) /\ copy.state \subseteq Edit /\ acc \in Access
  BY <1>2 DEF Copy
<1> HIDE DEF copy
<1>5. /\ batch \in Seq(Entry)
      /\ \A i \in DOMAIN batch :
           /\ \E k \in DOMAIN copy.outbox : batch[i] = copy.outbox[k]
           /\ acc.kind = "server" => batch[i].account = who
  <2>1. who # Nobody
    BY <1>3, LocalAssumption
  <2> QED
    BY <1>4, <2>1, BatchIs
<1> HIDE DEF batch
<1>6. Asks("sync", asked) /\ "sync" \in Kinds
  BY <1>4, <1>5 DEF Asks, Kinds
<1>7. asked.batch = batch /\ asked.body = copy.state /\ asked.known = acc
  OBVIOUS
<1> HIDE DEF asked
<1>8. /\ IsCall(c) /\ c.kind = "sync" /\ c.w = w /\ c.asked = asked /\ c.account = who
      /\ c.result = "none"
  BY <1>3, <1>6, RequestIs DEF who
<1> HIDE DEF c
<1>9. SyncHolds(c, DOMAIN log, loose, author, Uploaded)
  <2>1. CASE acc.kind = "server"
    <3>1. w \in DOMAIN log
      BY <1>2, <2>1 DEF CopyHolds
    <3>2. ASSUME NEW i \in DOMAIN batch
          PROVE  WorkOf(batch[i].id, who, loose, author)
      <4>1. PICK k \in DOMAIN copy.outbox : batch[i] = copy.outbox[k]
        BY <1>5
      <4>2. copy.outbox[k].account = who /\ who # Nobody
        BY <1>3, <1>5, <2>1, <4>1, LocalAssumption
      <4> QED
        BY <1>2, <4>1, <4>2 DEF CopyHolds
    <3> QED
      BY <1>7, <1>8, <2>1, <3>1, <3>2 DEF SyncHolds
  <2>2. CASE acc.kind = "device"
    <3>1. copy.state \subseteq loose /\ IdsOf(copy.outbox) \subseteq copy.state
      BY <1>2, <2>2 DEF CopyHolds
    <3>2. IdsOf(batch) \subseteq IdsOf(copy.outbox)
      BY <1>5 DEF IdsOf
    <3> QED
      BY <1>7, <1>8, <2>2, <3>1, <3>2 DEF SyncHolds
  <2> QED
    BY <1>4, <2>1, <2>2 DEF Access, AnyAccess
<1>10. CallHolds(c, DOMAIN log, loose, author, Uploaded) /\ DateHolds(c, db)
  BY <1>8, <1>9 DEF CallHolds, DateHolds
<1> QED
  BY <1>1, <1>10, TabsStay, AskStep

\* A stored copy opens, or a download is asked for.
LEMMA OpenKeeps ==
  ASSUME Inv, NEW t \in Tab, NEW w \in Workspace, Open(t, w)
  PROVE  Inv'
<1>1. UNCHANGED <<session, server, history, scope>>
  BY DEF Open
<1>2. CASE Stored(db, w)
  <2>1. /\ db' = Activate(db, w) /\ calls' = calls
        /\ tabs' = [tabs EXCEPT ![t] = Show(@, w, db.copies[w])]
    BY <1>2 DEF Open
  <2>2. w \in DOMAIN db.copies /\ db.copies[w] \in Copy
    BY <1>2, StoredIs DEF Stored
  <2>3. db' \in Db /\ Agrees(db') /\ db'.copies = db.copies /\ db'.clock = db.clock
    BY <2>1, <2>2, StoredIs, ActivateIs
  <2>4. tabs' \in [Tab -> TabState] /\ \A x \in Tab : TabHolds(tabs'[x], DOMAIN log)
    <3> DEFINE v == Show(tabs[t], w, db.copies[w])
    <3>1. v \in TabState /\ TabHolds(v, DOMAIN log)
      BY <2>2, ShownIs
    <3>2. tabs' = [tabs EXCEPT ![t] = v]
      BY <2>1
    <3> HIDE DEF v
    <3> QED
      BY <3>1, <3>2, TabChanges
  <2>5. session' \in Accounts
    BY <1>1 DEF Inv, TypeOK
  <2> QED
    BY <1>1, <2>1, <2>3, <2>4, <2>5, MemoryStep
<1>3. CASE ~Stored(db, w)
  <2> DEFINE c == Request(t, "open", w, << >>)
  <2>1. UNCHANGED <<db, tabs>> /\ calls' = calls \cup {c} /\ tabs[t].who # Nobody
    BY <1>3 DEF Open, Ask
  <2>2. tabs[t].who \in Account
    BY <2>1, TabIs DEF Accounts
  <2>3. "open" \in Kinds \ {"remove", "sync", "apply"} /\ Asks("open", << >>)
    BY DEF Kinds, Asks
  <2>4. CallHolds(c, DOMAIN log, loose, author, Uploaded) /\ DateHolds(c, db)
    BY <2>2, <2>3, PlainRequest
  <2> HIDE DEF c
  <2> QED
    BY <1>1, <2>1, <2>4, TabsStay, AskStep
<1> QED
  BY <1>2, <1>3

\* Where to read an account's list on.
LEMMA CatalogIs ==
  ASSUME Inv, NEW a \in Accounts
  PROVE  CatalogOf(db, a) \in Listing
<1>1. db.catalogs \in Partial(Accounts, Listing)
  BY StoredIs, DbIs
<1>2. \A x \in DOMAIN db.catalogs : db.catalogs[x] \in Listing
  BY <1>1, PartialIs
<1>3. << >> \in Rows
  BY NothingIn DEF Rows
<1>4. NoCatalog \in Listing
  BY <1>3 DEF NoCatalog, Listing
<1> QED
  BY <1>2, <1>4 DEF CatalogOf

\* A page of the account's list is asked for.
LEMMA ListKeeps ==
  ASSUME Inv, NEW t \in Tab, List(t)
  PROVE  Inv'
<1>1. UNCHANGED <<session, server, db, tabs, history, scope>> /\ tabs[t].who # Nobody
  BY DEF List
<1>2. tabs[t].who \in Account
  BY <1>1, TabIs DEF Accounts
<1>3. PICK from \in {<< >>} \cup {CatalogOf(db, tabs[t].who).next} :
        calls' = Other(t) \cup {Request(t, "list", Order[1], [from |-> from])}
  BY DEF List
<1> DEFINE c == Request(t, "list", Order[1], [from |-> from])
<1>4. from \in Seq(Cursor)
  <2>1. CatalogOf(db, tabs[t].who) \in Listing
    BY <1>2, CatalogIs DEF Accounts
  <2>2. CatalogOf(db, tabs[t].who).next \in Seq(Cursor)
    BY <2>1 DEF Listing
  <2>3. << >> \in Seq(Cursor)
    OBVIOUS
  <2> QED
    BY <2>2, <2>3
<1>5. Asks("list", [from |-> from]) /\ "list" \in Kinds \ {"remove", "sync", "apply"}
  BY <1>4 DEF Asks, Kinds
<1>6. CallHolds(c, DOMAIN log, loose, author, Uploaded) /\ DateHolds(c, db)
  BY <1>2, <1>5, PlainRequest
<1>7. calls' \subseteq calls \cup {c}
  BY <1>3 DEF Other
<1> HIDE DEF c
<1> QED
  BY <1>1, <1>6, <1>7, TabsStay, AskStep

\* The panel that is shown, or a new one.
LEMMA PanelIs ==
  ASSUME Inv, NEW t \in Tab, NEW w \in Workspace
  PROVE  /\ Panel(t, w) \in Board /\ Panel(t, w).w = w
         /\ Panel(t, w).kept # << >> =>
              /\ Len(Panel(t, w).kept) = 2 /\ Panel(t, w).kept[1].kind = "server"
              /\ w \in DOMAIN log
<1>1. tabs[t].panel \in Seq(Board) /\ TabHolds(tabs[t], DOMAIN log)
  BY TabIs
<1>2. CASE tabs[t].panel # << >> /\ tabs[t].panel[1].w = w
  <2>1. 1 \in DOMAIN tabs[t].panel /\ tabs[t].panel[1] \in Board
    BY <1>1, <1>2
  <2>2. Panel(t, w) = tabs[t].panel[1]
    BY <1>2 DEF Panel
  <2> QED
    BY <1>1, <1>2, <2>1, <2>2 DEF TabHolds
<1>3. CASE ~(tabs[t].panel # << >> /\ tabs[t].panel[1].w = w)
  BY <1>3 DEF Panel, NewPanel, Board
<1> QED
  BY <1>2, <1>3

\* The access panel opens and asks for its data.
LEMMA LoadKeeps ==
  ASSUME Inv, NEW t \in Tab, NEW w \in Workspace, LoadAccess(t, w)
  PROVE  Inv'
<1> DEFINE c == Request(t, "access", w, [closed |-> FALSE])
           p == Panel(t, w)
           v == [tabs[t] EXCEPT !.panel = <<p>>]
<1>1. /\ UNCHANGED <<session, server, db, history, scope>> /\ tabs[t].who # Nobody
      /\ calls' = NotLoading(t) \cup {c}
      /\ tabs' = [tabs EXCEPT ![t].panel = <<p>>]
  BY DEF LoadAccess
<1>2. tabs[t].who \in Account
  BY <1>1, TabIs DEF Accounts
<1>3. Asks("access", [closed |-> FALSE]) /\ "access" \in Kinds \ {"remove", "sync", "apply"}
  BY DEF Asks, Kinds
<1>4. CallHolds(c, DOMAIN log, loose, author, Uploaded) /\ DateHolds(c, db)
  BY <1>2, <1>3, PlainRequest
<1>5. calls' \subseteq calls \cup {c}
  BY <1>1 DEF NotLoading
<1> HIDE DEF c
<1>6. /\ p \in Board /\ p.w = w
      /\ p.kept # << >> => Len(p.kept) = 2 /\ p.kept[1].kind = "server" /\ w \in DOMAIN log
  BY PanelIs
<1> HIDE DEF p
<1>7. <<p>> \in Seq(Board) /\ DOMAIN <<p>> = {1} /\ <<p>>[1] = p
  BY <1>6
<1>8. v \in TabState /\ v.read = tabs[t].read /\ v.panel = <<p>>
  BY <1>7, TabIs DEF TabState
<1>9. TabHolds(v, DOMAIN log)
  BY <1>6, <1>7, <1>8, TabIs DEF TabHolds
<1>10. tabs' = [tabs EXCEPT ![t] = v]
  BY <1>1
<1> HIDE DEF v
<1>11. tabs' \in [Tab -> TabState] /\ \A x \in Tab : TabHolds(tabs'[x], DOMAIN log)
  BY <1>8, <1>9, <1>10, TabChanges
<1> QED
  BY <1>1, <1>4, <1>5, <1>11, AskStep

\* A change is asked for only by a panel that has loaded something.
LEMMA AskKeeps ==
  ASSUME Inv, NEW t \in Tab, NEW w \in Workspace,
         NEW kind \in {"leave", "delete", "transfer"}, AskChange(t, w, kind)
  PROVE  Inv'
<1> DEFINE auth == Authorization(t, w)
           who == tabs[t].who
           p == Panel(t, w)
           offered == Offered(p, auth, who)
           asked == [data |-> p.data[1], expect |-> [m |-> offered[1].m, a |-> offered[1].a]]
           c == Request(t, kind, w, asked)
<1>1. /\ UNCHANGED <<session, server, db, tabs, history, scope>> /\ who # Nobody
      /\ Allows(offered, kind) /\ calls' = calls \cup {c}
  BY DEF AskChange, Ask
<1>2. who \in Account
  BY <1>1, TabIs DEF Accounts
<1>3. p \in Board
  BY PanelIs
<1>4. p.data # << >>
  BY <1>1 DEF Allows, Offered
<1>5. p.data[1] \in Access
  BY <1>3, <1>4 DEF Board
<1> HIDE DEF p, offered
<1>6. Asks(kind, asked) /\ kind \in Kinds \ {"remove", "sync", "apply"} /\ kind # "list"
  BY <1>5 DEF Asks, Kinds
<1> HIDE DEF asked
<1>7. CallHolds(c, DOMAIN log, loose, author, Uploaded) /\ DateHolds(c, db)
  BY <1>2, <1>6, PlainRequest
<1> HIDE DEF c
<1> QED
  BY <1>1, <1>7, TabsStay, AskStep

(* The browser: changes of copies. *)

\* The clock moves with each dated change.
LEMMA DatedIs ==
  ASSUME NEW d \in Db, Agrees(d), db' = [d EXCEPT !.clock = @ + 1]
  PROVE  db' \in Db /\ Agrees(db') /\ db'.copies = d.copies /\ db'.clock = d.clock + 1
BY DEF Db, Agrees

\* One copy is dated anew and no work is dropped.
LEMMA NewCopyIs ==
  ASSUME Inv, NEW state \in SUBSET Edit, NEW acc \in Access
  PROVE  LET copy == NewCopy(state, acc)
         IN  /\ copy \in Copy /\ copy.state = state /\ copy.outbox = << >>
             /\ copy.access = acc /\ copy.stamp = db.clock /\ copy.summary = SummaryOf(acc)
<1> DEFINE copy == NewCopy(state, acc)
<1>1. copy = [state |-> state, outbox |-> << >>, access |-> acc, summary |-> SummaryOf(acc),
              stamp |-> db.clock]
  BY DEF NewCopy
<1>2. db.clock \in Nat /\ SummaryOf(acc) \in Seq(Access) /\ << >> \in Seq(Entry)
  BY StoredIs, SummaryIs
<1> HIDE DEF copy
<1>3. copy \in Copy
  BY <1>1, <1>2 DEF Copy
<1> QED
  BY <1>1, <1>3 DEF copy

\* The steps that write one dated copy.
LEMMA DatedStep ==
  ASSUME Inv, UNCHANGED <<session, server, calls, scope>>,
         author' \in Partial(Edit, Accounts), loose' \subseteq Edit, given' \subseteq Edit,
         given \subseteq given', More(loose, author, loose', author'),
         NEW e, NEW keep, NEW w, NEW next \in Copy, Wrote(db, e, keep, w, next), Dated(e),
         next.stamp = db.clock, CopyHolds(w, next, DOMAIN log, loose', author'),
         \A x \in DOMAIN db.copies \ keep : IdsOf(db.copies[x].outbox) \subseteq given',
         w \in DOMAIN db.copies => IdsOf(db.copies[w].outbox) \subseteq IdsOf(next.outbox) \cup given',
         DOMAIN author' \subseteq DOMAIN author \cup IdsOf(next.outbox),
         tabs' \in [Tab -> TabState], \A t \in Tab : TabHolds(tabs'[t], DOMAIN log)
  PROVE  Inv'
<1>1. /\ db \in Db /\ \A x \in DOMAIN db.copies : db.copies[x].stamp < db.clock
      /\ \A x \in DOMAIN db.copies : CopyHolds(x, db.copies[x], DOMAIN log, loose, author)
  BY StoredIs
<1>2. e \in Db /\ Agrees(e) /\ e.clock = db.clock
  BY DEF Wrote
<1>3. db' \in Db /\ Agrees(db') /\ db'.copies = e.copies /\ db'.clock = db.clock + 1
  <2>1. db' = [e EXCEPT !.clock = @ + 1]
    BY DEF Dated
  <2> QED
    BY <1>2, <2>1, DatedIs
<1>4. \A x \in DOMAIN db.copies : CopyHolds(x, db.copies[x], DOMAIN log, loose', author')
  BY <1>1, CopyStays
<1>5. \A x \in DOMAIN e.copies : CopyHolds(x, e.copies[x], DOMAIN log, loose', author')
  BY <1>1, <1>4, WroteIs
<1>6. Moves(db, db')
  BY <1>1, <1>3, <1>4, WroteIs
<1>7. QueuedOf(db) \subseteq QueuedOf(e) \cup given' /\ IdsOf(next.outbox) \subseteq QueuedOf(e)
  BY <1>1, <1>4, WroteIs
<1>8. QueuedOf(db') = QueuedOf(e)
  BY <1>3 DEF QueuedOf
<1>9. /\ \A x \in DOMAIN db'.copies : CopyHolds(x, db'.copies[x], DOMAIN log, loose', author')
      /\ DOMAIN author' \subseteq DOMAIN author \cup QueuedOf(db')
      /\ QueuedOf(db) \subseteq QueuedOf(db') \cup Uploaded \cup given'
  BY <1>3, <1>5, <1>7, <1>8
<1>10. UNCHANGED <<role, mrev, arev, log, gone, scope>> /\ session' \in Accounts
       /\ \A c \in calls' : c \in calls
  BY DEF server, Inv, TypeOK
<1> QED
  BY <1>3, <1>6, <1>9, <1>10, BrowserStep

\* A new workspace of this device has no work yet.
LEMMA InitializeKeeps ==
  ASSUME Inv, NEW t \in Tab, NEW w \in Workspace, Initialize(t, w)
  PROVE  Inv'
<1> DEFINE next == NewCopy({}, DeviceOnly)
           e == Install(db, w, next)
<1>1. /\ UNCHANGED <<session, server, calls, scope>> /\ UNCHANGED history /\ Dated(e)
      /\ tabs' = [tabs EXCEPT ![t] = Show(@, w, next)] /\ ~Has(db, w)
  BY DEF Initialize
<1>2. /\ next \in Copy /\ next.state = {} /\ next.outbox = << >> /\ next.access = DeviceOnly
      /\ next.stamp = db.clock
  BY NewCopyIs, DeviceOnlyIs
<1> HIDE DEF next
<1>3. Wrote(db, e, DOMAIN db.copies, w, next)
  BY <1>2, StoredIs, InstallIs
<1>4. CopyHolds(w, next, DOMAIN log, loose', author') /\ IdsOf(next.outbox) = {}
  <2>1. DOMAIN next.outbox = {}
    BY <1>2, NothingIn
  <2> QED
    BY <1>2, <2>1, DeviceOnlyIs DEF CopyHolds, IdsOf
<1>5. w \notin DOMAIN db.copies
  BY <1>1, StoredIs, FoundIs
<1>6. /\ author' = author /\ loose' = loose /\ given' = given
      /\ author \in Partial(Edit, Accounts) /\ loose \subseteq Edit /\ given \subseteq Edit
  BY <1>1 DEF history, Inv, TypeOK
<1>7. More(loose, author, loose', author')
  BY <1>6 DEF More
<1>8. tabs' \in [Tab -> TabState] /\ \A x \in Tab : TabHolds(tabs'[x], DOMAIN log)
  <2> DEFINE v == Show(tabs[t], w, next)
  <2>1. v \in TabState /\ TabHolds(v, DOMAIN log)
    BY <1>2, ShownIs
  <2>2. tabs' = [tabs EXCEPT ![t] = v]
    BY <1>1
  <2> HIDE DEF v
  <2> QED
    BY <2>1, <2>2, TabChanges
<1> HIDE DEF e
<1> QED
  BY <1>1, <1>2, <1>3, <1>4, <1>5, <1>6, <1>7, <1>8, DatedStep

\* A new edit joins the outbox, and has an author.
LEMMA DispatchKeeps ==
  ASSUME Inv, NEW t \in Tab, NEW edit \in Edit, NEW w \in Workspace, Dispatch(t, edit, w)
  PROVE  Inv'
<1> DEFINE shown == tabs[t].shown[w]
           copy == Found(db, w)
           who == tabs[t].who
           acc == VisibleIn(t, shown, w)
           basis == IF acc.kind = "device" THEN << >> ELSE <<[m |-> acc.m, a |-> acc.a]>>
           entry == [id |-> edit, account |-> who, status |-> "pending", basis |-> basis]
           next == [copy EXCEPT !.state = @ \cup {edit}, !.outbox = Append(@, entry),
                                !.stamp = db.clock]
           e == Mutate(db, w, next)
           owner == IF who = Nobody THEN copy.access.account ELSE who
<1>1. /\ UNCHANGED <<session, server, calls, scope>> /\ given' = given /\ Dated(e)
      /\ tabs' = [tabs EXCEPT ![t] = ShowIf(@, w, next)]
      /\ author' = Put(author, edit, owner)
      /\ loose' = IF copy.access.kind = "device" THEN loose \cup {edit} ELSE loose
      /\ edit \notin DOMAIN author /\ w \in DOMAIN tabs[t].shown /\ Has(db, w)
  BY DEF Dispatch
<1>2. /\ w \in DOMAIN db.copies /\ copy = db.copies[w] /\ copy \in Copy
      /\ CopyHolds(w, copy, DOMAIN log, loose, author)
  <2>1. w \in DOMAIN db.copies /\ copy = db.copies[w]
    BY <1>1, StoredIs, FoundIs
  <2> QED
    BY <2>1, StoredIs
<1>3. who \in Accounts /\ shown \in Copy
  <2>1. tabs[t].shown \in Partial(Workspace, Copy)
    BY TabIs
  <2> QED
    BY <1>1, <2>1, PartialIs, TabIs
<1>4. acc \in Access
  <2>1. tabs[t].ended \in Partial(Workspace, Access)
    BY TabIs
  <2>2. w \in DOMAIN tabs[t].ended => tabs[t].ended[w] \in Access
    BY <2>1, PartialIs
  <2>3. EndedIn(t, w) \in Seq(Access)
    BY <2>2 DEF EndedIn
  <2> QED
    BY <1>3, <2>3, VisibleIs DEF VisibleIn
<1> HIDE DEF acc, copy, who, shown
<1>5. basis \in Seq(Basis)
  <2>1. acc.m \in Nat /\ acc.a \in Nat
    BY <1>4 DEF Access, AnyAccess
  <2>2. [m |-> acc.m, a |-> acc.a] \in Basis
    BY <2>1 DEF Basis
  <2> QED
    BY <2>2
<1> HIDE DEF basis
<1>6. entry \in Entry /\ entry.id = edit /\ entry.account = who
  BY <1>3, <1>5 DEF Entry
<1> HIDE DEF entry
<1> DEFINE outbox == Append(copy.outbox, entry)
<1>7. copy.outbox \in Seq(Entry)
  BY <1>2 DEF Copy
<1>8. /\ outbox \in Seq(Entry)
      /\ \A i \in DOMAIN outbox : (\E k \in DOMAIN copy.outbox : outbox[i] = copy.outbox[k])
                                  \/ outbox[i] = entry
      /\ \A k \in DOMAIN copy.outbox : \E i \in DOMAIN outbox : outbox[i] = copy.outbox[k]
      /\ \E i \in DOMAIN outbox : outbox[i] = entry
  BY <1>6, <1>7, AppendProperties
<1>9. next = [copy EXCEPT !.state = @ \cup {edit}, !.outbox = outbox, !.stamp = db.clock]
  OBVIOUS
<1> HIDE DEF outbox, next
<1>10. IdsOf(outbox) = IdsOf(copy.outbox) \cup {edit}
  <2>1. IdsOf(outbox) \subseteq IdsOf(copy.outbox) \cup {edit}
    BY <1>6, <1>8 DEF IdsOf
  <2>2. IdsOf(copy.outbox) \subseteq IdsOf(outbox)
    BY <1>8 DEF IdsOf
  <2>3. edit \in IdsOf(outbox)
    BY <1>6, <1>8 DEF IdsOf
  <2> QED
    BY <2>1, <2>2, <2>3
<1>11. /\ next \in Copy /\ next.outbox = outbox /\ next.state = copy.state \cup {edit}
       /\ next.access = copy.access /\ next.stamp = db.clock
  <2>1. db.clock \in Nat
    BY StoredIs
  <2> QED
    BY <1>2, <1>8, <1>9, <2>1 DEF Copy
<1>12. Wrote(db, e, DOMAIN db.copies, w, next)
  BY <1>11, StoredIs, MutateIs
<1>13. /\ author' \in Partial(Edit, Accounts) /\ DOMAIN author' = DOMAIN author \cup {edit}
       /\ author'[edit] = owner /\ \A x \in DOMAIN author : author'[x] = author[x]
  <2>1. owner \in Accounts /\ author \in Partial(Edit, Accounts)
    BY <1>2, <1>3 DEF Copy, Access, AnyAccess, Inv, TypeOK
  <2> HIDE DEF owner
  <2>2. author' \in Partial(Edit, Accounts)
    BY <1>1, <2>1, PutIn
  <2> QED
    BY <1>1, <2>2 DEF Put
<1>14. More(loose, author, loose', author') /\ loose' \subseteq Edit
  BY <1>1, <1>13 DEF More, Inv, TypeOK
<1>15. CopyHolds(w, next, DOMAIN log, loose', author')
  <2>1. CopyHolds(w, copy, DOMAIN log, loose', author')
    BY <1>2, <1>14, CopyStays
  <2>2. WorkOf(edit, owner, loose', author')
    BY <1>13 DEF WorkOf
  <2>3. ASSUME NEW i \in DOMAIN outbox
        PROVE  WorkOf(outbox[i].id, IF outbox[i].account = Nobody THEN copy.access.account
                                    ELSE outbox[i].account, loose', author')
    <3>1. CASE outbox[i] = entry
      BY <1>6, <2>2, <3>1
    <3>2. CASE \E k \in DOMAIN copy.outbox : outbox[i] = copy.outbox[k]
      BY <2>1, <3>2 DEF CopyHolds
    <3> QED
      BY <1>8, <3>1, <3>2
  <2>4. IdsOf(next.outbox) \subseteq next.state
    BY <1>10, <1>11, <2>1 DEF CopyHolds
  <2>5. next.access.kind = "device" => next.state \subseteq loose'
    BY <1>1, <1>11, <2>1 DEF CopyHolds
  <2>6. next.access.kind = "server" => w \in DOMAIN log
    BY <1>11, <2>1 DEF CopyHolds
  <2> QED
    BY <1>11, <2>3, <2>4, <2>5, <2>6 DEF CopyHolds
<1>16. tabs' \in [Tab -> TabState] /\ \A x \in Tab : TabHolds(tabs'[x], DOMAIN log)
  <2> DEFINE v == ShowIf(tabs[t], w, next)
  <2>1. v \in TabState /\ TabHolds(v, DOMAIN log)
    BY <1>11, ShownIs
  <2>2. tabs' = [tabs EXCEPT ![t] = v]
    BY <1>1 DEF next, outbox, entry, basis, acc, copy, who, shown
  <2> HIDE DEF v
  <2> QED
    BY <2>1, <2>2, TabChanges
<1>17. /\ given' \subseteq Edit /\ given \subseteq given'
       /\ DOMAIN author' \subseteq DOMAIN author \cup IdsOf(next.outbox)
       /\ IdsOf(db.copies[w].outbox) \subseteq IdsOf(next.outbox)
  BY <1>1, <1>2, <1>10, <1>11, <1>13 DEF Inv, TypeOK
<1>18. Dated(e)
  BY <1>1
<1> HIDE DEF e
<1> QED
  BY <1>1, <1>11, <1>12, <1>13, <1>14, <1>15, <1>16, <1>17, <1>18, DatedStep

\* What takes the open copy's place: the user saw the work that goes with it.
LEMMA ReplaceKeeps ==
  ASSUME Inv, NEW t \in Tab, NEW old \in Workspace, NEW w \in Workspace, Replace(t, old, w)
  PROVE  Inv'
<1> DEFINE copy == tabs[t].shown[old]
           empty == [copy EXCEPT !.state = {}, !.outbox = << >>, !.stamp = db.clock]
           next == IF w = old THEN empty ELSE NewCopy({}, DeviceOnly)
           e == ReplaceOpen(db, old, w, next)
           lost == IdsOf(copy.outbox)
<1>1. /\ UNCHANGED <<session, server, calls, scope>> /\ author' = author /\ loose' = loose
      /\ given' = given \cup lost /\ Dated(e)
      /\ tabs' = [tabs EXCEPT ![t] = Show(@, w, next)]
      /\ db.open = Only(old, copy) /\ (w = old \/ ~Has(db, w))
  BY DEF Replace
<1>2. /\ old \in DOMAIN db.copies /\ db.copies[old] = copy /\ copy \in Copy
      /\ CopyHolds(old, copy, DOMAIN log, loose, author)
  <2>1. old \in DOMAIN db.open /\ db.open[old] = copy
    BY <1>1 DEF Only
  <2>2. old \in DOMAIN db.copies /\ db.open[old] = db.copies[old]
    BY <2>1, StoredIs DEF Agrees
  <2> QED
    BY <2>1, <2>2, StoredIs
<1> HIDE DEF copy
<1>3. lost \subseteq Edit
  <2>1. \A i \in DOMAIN copy.outbox : copy.outbox[i] \in Entry
    BY <1>2 DEF Copy
  <2> QED
    BY <2>1 DEF IdsOf, Entry
<1>4. /\ NewCopy({}, DeviceOnly) \in Copy /\ NewCopy({}, DeviceOnly).state = {}
      /\ NewCopy({}, DeviceOnly).outbox = << >> /\ NewCopy({}, DeviceOnly).access = DeviceOnly
      /\ NewCopy({}, DeviceOnly).stamp = db.clock
  BY NewCopyIs, DeviceOnlyIs
<1>5. /\ empty \in Copy /\ empty.state = {} /\ empty.outbox = << >>
      /\ empty.access = copy.access /\ empty.stamp = db.clock
  <2>1. db.clock \in Nat /\ << >> \in Seq(Entry)
    BY StoredIs
  <2> QED
    BY <1>2, <2>1 DEF Copy
<1> HIDE DEF empty
<1>6. /\ next \in Copy /\ next.state = {} /\ next.outbox = << >> /\ next.stamp = db.clock
      /\ next.access = DeviceOnly \/ (w = old /\ next.access = copy.access)
  BY <1>4, <1>5
<1> HIDE DEF next
<1>7. CopyHolds(w, next, DOMAIN log, loose', author') /\ IdsOf(next.outbox) = {}
  <2>1. DOMAIN next.outbox = {}
    BY <1>6, NothingIn
  <2>2. next.access.kind = "server" => w \in DOMAIN log
    BY <1>2, <1>6, DeviceOnlyIs DEF CopyHolds
  <2> QED
    BY <1>6, <2>1, <2>2 DEF CopyHolds, IdsOf
<1>8. Wrote(db, e, DOMAIN db.copies \ {old}, w, next)
  BY <1>6, StoredIs, ReplaceOpenIs
<1>9. w = old \/ w \notin DOMAIN db.copies
  BY <1>1, StoredIs, FoundIs
<1>10. /\ \A x \in DOMAIN db.copies \ (DOMAIN db.copies \ {old}) :
            IdsOf(db.copies[x].outbox) \subseteq given'
       /\ w \in DOMAIN db.copies =>
            IdsOf(db.copies[w].outbox) \subseteq IdsOf(next.outbox) \cup given'
  BY <1>1, <1>2, <1>9
<1>11. /\ author' \in Partial(Edit, Accounts) /\ loose' \subseteq Edit /\ given' \subseteq Edit
       /\ given \subseteq given' /\ DOMAIN author' \subseteq DOMAIN author \cup IdsOf(next.outbox)
       /\ More(loose, author, loose', author')
  BY <1>1, <1>3 DEF More, Inv, TypeOK
<1>12. tabs' \in [Tab -> TabState] /\ \A x \in Tab : TabHolds(tabs'[x], DOMAIN log)
  <2> DEFINE v == Show(tabs[t], w, next)
  <2>1. v \in TabState /\ TabHolds(v, DOMAIN log)
    BY <1>6, ShownIs
  <2>2. tabs' = [tabs EXCEPT ![t] = v]
    BY <1>1 DEF next, empty, copy
  <2> HIDE DEF v
  <2> QED
    BY <2>1, <2>2, TabChanges
<1>13. Dated(e)
  BY <1>1
<1> HIDE DEF e
<1> QED
  BY <1>1, <1>6, <1>7, <1>8, <1>10, <1>11, <1>12, <1>13, DatedStep

\* What is removed holds no more than what the user saw.
LEMMA RemoveKeeps ==
  ASSUME Inv, NEW c \in calls, RemoveCopy(c)
  PROVE  Inv'
<1>1. /\ c.kind = "remove" /\ calls' \subseteq calls /\ c.tab \in Tab
      /\ UNCHANGED <<session, server, author, loose, scope>>
  BY CallIs DEF RemoveCopy, Done, IsCall
<1>2. CASE Has(db, c.w) /\ AsReviewed(c)
  <2> DEFINE w == c.w
             t == c.tab
             shown == Without(tabs[t].shown, w)
             v == [tabs[t] EXCEPT !.shown = shown]
  <2>1. /\ db' = RemoveCopyOf(db, w) /\ given' = given \cup c.asked.loses
        /\ tabs' = [tabs EXCEPT ![t].shown = shown]
    BY <1>2 DEF RemoveCopy
  <2>2. w \in DOMAIN db.copies /\ Found(db, w) = db.copies[w]
    BY <1>2, StoredIs, FoundIs
  <2>3. c.asked.loses \subseteq Edit /\ DateHolds(c, db)
    BY <1>1, CallIs DEF IsCall, Asks, Inv, Dates
  <2>4. IdsOf(db.copies[w].outbox) \subseteq c.asked.loses
    BY <1>1, <1>2, <2>2, <2>3 DEF AsReviewed, DateHolds
  <2>5. /\ db' \in Db /\ Agrees(db') /\ db'.clock = db.clock
        /\ DOMAIN db'.copies = DOMAIN db.copies \ {w}
        /\ \A x \in DOMAIN db'.copies : db'.copies[x] = db.copies[x]
    BY <2>1, <2>2, StoredIs, RemoveIs
  <2>6. Moves(db, db')
    BY <2>5, StoredIs DEF Moves
  <2>7. QueuedOf(db) \subseteq QueuedOf(db') \cup given'
    <3>1. ASSUME NEW x \in DOMAIN db.copies
          PROVE  IdsOf(db.copies[x].outbox) \subseteq QueuedOf(db') \cup given'
      <4>1. CASE x = w
        BY <2>1, <2>4, <4>1
      <4>2. CASE x # w
        BY <2>5, <4>2 DEF QueuedOf
      <4> QED
        BY <4>1, <4>2
    <3> QED
      BY <3>1 DEF QueuedOf
  <2>8. /\ author' \in Partial(Edit, Accounts) /\ loose' \subseteq Edit /\ given' \subseteq Edit
        /\ given \subseteq given' /\ DOMAIN author' \subseteq DOMAIN author \cup QueuedOf(db')
        /\ More(loose, author, loose', author')
    BY <1>1, <2>1, <2>3 DEF More, Inv, TypeOK
  <2>9. \A x \in DOMAIN db'.copies : CopyHolds(x, db'.copies[x], DOMAIN log, loose', author')
    BY <1>1, <2>5, StoredIs
  <2>10. tabs' \in [Tab -> TabState] /\ \A x \in Tab : TabHolds(tabs'[x], DOMAIN log)
    <3>1. tabs[t] \in TabState /\ tabs[t].shown \in Partial(Workspace, Copy)
      BY <1>1, TabIs
    <3>2. shown \in Partial(Workspace, Copy)
      BY <3>1, WithoutIn
    <3> HIDE DEF shown
    <3>3. v \in TabState /\ v.read = tabs[t].read /\ v.panel = tabs[t].panel
      BY <3>1, <3>2 DEF TabState
    <3>4. tabs' = [tabs EXCEPT ![t] = v]
      BY <2>1
    <3> HIDE DEF v
    <3>5. TabHolds(v, DOMAIN log)
      BY <1>1, <3>3, SameReading
    <3> QED
      BY <1>1, <3>3, <3>4, <3>5, TabChanges
  <2>11. UNCHANGED <<role, mrev, arev, log, gone, scope>> /\ session' \in Accounts
         /\ \A x \in calls' : x \in calls
    BY <1>1 DEF server, Inv, TypeOK
  <2>12. QueuedOf(db) \subseteq QueuedOf(db') \cup Uploaded \cup given'
    BY <2>7
  <2> QED
    BY <2>5, <2>6, <2>8, <2>9, <2>10, <2>11, <2>12, BrowserStep
<1>3. CASE ~(Has(db, c.w) /\ AsReviewed(c))
  <2>1. UNCHANGED <<db, tabs, given>>
    BY <1>3 DEF RemoveCopy
  <2>2. UNCHANGED <<server, history, scope>> /\ session' \in Accounts
    BY <1>1, <2>1 DEF history, Inv, TypeOK
  <2>3. tabs' \in [Tab -> TabState] /\ \A x \in Tab : TabHolds(tabs'[x], DOMAIN log)
    BY <2>1, TabsStay
  <2>4. db' \in Db /\ Agrees(db') /\ db'.copies = db.copies /\ db'.clock = db.clock
    BY <2>1, StoredIs
  <2> QED
    BY <1>1, <2>2, <2>3, <2>4, MemoryStep
<1> QED
  BY <1>2, <1>3

(* The browser: answers. *)

\* A copy that an answer changes keeps its date and gains no work.
LEMMA AnswerStep ==
  ASSUME Inv, UNCHANGED <<session, server, history, scope>>,
         NEW w \in DOMAIN db.copies, NEW next \in Copy, db' = Mutate(db, w, next),
         next.stamp = db.copies[w].stamp,
         IdsOf(next.outbox) \subseteq IdsOf(db.copies[w].outbox),
         IdsOf(db.copies[w].outbox) \subseteq IdsOf(next.outbox) \cup Uploaded,
         CopyHolds(w, next, DOMAIN log, loose, author)
  PROVE  /\ db' \in Db /\ Agrees(db') /\ Moves(db, db')
         /\ \A x \in DOMAIN db'.copies : CopyHolds(x, db'.copies[x], DOMAIN log, loose, author)
         /\ QueuedOf(db) \subseteq QueuedOf(db') \cup Uploaded
<1>1. /\ db \in Db /\ w \in Workspace /\ Agrees(db)
      /\ \A x \in DOMAIN db.copies : db.copies[x].stamp < db.clock
      /\ \A x \in DOMAIN db.copies : CopyHolds(x, db.copies[x], DOMAIN log, loose, author)
  BY StoredIs
<1>2. Wrote(db, db', DOMAIN db.copies, w, next)
  BY <1>1, MutateIs
<1>3. db' \in Db /\ Agrees(db')
  BY <1>2 DEF Wrote
<1>4. \A x \in DOMAIN db'.copies : CopyHolds(x, db'.copies[x], DOMAIN log, loose, author)
  BY <1>1, <1>2, WroteIs
<1>5. Moves(db, db')
  BY <1>1, <1>2, WroteIs
<1>6. QueuedOf(db) \subseteq QueuedOf(db') \cup Uploaded
  BY <1>1, <1>2, WroteIs
<1> QED
  BY <1>3, <1>4, <1>5, <1>6

\* A refusal that is about the account.
LEMMA FailureKeeps ==
  ASSUME Inv, NEW c \in calls, DeliverFailure(c), UNCHANGED <<session, server, history, scope>>
  PROVE  Inv'
<1> DEFINE t == c.tab
           status == CASE c.result = "signedOut" /\ c.kind \in {"sync", "list"} -> "signedOut"
                       [] c.result = "mismatch" -> "checking"
                       [] OTHER -> tabs[t].status
           v == [tabs[t] EXCEPT !.status = status]
<1>1. tabs' = [tabs EXCEPT ![t].status = status] /\ db' = db /\ calls' \subseteq calls
  BY DEF DeliverFailure, Done
<1>2. t \in Tab
  BY CallIs DEF IsCall
<1>3. tabs[t] \in TabState
  BY <1>2, TabIs
<1>4. status \in {"checking", "available", "signedOut"}
  BY <1>3 DEF TabState
<1> HIDE DEF status
<1>5. v \in TabState /\ v.read = tabs[t].read /\ v.panel = tabs[t].panel
  BY <1>3, <1>4 DEF TabState
<1>6. tabs' = [tabs EXCEPT ![t] = v]
  BY <1>1
<1> HIDE DEF v
<1>7. TabHolds(v, DOMAIN log)
  BY <1>2, <1>5, SameReading
<1>8. tabs' \in [Tab -> TabState] /\ \A x \in Tab : TabHolds(tabs'[x], DOMAIN log)
  BY <1>2, <1>5, <1>6, <1>7, TabChanges
<1>9. session' \in Accounts
  BY DEF Inv, TypeOK
<1> QED
  BY <1>1, <1>8, <1>9, StoredIs, MemoryStep

\* What an answer to a sync request leaves of the copy it is about.
Settled(copy, batch, answer) ==
  IF answer.accepted
  THEN WithAccess(Reconcile(copy, batch, answer.state), answer.access)
  ELSE [WithAccess(copy, answer.access) EXCEPT !.outbox = [i \in DOMAIN @ |->
          IF @[i].id \in IdsOf(batch) THEN Block(@[i]) ELSE @[i]]]

\* An accepted batch leaves the outbox, for it reached the server; a refused one
\* stays, for review.
LEMMA SettledIs ==
  ASSUME NEW w, NEW copy \in Copy, NEW batch \in Seq(Entry), NEW answer,
         NEW known, NEW free, NEW by, NEW up,
         CopyHolds(w, copy, known, free, by), w \in known,
         answer.access \in Access, answer.access.kind = "server",
         answer.accepted \in BOOLEAN,
         answer.accepted => answer.state \subseteq Edit /\ IdsOf(batch) \subseteq up
  PROVE  LET next == Settled(copy, batch, answer)
         IN  /\ next \in Copy /\ next.stamp = copy.stamp
             /\ IdsOf(next.outbox) \subseteq IdsOf(copy.outbox)
             /\ IdsOf(copy.outbox) \subseteq IdsOf(next.outbox) \cup up
             /\ CopyHolds(w, next, known, free, by)
<1> DEFINE cand == answer.access
           next == Settled(copy, batch, answer)
<1>1. /\ IdsOf(copy.outbox) \subseteq copy.state
      /\ copy.access.kind = "device" => IdsOf(copy.outbox) \subseteq free
      /\ \A i \in DOMAIN copy.outbox :
           WorkOf(copy.outbox[i].id, IF copy.outbox[i].account = Nobody THEN copy.access.account
                                     ELSE copy.outbox[i].account, free, by)
  BY DEF CopyHolds
<1>2. CASE answer.accepted
  <2> DEFINE mid == Reconcile(copy, batch, answer.state)
  <2>1. /\ mid \in Copy /\ mid.access = copy.access /\ mid.stamp = copy.stamp
        /\ IdsOf(mid.outbox) \subseteq IdsOf(copy.outbox)
        /\ IdsOf(copy.outbox) \subseteq IdsOf(mid.outbox) \cup IdsOf(batch)
        /\ IdsOf(mid.outbox) \subseteq mid.state
        /\ \A i \in DOMAIN mid.outbox : \E k \in DOMAIN copy.outbox :
             mid.outbox[i] = copy.outbox[k]
    BY <1>1, <1>2, ReconcileIs
  <2>2. next = WithAccess(mid, cand)
    BY <1>2 DEF Settled
  <2> HIDE DEF mid, cand, next
  <2>3. next \in Copy /\ next.stamp = mid.stamp /\ IdsOf(next.outbox) = IdsOf(mid.outbox)
    BY <2>1, <2>2, WithAccessIs DEF cand
  <2>4. CopyHolds(w, WithAccess(mid, cand), known, free, by)
    <3>1. cand \in Access /\ cand.kind = "server"
      BY DEF cand
    <3>2. mid.access.kind = "device" => IdsOf(mid.outbox) \subseteq free
      BY <1>1, <2>1
    <3>3. \A i \in DOMAIN mid.outbox :
            WorkOf(mid.outbox[i].id, IF mid.outbox[i].account = Nobody THEN mid.access.account
                                     ELSE mid.outbox[i].account, free, by)
      BY <1>1, <2>1
    <3> QED
      BY <2>1, <3>1, <3>2, <3>3, WithAccessHolds
  <2> QED
    BY <1>2, <2>1, <2>2, <2>3, <2>4 DEF next
<1>3. CASE ~answer.accepted
  <2> DEFINE mid == WithAccess(copy, cand)
             ids == IdsOf(batch)
  <2>1. next = [mid EXCEPT !.outbox = [i \in DOMAIN @ |->
                  IF @[i].id \in ids THEN Block(@[i]) ELSE @[i]]]
    BY <1>3 DEF Settled
  <2>2. mid \in Copy /\ mid.stamp = copy.stamp /\ IdsOf(mid.outbox) = IdsOf(copy.outbox)
    BY WithAccessIs
  <2>3. CopyHolds(w, mid, known, free, by)
    BY <1>1, WithAccessHolds
  <2> HIDE DEF mid, ids, next, cand
  <2>4. /\ next \in Copy /\ next.stamp = mid.stamp /\ IdsOf(next.outbox) = IdsOf(mid.outbox)
        /\ CopyHolds(w, next, known, free, by)
    BY <2>1, <2>2, <2>3, BlockedIs
  <2> QED
    BY <2>2, <2>4 DEF next
<1> QED
  BY <1>2, <1>3

\* The answer to a sync request: what it takes from the outbox is on the server.
LEMMA SyncedKeeps ==
  ASSUME Inv, NEW c \in calls, DeliverSync(c), UNCHANGED <<session, server, history, scope>>
  PROVE  Inv'
<1> DEFINE t == c.tab
           w == c.w
           next == Settled(db.copies[w], c.asked.batch, c.answer)
<1>1. /\ CallHolds(c, DOMAIN log, loose, author, Uploaded) /\ IsCall(c)
      /\ c.kind = "sync" /\ c.result = "ok" /\ calls' \subseteq calls
  BY CallIs DEF DeliverSync, Done
<1>2. t \in Tab /\ w \in Workspace
  BY <1>1 DEF IsCall
<1>3. /\ c.asked.batch \in Seq(Entry)
      /\ c.answer.access \in Access /\ c.answer.access.kind = "server"
      /\ c.answer.accepted \in BOOLEAN
      /\ c.answer.accepted => c.answer.state \subseteq Edit /\ IdsOf(c.asked.batch) \subseteq Uploaded
      /\ w \in DOMAIN log
  <2>1. Asks("sync", c.asked) /\ Says("sync", c.answer)
    BY <1>1 DEF IsCall
  <2>2. c.asked.batch \in Seq(Entry)
    BY <2>1 DEF Asks
  <2>3. /\ c.answer.access \in Access /\ c.answer.access.kind = "server"
        /\ c.answer.accepted \in BOOLEAN
        /\ c.answer.accepted => c.answer.state \subseteq Edit
    BY <2>1 DEF Says
  <2>4. c.answer.accepted => IdsOf(c.asked.batch) \subseteq Uploaded
    BY <1>1 DEF CallHolds, SyncHolds
  <2>5. w \in DOMAIN log
    BY <1>1 DEF CallHolds
  <2> QED
    BY <2>2, <2>3, <2>4, <2>5
<1>4. \A x \in calls' : x \in calls
  BY <1>1
<1>5. ASSUME NEW v \in TabState, TabHolds(v, DOMAIN log)
      PROVE  [v EXCEPT !.status = "available"] \in TabState
             /\ TabHolds([v EXCEPT !.status = "available"], DOMAIN log)
  <2> DEFINE u == [v EXCEPT !.status = "available"]
  <2>1. u \in TabState /\ u.read = v.read /\ u.panel = v.panel
    BY <1>5 DEF TabState
  <2> HIDE DEF u
  <2>2. TabHolds(u, DOMAIN log)
    BY <1>5, <2>1 DEF TabHolds
  <2> QED
    BY <2>1, <2>2 DEF u
<1>6. session' \in Accounts
  BY DEF Inv, TypeOK
<1>7. CASE tabs[t].who # c.account
  <2>1. UNCHANGED <<db, tabs>>
    BY <1>7 DEF DeliverSync
  <2> QED
    BY <1>4, <1>6, <2>1, StoredIs, TabsStay, MemoryStep
<1>8. CASE tabs[t].who = c.account /\ Has(db, w)
  <2>1. w \in DOMAIN db.copies /\ Found(db, w) = db.copies[w]
    BY <1>8, StoredIs, FoundIs
  <2>2. /\ db' = Mutate(db, w, next)
        /\ tabs' = [tabs EXCEPT ![t] = [ShowIf(@, w, next) EXCEPT !.status = "available"]]
    BY <1>8, <2>1 DEF DeliverSync, Settled
  <2>3. db.copies[w] \in Copy /\ CopyHolds(w, db.copies[w], DOMAIN log, loose, author)
    BY <2>1, StoredIs
  <2>4. /\ next \in Copy /\ next.stamp = db.copies[w].stamp
        /\ IdsOf(next.outbox) \subseteq IdsOf(db.copies[w].outbox)
        /\ IdsOf(db.copies[w].outbox) \subseteq IdsOf(next.outbox) \cup Uploaded
        /\ CopyHolds(w, next, DOMAIN log, loose, author)
    <3> DEFINE copy == db.copies[w]
               batch == c.asked.batch
               answer == c.answer
               known == DOMAIN log
               up == Uploaded
    <3>1. /\ copy \in Copy /\ CopyHolds(w, copy, known, loose, author)
          /\ batch \in Seq(Entry) /\ w \in known
          /\ answer.access \in Access /\ answer.access.kind = "server"
          /\ answer.accepted \in BOOLEAN
          /\ answer.accepted => answer.state \subseteq Edit /\ IdsOf(batch) \subseteq up
      BY <1>3, <2>3
    <3>2. next = Settled(copy, batch, answer)
      OBVIOUS
    <3> HIDE DEF copy, batch, answer, known, up, next
    <3>3. /\ next \in Copy /\ next.stamp = copy.stamp
          /\ IdsOf(next.outbox) \subseteq IdsOf(copy.outbox)
          /\ IdsOf(copy.outbox) \subseteq IdsOf(next.outbox) \cup up
          /\ CopyHolds(w, next, known, loose, author)
      BY <3>1, <3>2, SettledIs
    <3> QED
      BY <3>3 DEF copy, known, up
  <2> HIDE DEF next
  <2>5. /\ db' \in Db /\ Agrees(db') /\ Moves(db, db')
        /\ \A x \in DOMAIN db'.copies : CopyHolds(x, db'.copies[x], DOMAIN log, loose, author)
        /\ QueuedOf(db) \subseteq QueuedOf(db') \cup Uploaded
    BY <2>1, <2>2, <2>4, AnswerStep
  <2>6. tabs' \in [Tab -> TabState] /\ \A x \in Tab : TabHolds(tabs'[x], DOMAIN log)
    <3> DEFINE v == [ShowIf(tabs[t], w, next) EXCEPT !.status = "available"]
    <3>1. v \in TabState /\ TabHolds(v, DOMAIN log)
      BY <1>2, <1>5, <2>4, ShownIs
    <3>2. tabs' = [tabs EXCEPT ![t] = v]
      BY <2>2
    <3> HIDE DEF v
    <3> QED
      BY <1>2, <3>1, <3>2, TabChanges
  <2> QED
    BY <1>4, <2>5, <2>6, StoreStep
<1>9. CASE tabs[t].who = c.account /\ ~Has(db, w)
  <2>1. db' = db /\ tabs' = [tabs EXCEPT ![t] = [@ EXCEPT !.status = "available"]]
    BY <1>9 DEF DeliverSync
  <2>2. tabs' \in [Tab -> TabState] /\ \A x \in Tab : TabHolds(tabs'[x], DOMAIN log)
    <3> DEFINE v == [tabs[t] EXCEPT !.status = "available"]
    <3>1. v \in TabState /\ TabHolds(v, DOMAIN log)
      BY <1>2, <1>5, TabIs
    <3>2. tabs' = [tabs EXCEPT ![t] = v]
      BY <2>1
    <3> HIDE DEF v
    <3> QED
      BY <1>2, <3>1, <3>2, TabChanges
  <2> QED
    BY <1>4, <1>6, <2>1, <2>2, StoredIs, MemoryStep
<1> QED
  BY <1>7, <1>8, <1>9

\* A download: the copy it makes is what the server said, and one that came to be
\* stored meanwhile keeps its work and its date.
LEMMA OpenedKeeps ==
  ASSUME Inv, NEW c \in calls, DeliverOpen(c), UNCHANGED <<session, server, history, scope>>
  PROVE  Inv'
<1> DEFINE t == c.tab
           w == c.w
           copy == NewCopy(c.answer.state, c.answer.access)
           e == InstallDownload(db, w, copy)
           next == e.copies[w]
<1>1. /\ CallHolds(c, DOMAIN log, loose, author, Uploaded) /\ IsCall(c)
      /\ c.kind = "open" /\ c.result = "ok" /\ calls' \subseteq calls
  BY CallIs DEF DeliverOpen, Done
<1>2. t \in Tab /\ w \in Workspace /\ w \in DOMAIN log
  BY <1>1 DEF IsCall, CallHolds
<1>3. c.answer.state \subseteq Edit /\ c.answer.access \in Access /\ c.answer.access.kind = "server"
  BY <1>1 DEF IsCall, Says
<1>4. \A x \in calls' : x \in calls
  BY <1>1
<1>5. CASE tabs[t].who = c.account
  <2>1. Dated(e) /\ tabs' = [tabs EXCEPT ![t] = Show(@, w, next)]
    BY <1>5 DEF DeliverOpen
  <2>2. copy \in Copy /\ copy.outbox = << >> /\ copy.access.kind = "server" /\ copy.stamp = db.clock
    BY <1>3, NewCopyIs
  <2> HIDE DEF copy
  <2>3. /\ db \in Db /\ Agrees(db)
        /\ \A x \in DOMAIN db.copies :
             /\ db.copies[x].stamp < db.clock
             /\ CopyHolds(x, db.copies[x], DOMAIN log, loose, author)
    BY StoredIs
  <2>4. /\ Wrote(db, e, DOMAIN db.copies, w, next) /\ next \in Copy
        /\ w \notin DOMAIN db.copies => next.stamp = db.clock
        /\ w \in DOMAIN db.copies => /\ next.stamp = db.copies[w].stamp
                                     /\ IdsOf(next.outbox) = IdsOf(db.copies[w].outbox)
        /\ CopyHolds(w, next, DOMAIN log, loose, author)
    BY <1>2, <2>2, <2>3, DownloadIs
  <2> HIDE DEF e, next
  <2>5. e \in Db /\ Agrees(e) /\ e.clock = db.clock
    BY <2>4 DEF Wrote
  <2>6. db' \in Db /\ Agrees(db') /\ db'.copies = e.copies /\ db'.clock = db.clock + 1
    <3>1. db' = [e EXCEPT !.clock = @ + 1]
      BY <2>1 DEF Dated
    <3> QED
      BY <2>5, <3>1, DatedIs
  <2>7. \A x \in DOMAIN e.copies : CopyHolds(x, e.copies[x], DOMAIN log, loose, author)
    BY <2>3, <2>4, WroteIs
  <2>8. Moves(db, db')
    BY <2>3, <2>4, <2>6, WroteIs
  <2>9. QueuedOf(db) \subseteq QueuedOf(e)
    <3>1. QueuedOf(db) \subseteq QueuedOf(e) \cup {}
      BY <2>3, <2>4, WroteIs
    <3> QED
      BY <3>1
  <2>10. QueuedOf(db') = QueuedOf(e)
    BY <2>6 DEF QueuedOf
  <2>11. \A x \in DOMAIN db'.copies : CopyHolds(x, db'.copies[x], DOMAIN log, loose, author)
    BY <2>6, <2>7
  <2>12. tabs' \in [Tab -> TabState] /\ \A x \in Tab : TabHolds(tabs'[x], DOMAIN log)
    <3> DEFINE v == Show(tabs[t], w, next)
    <3>1. v \in TabState /\ TabHolds(v, DOMAIN log)
      BY <1>2, <2>4, ShownIs
    <3>2. tabs' = [tabs EXCEPT ![t] = v]
      BY <2>1
    <3> HIDE DEF v
    <3> QED
      BY <1>2, <3>1, <3>2, TabChanges
  <2> QED
    BY <1>4, <2>6, <2>8, <2>9, <2>10, <2>11, <2>12, StoreStep
<1>6. CASE tabs[t].who # c.account
  <2>1. UNCHANGED <<db, tabs>>
    BY <1>6 DEF DeliverOpen
  <2>2. session' \in Accounts
    BY DEF Inv, TypeOK
  <2> QED
    BY <1>4, <2>1, <2>2, StoredIs, TabsStay, MemoryStep
<1> QED
  BY <1>5, <1>6

\* A page merged into a list makes a list.
LEMMA MergeIs ==
  ASSUME NEW current \in Listing, NEW page \in [m : Nat, entries : Rows, next : Seq(Cursor)],
         NEW replace
  PROVE  MergePage(current, page, replace) \in Listing
<1> DEFINE known == current.entries
           Pick(w) == IF w \in DOMAIN known /\ Older(page.entries[w], known[w])
                      THEN known[w] ELSE page.entries[w]
           read == [w \in DOMAIN page.entries |-> Pick(w)]
           next == IF replace THEN read ELSE Over(read, known)
<1>1. known \in Rows /\ page.entries \in Rows
  BY DEF Listing
<1>2. /\ DOMAIN page.entries \subseteq Workspace
      /\ \A w \in DOMAIN page.entries : page.entries[w] \in Row
      /\ \A w \in DOMAIN known : known[w] \in Row
  BY <1>1, PartialIs DEF Rows
<1>3. \A w \in DOMAIN page.entries : Pick(w) \in Row
  BY <1>2
<1>4. read \in Rows
  <2>1. DOMAIN read = DOMAIN page.entries /\ read \in [DOMAIN read -> Row]
    BY <1>3
  <2> HIDE DEF read
  <2> QED
    BY <1>2, <2>1, PartialIs DEF Rows
<1> HIDE DEF read
<1>5. Over(read, known) \in Rows
  BY <1>1, <1>4, OverIn DEF Rows
<1>6. next \in Rows
  BY <1>4, <1>5
<1>7. MergePage(current, page, replace) =
        IF page.m < current.m THEN current
        ELSE [entries |-> next, m |-> page.m, complete |-> page.next = << >>, next |-> page.next]
  BY DEF MergePage, read
<1> HIDE DEF next, known, Pick
<1> QED
  BY <1>6, <1>7 DEF Listing

\* What a page tells, and what the tab has read by then, is of workspaces the
\* server knows.
LEMMA PageIs ==
  ASSUME NEW known, NEW page \in [m : Nat, entries : Rows, next : Seq(Cursor)],
         NEW read \in Rows, DOMAIN page.entries \subseteq known, DOMAIN read \subseteq known,
         NEW first \in BOOLEAN
  PROVE  LET all  == IF first THEN page.entries ELSE Over(page.entries, read)
             told == IF page.next = << >> THEN all ELSE page.entries
         IN  /\ all \in Rows /\ DOMAIN all \subseteq known
             /\ told \in Rows /\ DOMAIN told \subseteq known
<1> DEFINE entries == page.entries
<1>1. entries \in Rows
  OBVIOUS
<1> HIDE DEF entries
<1>2. /\ Over(entries, read) \in Rows
      /\ DOMAIN Over(entries, read) = DOMAIN entries \cup DOMAIN read
  <2>1. entries \in Partial(Workspace, Row) /\ read \in Partial(Workspace, Row)
    BY <1>1 DEF Rows
  <2>2. Over(entries, read) \in Partial(Workspace, Row)
    BY <2>1, OverIn
  <2>3. DOMAIN Over(entries, read) = DOMAIN entries \cup DOMAIN read
    BY DEF Over
  <2> QED
    BY <2>2, <2>3 DEF Rows
<1> QED
  BY <1>1, <1>2 DEF entries

\* The answer to a request for an account's list: the list is stored, and what it
\* says of workspaces is applied later.
LEMMA ListedKeeps ==
  ASSUME Inv, NEW c \in calls, DeliverList(c), UNCHANGED <<session, server, history, scope>>
  PROVE  Inv'
<1> DEFINE t == c.tab
           page == c.answer
           read == IF c.asked.from = << >> THEN page.entries ELSE Over(page.entries, tabs[t].read)
           told == IF page.next = << >> THEN read ELSE page.entries
           sent == [page EXCEPT !.entries = told]
           merged == MergePage(CatalogOf(db, c.account), sent, page.next = << >>)
           asked == [entries |-> told, complete |-> page.next = << >>, m |-> page.m,
                     left |-> Workspace]
           again == Request(t, "list", Order[1], [from |-> << >>])
           next == Request(t, "apply", Order[1], asked)
<1>1. /\ CallHolds(c, DOMAIN log, loose, author, Uploaded) /\ IsCall(c)
      /\ c.kind = "list" /\ c.result \in {"ok", "stale"} /\ c.account \in Account
  BY CallIs DEF DeliverList
<1>2. t \in Tab
  BY <1>1 DEF IsCall
<1>3. session' \in Accounts
  BY DEF Inv, TypeOK
<1>4. CASE tabs[t].who # c.account
  <2>1. UNCHANGED <<db, tabs>> /\ calls' \subseteq calls
    BY <1>4 DEF DeliverList, Done
  <2>2. \A x \in calls' : x \in calls
    BY <2>1
  <2> QED
    BY <1>3, <2>1, <2>2, StoredIs, TabsStay, MemoryStep
<1>5. CASE tabs[t].who = c.account /\ c.result = "stale"
  <2>1. UNCHANGED <<db, tabs>> /\ calls' = (calls \ {c}) \cup {again}
    BY <1>5 DEF DeliverList
  <2>2. Asks("list", [from |-> << >>]) /\ "list" \in Kinds \ {"remove", "sync", "apply"}
    BY DEF Asks, Kinds
  <2>3. CallHolds(again, DOMAIN log, loose, author, Uploaded) /\ DateHolds(again, db)
    BY <1>1, <1>2, <1>5, <2>2, PlainRequest
  <2> HIDE DEF again
  <2>4. calls' \subseteq calls \cup {again}
    BY <2>1
  <2> QED
    BY <2>1, <2>3, <2>4, TabsStay, AskStep
<1>6. CASE tabs[t].who = c.account /\ c.result = "ok"
  <2>1. /\ tabs' = [tabs EXCEPT ![t].read = read]
        /\ db' = [db EXCEPT !.catalogs = Put(@, c.account, merged)]
        /\ calls' = (calls \ {c}) \cup {next}
    BY <1>6 DEF DeliverList
  <2>2. page \in [m : Nat, entries : Rows, next : Seq(Cursor)] /\ DOMAIN page.entries \subseteq DOMAIN log
    BY <1>1, <1>6 DEF IsCall, Says, CallHolds
  <2>3. tabs[t] \in TabState /\ tabs[t].read \in Rows /\ DOMAIN tabs[t].read \subseteq DOMAIN log
    BY <1>2, TabIs DEF TabHolds
  <2>4. /\ read \in Rows /\ DOMAIN read \subseteq DOMAIN log
        /\ told \in Rows /\ DOMAIN told \subseteq DOMAIN log
    <3> DEFINE first == c.asked.from = << >>
               old == tabs[t].read
    <3>1. first \in BOOLEAN /\ old \in Rows /\ DOMAIN old \subseteq DOMAIN log
      BY <2>3
    <3>2. read = IF first THEN page.entries ELSE Over(page.entries, old)
      OBVIOUS
    <3> HIDE DEF first, old, page, read
    <3>3. /\ read \in Rows /\ DOMAIN read \subseteq DOMAIN log
          /\ (IF page.next = << >> THEN read ELSE page.entries) \in Rows
          /\ DOMAIN (IF page.next = << >> THEN read ELSE page.entries) \subseteq DOMAIN log
      BY <2>2, <3>1, <3>2, PageIs
    <3> QED
      BY <3>3
  <2> HIDE DEF page, read, told
  <2>5. sent \in [m : Nat, entries : Rows, next : Seq(Cursor)]
    BY <2>2, <2>4
  <2> HIDE DEF sent
  <2>6. merged \in Listing
    <3>1. CatalogOf(db, c.account) \in Listing
      BY <1>1, CatalogIs DEF Accounts
    <3> QED
      BY <2>5, <3>1, MergeIs
  <2> HIDE DEF merged
  <2>7. db' \in Db /\ Agrees(db') /\ db'.copies = db.copies /\ db'.clock = db.clock
    <3>1. db \in Db /\ Agrees(db)
      BY StoredIs
    <3>2. db.catalogs \in Partial(Accounts, Listing) /\ c.account \in Accounts
      BY <1>1, <3>1, DbIs DEF Accounts
    <3> DEFINE catalogs == Put(db.catalogs, c.account, merged)
    <3>3. catalogs \in Partial(Accounts, Listing)
      BY <2>6, <3>2, PutIn
    <3>4. db' = [db EXCEPT !.catalogs = catalogs]
      BY <2>1
    <3> HIDE DEF catalogs
    <3> QED
      BY <3>1, <3>3, <3>4 DEF Db, Agrees
  <2>8. tabs' \in [Tab -> TabState] /\ \A x \in Tab : TabHolds(tabs'[x], DOMAIN log)
    <3> DEFINE v == [tabs[t] EXCEPT !.read = read]
    <3>1. v \in TabState /\ v.read = read /\ v.panel = tabs[t].panel
      BY <2>3, <2>4 DEF TabState
    <3>2. tabs' = [tabs EXCEPT ![t] = v]
      BY <2>1
    <3>3. TabHolds(tabs[t], DOMAIN log)
      BY <1>2, TabIs
    <3> HIDE DEF v
    <3>4. TabHolds(v, DOMAIN log)
      BY <2>4, <3>1, <3>3 DEF TabHolds
    <3> QED
      BY <1>2, <3>1, <3>2, <3>4, TabChanges
  <2>9. CallHolds(next, DOMAIN log, loose, author, Uploaded) /\ DateHolds(next, db')
    <3>1. asked \in [entries : Rows, complete : BOOLEAN, m : Nat, left : SUBSET Workspace]
      BY <2>2, <2>4
    <3>2. asked.entries = told
      OBVIOUS
    <3> HIDE DEF asked
    <3>3. Asks("apply", asked) /\ "apply" \in Kinds
      BY <3>1 DEF Asks, Kinds
    <3>4. IsCall(next) /\ next.kind = "apply" /\ next.asked = asked
      BY <1>1, <1>2, <1>6, <3>3, RequestIs
    <3> HIDE DEF next
    <3> QED
      BY <2>4, <3>2, <3>4 DEF CallHolds, DateHolds
  <2> HIDE DEF next
  <2>10. \A x \in calls' : \/ x \in calls
                           \/ /\ CallHolds(x, DOMAIN log, loose, author, Uploaded)
                              /\ DateHolds(x, db')
    BY <2>1, <2>9
  <2> QED
    BY <1>3, <2>7, <2>8, <2>10, MemoryStep
<1> QED
  BY <1>1, <1>4, <1>5, <1>6

\* What a list says is applied to one copy, of a workspace the server knows.
LEMMA AppliedKeeps ==
  ASSUME Inv, NEW c \in calls, ApplyListed(c), UNCHANGED <<session, server, history, scope>>
  PROVE  Inv'
<1>1. PICK w \in IF c.kind = "apply" THEN c.asked.left ELSE {} :
    LET copy  == db.copies[w]
        known == copy.access
        same  == known.account = c.account
        told  == IF w \in DOMAIN c.asked.entries
                 THEN ServerAccess(c.account, c.asked.entries[w].m, c.asked.entries[w].a, "active",
                                   c.asked.entries[w].role)
                 ELSE ServerAccess(c.account, c.asked.m, IF same THEN known.a ELSE 0, "revoked", "none")
        News  == /\ Stored(db, w)
                 /\ \/ w \in DOMAIN c.asked.entries
                    \/ c.asked.complete /\ known.kind = "server" /\ ~(same /\ c.asked.m <= known.m)
                 /\ ShouldApply(known, told)
    IN
    /\ \/ db' = IF News THEN Mutate(db, w, WithAccess(copy, told)) ELSE db
       \/ May("fail") /\ UNCHANGED db
    /\ calls' = (calls \ {c}) \cup
         (IF c.asked.left = {w} THEN {} ELSE {[c EXCEPT !.asked.left = @ \ {w}]})
    /\ UNCHANGED tabs
  BY DEF ApplyListed
<1> DEFINE copy == db.copies[w]
           known == copy.access
           same == known.account = c.account
           told == IF w \in DOMAIN c.asked.entries
                   THEN ServerAccess(c.account, c.asked.entries[w].m, c.asked.entries[w].a, "active",
                                     c.asked.entries[w].role)
                   ELSE ServerAccess(c.account, c.asked.m, IF same THEN known.a ELSE 0, "revoked", "none")
           left == c.asked.left \ {w}
           asked == [c.asked EXCEPT !.left = left]
           rest == [c EXCEPT !.asked = asked]
<1>2. /\ CallHolds(c, DOMAIN log, loose, author, Uploaded) /\ IsCall(c)
      /\ c.kind = "apply" /\ c.account \in Account
  BY <1>1, CallIs
<1>3. /\ c.asked \in [entries : Rows, complete : BOOLEAN, m : Nat, left : SUBSET Workspace]
      /\ DOMAIN c.asked.entries \subseteq DOMAIN log
  BY <1>2 DEF IsCall, Asks, CallHolds
<1>4. w \in Workspace
  BY <1>1, <1>2, <1>3
<1>5. CallHolds(rest, DOMAIN log, loose, author, Uploaded) /\ (\A d : DateHolds(rest, d))
  <2>1. asked \in [entries : Rows, complete : BOOLEAN, m : Nat, left : SUBSET Workspace]
        /\ asked.entries = c.asked.entries
    BY <1>3
  <2> HIDE DEF asked
  <2>2. Asks("apply", asked)
    BY <2>1 DEF Asks
  <2>3. c \in [kind : Kinds, tab : Tab, w : {c.w}, account : Accounts, cookie : Accounts,
               asked : {c.asked}, result : Results, answer : {c.answer}]
    BY <1>2 DEF IsCall
  <2>4. /\ rest.kind = "apply" /\ rest.asked = asked /\ rest.w = c.w /\ rest.answer = c.answer
        /\ rest.account = c.account /\ rest.result = c.result
        /\ rest \in [kind : Kinds, tab : Tab, w : {c.w}, account : Accounts, cookie : Accounts,
                     asked : {asked}, result : Results, answer : {c.answer}]
    BY <1>2, <2>3
  <2> HIDE DEF rest
  <2>5. IsCall(rest)
    BY <1>2, <2>2, <2>4 DEF IsCall, Says
  <2> QED
    BY <1>3, <2>1, <2>4, <2>5 DEF CallHolds, DateHolds
<1>6. UNCHANGED tabs /\ calls' \subseteq calls \cup {rest}
  <2>1. rest = [c EXCEPT !.asked.left = @ \ {w}]
    OBVIOUS
  <2> HIDE DEF rest
  <2> QED
    BY <1>1, <2>1
<1> HIDE DEF rest
<1>7. CASE db' = db
  <2>1. calls' \subseteq calls \cup {rest} /\ DateHolds(rest, db)
    BY <1>5, <1>6
  <2> QED
    BY <1>5, <1>6, <1>7, <2>1, TabsStay, AskStep
<1>8. CASE db' # db
  <2>1. /\ db' = Mutate(db, w, WithAccess(copy, told)) /\ w \in DOMAIN db.copies
        /\ w \notin DOMAIN c.asked.entries => known.kind = "server"
    BY <1>1, <1>8 DEF Stored
  <2>2. copy \in Copy /\ CopyHolds(w, copy, DOMAIN log, loose, author)
    BY <2>1, StoredIs
  <2>3. w \in DOMAIN log
    BY <1>3, <2>1, <2>2 DEF CopyHolds
  <2>4. told \in Access /\ told.kind = "server"
    <3>1. CASE w \in DOMAIN c.asked.entries
      <4>1. c.asked.entries[w] \in Row
        BY <1>3, <3>1, PartialIs DEF Rows
      <4>2. c.asked.entries[w].m \in Nat /\ c.asked.entries[w].a \in Nat /\ c.asked.entries[w].role \in Roles
        BY <4>1 DEF Row
      <4>3. told = ServerAccess(c.account, c.asked.entries[w].m, c.asked.entries[w].a, "active",
                                c.asked.entries[w].role)
        BY <3>1
      <4> HIDE DEF told
      <4> QED
        BY <1>2, <4>2, <4>3, ServerAccessIs
    <3>2. CASE w \notin DOMAIN c.asked.entries
      <4> DEFINE at == IF same THEN known.a ELSE 0
                 m == c.asked.m
                 account == c.account
      <4>1. /\ at \in Nat /\ m \in Nat /\ account \in Account
            /\ "revoked" \in {"active", "left", "revoked", "deleted", "unknown"} /\ "none" \in Roles
        BY <1>2, <1>3, <2>2 DEF Copy, Access, AnyAccess, Roles
      <4>2. told = ServerAccess(account, m, at, "revoked", "none")
        BY <3>2
      <4> HIDE DEF told, at, m, account
      <4> QED
        BY <4>1, <4>2, ServerAccessIs
    <3> QED
      BY <3>1, <3>2
  <2> HIDE DEF told, copy
  <2> DEFINE next == WithAccess(copy, told)
  <2>5. /\ next \in Copy /\ next.stamp = copy.stamp
        /\ IdsOf(next.outbox) = IdsOf(copy.outbox)
    BY <2>2, <2>4, WithAccessIs
  <2>6. CopyHolds(w, next, DOMAIN log, loose, author)
    <3>1. /\ IdsOf(copy.outbox) \subseteq copy.state
          /\ copy.access.kind = "device" => IdsOf(copy.outbox) \subseteq loose
          /\ \A i \in DOMAIN copy.outbox :
               WorkOf(copy.outbox[i].id, IF copy.outbox[i].account = Nobody THEN copy.access.account
                                         ELSE copy.outbox[i].account, loose, author)
      BY <2>2 DEF CopyHolds
    <3> QED
      BY <2>2, <2>3, <2>4, <3>1, WithAccessHolds
  <2> HIDE DEF next
  <2>7. /\ db' \in Db /\ Agrees(db') /\ Moves(db, db')
        /\ \A x \in DOMAIN db'.copies : CopyHolds(x, db'.copies[x], DOMAIN log, loose, author)
        /\ QueuedOf(db) \subseteq QueuedOf(db') \cup Uploaded
    <3>1. db' = Mutate(db, w, next)
      BY <2>1 DEF next
    <3>2. next.stamp = db.copies[w].stamp /\ IdsOf(next.outbox) = IdsOf(db.copies[w].outbox)
      BY <2>5 DEF copy
    <3> QED
      BY <2>1, <2>5, <2>6, <3>1, <3>2, AnswerStep
  <2>8. \A x \in calls' : \/ x \in calls
                          \/ /\ CallHolds(x, DOMAIN log, loose, author, Uploaded)
                             /\ DateHolds(x, db')
    BY <1>5, <1>6
  <2>9. tabs' \in [Tab -> TabState] /\ \A x \in Tab : TabHolds(tabs'[x], DOMAIN log)
    BY <1>6, TabsStay
  <2> QED
    BY <2>7, <2>8, <2>9, StoreStep
<1> QED
  BY <1>7, <1>8

\* A panel of workspace w that keeps a deletion, if any, as Tell leaves it.
KeepsDeletion(panel, w, known) ==
  /\ panel \in Board /\ panel.w = w
  /\ panel.kept # << >> =>
       Len(panel.kept) = 2 /\ panel.kept[1].kind = "server" /\ w \in known

\* A tab shows a panel, or goes on as it was.
LEMMA WithPanelIs ==
  ASSUME Inv, NEW t \in Tab, NEW w, NEW v \in TabState, v.read = tabs[t].read,
         v.panel = tabs[t].panel, NEW p, KeepsDeletion(p, w, DOMAIN log), NEW shows \in BOOLEAN
  PROVE  LET u == [v EXCEPT !.panel = IF shows THEN <<p>> ELSE @]
         IN  u \in TabState /\ TabHolds(u, DOMAIN log)
<1> DEFINE panel == IF shows THEN <<p>> ELSE v.panel
           u == [v EXCEPT !.panel = panel]
<1>1. p \in Board /\ <<p>> \in Seq(Board) /\ DOMAIN <<p>> = {1} /\ <<p>>[1] = p
  BY DEF KeepsDeletion
<1>2. panel \in Seq(Board)
  BY <1>1 DEF TabState
<1>3. u \in TabState /\ u.read = tabs[t].read /\ u.panel = panel
  BY <1>2 DEF TabState
<1>4. TabHolds(tabs[t], DOMAIN log)
  BY TabIs
<1>5. CASE shows
  <2>1. u.panel = <<p>>
    BY <1>3, <1>5
  <2> HIDE DEF u, panel
  <2>2. TabHolds(u, DOMAIN log)
    BY <1>1, <1>3, <1>4, <2>1 DEF TabHolds, KeepsDeletion
  <2> QED
    BY <1>3, <2>2 DEF u, panel
<1>6. CASE ~shows
  <2>1. u.panel = tabs[t].panel
    BY <1>3, <1>6
  <2> HIDE DEF u, panel
  <2>2. TabHolds(u, DOMAIN log)
    BY <1>3, <1>4, <2>1 DEF TabHolds
  <2> QED
    BY <1>3, <2>2 DEF u, panel
<1> QED
  BY <1>5, <1>6

\* A tab that was told of a deletion.
LEMMA EndedIs ==
  ASSUME NEW v \in TabState, NEW w \in Workspace, NEW acc \in Access, acc.kind = "server"
  PROVE  LET u == [v EXCEPT !.ended = Put(@, w, acc),
                            !.shown = [x \in DOMAIN @ |->
                              IF x = w THEN Deleted(@[x], acc) ELSE @[x]]]
         IN  u \in TabState /\ u.read = v.read /\ u.panel = v.panel
<1> DEFINE old == v.shown
           shown == [x \in DOMAIN old |-> IF x = w THEN Deleted(old[x], acc) ELSE old[x]]
           ended == Put(v.ended, w, acc)
<1>1. old \in Partial(Workspace, Copy) /\ v.ended \in Partial(Workspace, Access)
  BY DEF TabState
<1>2. ended \in Partial(Workspace, Access)
  BY <1>1, PutIn
<1>3. DOMAIN old \subseteq Workspace /\ \A x \in DOMAIN old : old[x] \in Copy
  BY <1>1, PartialIs
<1> HIDE DEF old
<1>4. \A x \in DOMAIN old : Deleted(old[x], acc) \in Copy
  BY <1>3, DeletedIs
<1>5. DOMAIN shown = DOMAIN old /\ shown \in [DOMAIN shown -> Copy]
  BY <1>3, <1>4
<1>6. shown \in Partial(Workspace, Copy)
  <2> HIDE DEF shown
  <2> QED
    BY <1>3, <1>5, PartialIs
<1> HIDE DEF ended
<1>7. [v EXCEPT !.ended = ended, !.shown = shown] \in TabState
  <2> HIDE DEF shown
  <2> QED
    BY <1>2, <1>6 DEF TabState
<1> QED
  BY <1>7 DEF ended, old, TabState

\* What a copy is told of its access and of the workspace.
LEMMA ToldIs ==
  ASSUME NEW w, NEW copy \in Copy, NEW acc \in Access, acc.kind = "server",
         NEW said \in Access, NEW known, NEW free, NEW by, w \in known,
         CopyHolds(w, copy, known, free, by), NEW end \in BOOLEAN
  PROVE  LET next == [(IF end THEN Deleted(copy, acc) ELSE WithAccess(copy, acc))
                      EXCEPT !.summary = LaterSummary(@, SummaryOf(said))]
         IN  /\ next \in Copy /\ next.stamp = copy.stamp
             /\ IdsOf(next.outbox) = IdsOf(copy.outbox)
             /\ CopyHolds(w, next, known, free, by)
<1> DEFINE mid == IF end THEN Deleted(copy, acc) ELSE WithAccess(copy, acc)
           summary == LaterSummary(mid.summary, SummaryOf(said))
           next == [mid EXCEPT !.summary = summary]
<1>1. /\ mid \in Copy /\ mid.stamp = copy.stamp /\ IdsOf(mid.outbox) = IdsOf(copy.outbox)
      /\ CopyHolds(w, mid, known, free, by)
  <2>1. CASE end
    BY <2>1, DeletedIs
  <2>2. CASE ~end
    <3>1. /\ IdsOf(copy.outbox) \subseteq copy.state
          /\ copy.access.kind = "device" => IdsOf(copy.outbox) \subseteq free
          /\ \A i \in DOMAIN copy.outbox :
               WorkOf(copy.outbox[i].id, IF copy.outbox[i].account = Nobody THEN copy.access.account
                                         ELSE copy.outbox[i].account, free, by)
      BY DEF CopyHolds
    <3>2. CopyHolds(w, WithAccess(copy, acc), known, free, by)
      BY <3>1, WithAccessHolds
    <3>3. /\ WithAccess(copy, acc) \in Copy /\ WithAccess(copy, acc).stamp = copy.stamp
          /\ IdsOf(WithAccess(copy, acc).outbox) = IdsOf(copy.outbox)
      BY WithAccessIs
    <3> QED
      BY <2>2, <3>2, <3>3
  <2> QED
    BY <2>1, <2>2
<1> HIDE DEF mid
<1>2. summary \in Seq(Access)
  <2>1. mid.summary \in Seq(Access) /\ SummaryOf(said) \in Seq(Access)
    BY <1>1, SummaryIs DEF Copy
  <2> QED
    BY <2>1, LaterSummaryIs
<1> HIDE DEF summary
<1>3. /\ next \in Copy /\ next.stamp = mid.stamp /\ next.outbox = mid.outbox
      /\ next.state = mid.state /\ next.access = mid.access
  BY <1>1, <1>2 DEF Copy
<1> HIDE DEF next
<1>4. CopyHolds(w, next, known, free, by)
  BY <1>1, <1>3 DEF CopyHolds
<1>5. next.stamp = copy.stamp /\ IdsOf(next.outbox) = IdsOf(copy.outbox)
  BY <1>1, <1>3
<1> QED
  BY <1>3, <1>4, <1>5 DEF next, summary, mid

\* Telling a copy and a tab of a workspace the server knows keeps every property.
LEMMA TellKeeps ==
  ASSUME Inv, UNCHANGED <<session, server, history, scope>>,
         NEW t \in Tab, NEW w \in DOMAIN log, w \in Workspace,
         NEW acc \in Access, acc.kind = "server", NEW said \in Access,
         NEW panel, KeepsDeletion(panel, w, DOMAIN log), Tell(t, w, acc, said, panel),
         \A c \in calls' : \/ c \in calls
                           \/ /\ CallHolds(c, DOMAIN log, loose, author, Uploaded)
                              /\ \A d : DateHolds(c, d)
  PROVE  Inv'
<1> DEFINE end == acc.status = "deleted"
           copy == db.copies[w]
           told == [(IF end THEN Deleted(copy, acc) ELSE WithAccess(copy, acc))
                    EXCEPT !.summary = LaterSummary(@, SummaryOf(said))]
           Ended(tab) == [tab EXCEPT !.ended = Put(@, w, acc),
                                     !.shown = [x \in DOMAIN @ |->
                                       IF x = w THEN Deleted(@[x], acc) ELSE @[x]]]
           shows == MountedFor(t, w, acc.account)
           With(tab, p) == [tab EXCEPT !.panel = IF shows THEN <<p>> ELSE @]
           Stores == /\ Stored(db, w)
                     /\ end \/ (w \notin DOMAIN tabs[t].ended /\ ShouldApply(copy.access, acc))
           keeping == [panel EXCEPT !.kept = <<acc, said>>]
           heard == IF end THEN Ended(tabs[t]) ELSE IF Stores THEN ShowIf(tabs[t], w, told)
                    ELSE tabs[t]
<1>1. \/ /\ db' = IF Stores THEN Mutate(db, w, told) ELSE db
         /\ tabs' = [tabs EXCEPT ![t] = With(heard, panel)]
      \/ /\ end /\ db' = db
         /\ tabs' = [tabs EXCEPT ![t] = With(Ended(tabs[t]), keeping)]
  BY DEF Tell
<1>2. tabs[t] \in TabState
  BY TabIs
<1>3. Ended(tabs[t]) \in TabState /\ Ended(tabs[t]).read = tabs[t].read
      /\ Ended(tabs[t]).panel = tabs[t].panel
  BY <1>2, EndedIs
<1>4. shows \in BOOLEAN /\ end \in BOOLEAN
  BY DEF MountedFor, Mounted
<1>5. Stores => /\ w \in DOMAIN db.copies /\ copy \in Copy
                /\ told \in Copy /\ told.stamp = copy.stamp
                /\ IdsOf(told.outbox) = IdsOf(copy.outbox)
                /\ CopyHolds(w, told, DOMAIN log, loose, author)
  <2>1. SUFFICES ASSUME Stores
                 PROVE  /\ w \in DOMAIN db.copies /\ copy \in Copy
                        /\ told \in Copy /\ told.stamp = copy.stamp
                        /\ IdsOf(told.outbox) = IdsOf(copy.outbox)
                        /\ CopyHolds(w, told, DOMAIN log, loose, author)
    OBVIOUS
  <2>2. w \in DOMAIN db.copies
    BY <2>1 DEF Stored
  <2>3. copy \in Copy /\ CopyHolds(w, copy, DOMAIN log, loose, author)
    BY <2>2, StoredIs
  <2> HIDE DEF copy, end
  <2>4. /\ told \in Copy /\ told.stamp = copy.stamp
        /\ IdsOf(told.outbox) = IdsOf(copy.outbox)
        /\ CopyHolds(w, told, DOMAIN log, loose, author)
    BY <1>4, <2>3, ToldIs
  <2> QED
    BY <2>2, <2>3, <2>4
<1> HIDE DEF told, Ended
<1>6. heard \in TabState /\ heard.read = tabs[t].read /\ heard.panel = tabs[t].panel
  <2>1. CASE end
    BY <1>3, <2>1
  <2>2. CASE ~end /\ Stores
    <3>1. heard = ShowIf(tabs[t], w, told)
      BY <2>2
    <3>2. ShowIf(tabs[t], w, told) \in TabState
      BY <1>5, <2>2, ShownIs
    <3>3. /\ ShowIf(tabs[t], w, told).read = tabs[t].read
          /\ ShowIf(tabs[t], w, told).panel = tabs[t].panel
      BY <1>2 DEF ShowIf, TabState
    <3> QED
      BY <3>1, <3>2, <3>3
  <2>3. CASE ~end /\ ~Stores
    BY <1>2, <2>3
  <2> QED
    BY <2>1, <2>2, <2>3
<1> HIDE DEF heard, shows
<1>7. KeepsDeletion(keeping, w, DOMAIN log)
  <2>1. <<acc, said>> \in Seq(Access) /\ Len(<<acc, said>>) = 2 /\ <<acc, said>>[1] = acc
    OBVIOUS
  <2>2. keeping \in Board /\ keeping.w = w /\ keeping.kept = <<acc, said>>
    BY <2>1 DEF KeepsDeletion, Board
  <2> HIDE DEF keeping
  <2> QED
    BY <2>1, <2>2 DEF KeepsDeletion
<1> HIDE DEF keeping
<1>8. tabs' \in [Tab -> TabState] /\ \A x \in Tab : TabHolds(tabs'[x], DOMAIN log)
  <2>1. CASE tabs' = [tabs EXCEPT ![t] = With(heard, panel)]
    <3> DEFINE v == With(heard, panel)
    <3>1. v \in TabState /\ TabHolds(v, DOMAIN log)
      BY <1>4, <1>6, WithPanelIs
    <3>2. tabs' = [tabs EXCEPT ![t] = v]
      BY <2>1
    <3> HIDE DEF v
    <3> QED
      BY <3>1, <3>2, TabChanges
  <2>2. CASE tabs' = [tabs EXCEPT ![t] = With(Ended(tabs[t]), keeping)]
    <3> DEFINE u == Ended(tabs[t])
               v == With(u, keeping)
    <3>1. u \in TabState /\ u.read = tabs[t].read /\ u.panel = tabs[t].panel
      BY <1>3
    <3>2. tabs' = [tabs EXCEPT ![t] = v]
      BY <2>2
    <3> HIDE DEF u
    <3>3. v \in TabState /\ TabHolds(v, DOMAIN log)
      BY <1>4, <1>7, <3>1, WithPanelIs
    <3> HIDE DEF v
    <3> QED
      BY <3>2, <3>3, TabChanges
  <2> QED
    BY <1>1, <2>1, <2>2
<1> HIDE DEF With, end
<1>9. CASE db' = db
  <2>1. session' \in Accounts
    BY DEF Inv, TypeOK
  <2>2. \A x \in calls' : \/ x \in calls
                          \/ /\ CallHolds(x, DOMAIN log, loose, author, Uploaded)
                             /\ DateHolds(x, db')
    OBVIOUS
  <2> QED
    BY <1>8, <1>9, <2>1, <2>2, StoredIs, MemoryStep
<1>10. CASE db' # db
  <2>1. Stores /\ db' = Mutate(db, w, told)
    BY <1>1, <1>10
  <2>2. /\ w \in DOMAIN db.copies /\ told \in Copy /\ told.stamp = db.copies[w].stamp
        /\ IdsOf(told.outbox) = IdsOf(db.copies[w].outbox)
        /\ CopyHolds(w, told, DOMAIN log, loose, author)
    BY <1>5, <2>1
  <2>3. /\ db' \in Db /\ Agrees(db') /\ Moves(db, db')
        /\ \A x \in DOMAIN db'.copies : CopyHolds(x, db'.copies[x], DOMAIN log, loose, author)
        /\ QueuedOf(db) \subseteq QueuedOf(db') \cup Uploaded
    BY <2>1, <2>2, AnswerStep
  <2>4. \A x \in calls' : \/ x \in calls
                          \/ /\ CallHolds(x, DOMAIN log, loose, author, Uploaded)
                             /\ DateHolds(x, db')
    OBVIOUS
  <2> QED
    BY <1>8, <2>3, <2>4, StoreStep
<1> QED
  BY <1>9, <1>10

\* A panel keeps the deletion it has, whatever else of it changes.
LEMMA PanelStays ==
  ASSUME Inv, NEW t \in Tab, NEW w \in Workspace, NEW acc \in Access
  PROVE  /\ KeepsDeletion(Panel(t, w), w, DOMAIN log)
         /\ KeepsDeletion([Panel(t, w) EXCEPT !.data = <<acc>>], w, DOMAIN log)
         /\ KeepsDeletion([Panel(t, w) EXCEPT !.over = <<acc>>], w, DOMAIN log)
         /\ KeepsDeletion([Panel(t, w) EXCEPT !.ended = TRUE], w, DOMAIN log)
<1> DEFINE p == Panel(t, w)
<1>1. KeepsDeletion(p, w, DOMAIN log)
  BY PanelIs DEF KeepsDeletion
<1> HIDE DEF p
<1>2. <<acc>> \in Seq(Access)
  OBVIOUS
<1>3. ASSUME NEW u \in Board, u.w = p.w, u.kept = p.kept
      PROVE  KeepsDeletion(u, w, DOMAIN log)
  BY <1>1, <1>3 DEF KeepsDeletion
<1>4. p \in Board
  BY <1>1 DEF KeepsDeletion
<1>5. KeepsDeletion([p EXCEPT !.data = <<acc>>], w, DOMAIN log)
  <2> DEFINE u == [p EXCEPT !.data = <<acc>>]
  <2>1. u \in Board /\ u.w = p.w /\ u.kept = p.kept
    BY <1>2, <1>4 DEF Board
  <2> HIDE DEF u
  <2>2. KeepsDeletion(u, w, DOMAIN log)
    BY <1>3, <2>1
  <2> QED
    BY <2>2 DEF u
<1>6. KeepsDeletion([p EXCEPT !.over = <<acc>>], w, DOMAIN log)
  <2> DEFINE u == [p EXCEPT !.over = <<acc>>]
  <2>1. u \in Board /\ u.w = p.w /\ u.kept = p.kept
    BY <1>2, <1>4 DEF Board
  <2> HIDE DEF u
  <2>2. KeepsDeletion(u, w, DOMAIN log)
    BY <1>3, <2>1
  <2> QED
    BY <2>2 DEF u
<1>7. KeepsDeletion([p EXCEPT !.ended = TRUE], w, DOMAIN log)
  <2> DEFINE u == [p EXCEPT !.ended = TRUE]
  <2>1. u \in Board /\ u.w = p.w /\ u.kept = p.kept
    BY <1>4 DEF Board
  <2> HIDE DEF u
  <2>2. KeepsDeletion(u, w, DOMAIN log)
    BY <1>3, <2>1
  <2> QED
    BY <2>2 DEF u
<1> QED
  BY <1>1, <1>5, <1>6, <1>7 DEF p

\* What a request of the access panel is answered.
LEMMA PanelAnswer ==
  ASSUME Inv, NEW c \in calls, c.kind \in {"access", "leave", "delete", "transfer"}, c.result = "ok"
  PROVE  /\ c.tab \in Tab /\ c.w \in Workspace /\ c.w \in DOMAIN log /\ c.account \in Account
         /\ Asks(c.kind, c.asked) /\ Says(c.kind, c.answer)
BY CallIs DEF CallHolds, IsCall

\* What was loaded is told to the copy as well as the panel.
LEMMA LoadedKeeps ==
  ASSUME Inv, NEW c \in calls, DeliverAccess(c), UNCHANGED <<session, server, history, scope>>
  PROVE  Inv'
<1> DEFINE t == c.tab
           w == c.w
           acc == c.answer.access
           loaded == IF c.asked.closed THEN Panel(t, w)
                     ELSE [Panel(t, w) EXCEPT !.data = <<acc>>]
<1>1. c.kind = "access" /\ c.result = "ok" /\ calls' \subseteq calls
  BY DEF DeliverAccess, Done
<1>2. t \in Tab /\ w \in Workspace /\ w \in DOMAIN log /\ Says(c.kind, c.answer)
  BY <1>1, PanelAnswer
<1>3. acc \in Access /\ acc.kind = "server"
  BY <1>1, <1>2 DEF Says
<1>4. KeepsDeletion(loaded, w, DOMAIN log)
  BY <1>2, <1>3, PanelStays
<1>5. Tell(t, w, acc, acc, loaded) \/ UNCHANGED <<db, tabs>>
  BY DEF DeliverAccess
<1>6. \A x \in calls' : x \in calls
  BY <1>1
<1> HIDE DEF loaded, acc, t, w
<1>7. CASE Tell(t, w, acc, acc, loaded)
  BY <1>2, <1>3, <1>4, <1>6, <1>7, TellKeeps
<1>8. CASE UNCHANGED <<db, tabs>>
  <2>1. session' \in Accounts
    BY DEF Inv, TypeOK
  <2> QED
    BY <1>6, <1>8, <2>1, StoredIs, TabsStay, MemoryStep
<1> QED
  BY <1>5, <1>7, <1>8

\* What the server confirmed of a change is an access of the workspace.
LEMMA ConfirmedIs ==
  ASSUME Inv, NEW c \in calls, c.kind \in {"leave", "delete", "transfer"}, c.result = "ok"
  PROVE  /\ c.asked.data \in Access
         /\ c.kind = "delete" => ConfirmedDeletion(c) \in Access /\ ConfirmedDeletion(c).kind = "server"
         /\ c.kind = "leave" => ConfirmedLeave(c) \in Access /\ ConfirmedLeave(c).kind = "server"
         /\ c.kind = "transfer" => ConfirmedTransfer(c) \in Access /\ ConfirmedTransfer(c).kind = "server"
<1> DEFINE data == c.asked.data
           account == c.account
           answer == c.answer
           later == data.m + 1
<1>1. account \in Account /\ Asks(c.kind, c.asked) /\ Says(c.kind, answer)
  BY PanelAnswer
<1>2. data \in Access
  BY <1>1 DEF Asks
<1>3. data.m \in Nat /\ later \in Nat /\ data.role \in Roles /\ "editor" \in Roles
  BY <1>2 DEF Access, AnyAccess, Roles
<1>4. "deleted" \in {"active", "left", "revoked", "deleted", "unknown"}
      /\ "left" \in {"active", "left", "revoked", "deleted", "unknown"}
      /\ "active" \in {"active", "left", "revoked", "deleted", "unknown"}
  OBVIOUS
<1>5. CASE c.kind = "delete"
  <2>1. answer.a \in Nat
    BY <1>1, <1>5 DEF Says
  <2>2. ConfirmedDeletion(c) = ServerAccess(account, later, answer.a, "deleted", data.role)
    BY DEF ConfirmedDeletion
  <2> HIDE DEF data, account, answer, later
  <2>3. ConfirmedDeletion(c) \in Access /\ ConfirmedDeletion(c).kind = "server"
    BY <1>1, <1>3, <1>4, <2>1, <2>2, ServerAccessIs
  <2> QED
    BY <1>2, <1>5, <2>3 DEF data
<1>6. CASE c.kind = "leave"
  <2>1. answer.a \in Nat /\ answer.m \in Nat
    BY <1>1, <1>6 DEF Says
  <2>2. ConfirmedLeave(c) = ServerAccess(account, answer.m, answer.a, "left", data.role)
    BY DEF ConfirmedLeave
  <2> HIDE DEF data, account, answer, later
  <2>3. ConfirmedLeave(c) \in Access /\ ConfirmedLeave(c).kind = "server"
    BY <1>1, <1>3, <1>4, <2>1, <2>2, ServerAccessIs
  <2> QED
    BY <1>2, <1>6, <2>3 DEF data
<1>7. CASE c.kind = "transfer"
  <2>1. answer.a \in Nat /\ answer.m \in Nat
    BY <1>1, <1>7 DEF Says
  <2>2. ConfirmedTransfer(c) = ServerAccess(account, answer.m, answer.a, "active", "editor")
    BY DEF ConfirmedTransfer
  <2> HIDE DEF data, account, answer, later
  <2>3. ConfirmedTransfer(c) \in Access /\ ConfirmedTransfer(c).kind = "server"
    BY <1>1, <1>3, <1>4, <2>1, <2>2, ServerAccessIs
  <2> QED
    BY <1>2, <1>7, <2>3 DEF data
<1> QED
  BY <1>5, <1>6, <1>7

\* A confirmed deletion, and a confirmed leaving.
LEMMA EndKeeps ==
  ASSUME Inv, NEW c \in calls, DeliverDelete(c) \/ DeliverLeave(c),
         UNCHANGED <<session, server, history, scope>>
  PROVE  Inv'
<1> DEFINE t == c.tab
           w == c.w
           acc == IF c.kind = "delete" THEN ConfirmedDeletion(c) ELSE ConfirmedLeave(c)
           data == c.asked.data
           panel == [Panel(t, w) EXCEPT !.ended = TRUE]
<1>1. /\ c.kind \in {"delete", "leave"} /\ c.result = "ok" /\ calls' \subseteq calls
      /\ Tell(t, w, acc, data, panel)
  BY DEF DeliverDelete, DeliverLeave, Changed, Done
<1>2. t \in Tab /\ w \in Workspace /\ w \in DOMAIN log
  BY <1>1, PanelAnswer
<1>3. acc \in Access /\ acc.kind = "server" /\ data \in Access
  BY <1>1, ConfirmedIs
<1>4. KeepsDeletion(panel, w, DOMAIN log)
  BY <1>2, <1>3, PanelStays
<1>5. \A x \in calls' : x \in calls
  BY <1>1
<1> HIDE DEF t, w, acc, data, panel
<1> QED
  BY <1>1, <1>2, <1>3, <1>4, <1>5, TellKeeps

\* A confirmed transfer; the panel loads again, for the account that asked.
LEMMA TransferKeeps ==
  ASSUME Inv, NEW c \in calls, DeliverTransfer(c), UNCHANGED <<session, server, history, scope>>
  PROVE  Inv'
<1> DEFINE t == c.tab
           w == c.w
           acc == ConfirmedTransfer(c)
           data == c.asked.data
           panel == [Panel(t, w) EXCEPT !.over = <<acc>>]
           open == MountedFor(t, w, c.account)
           again == [Request(t, "access", w, [closed |-> ~open]) EXCEPT !.account = c.account]
<1>1. /\ c.kind = "transfer" /\ c.result = "ok"
      /\ calls' = ((IF open THEN NotLoading(t) ELSE calls) \ {c}) \cup {again}
      /\ Tell(t, w, acc, data, panel)
  BY DEF DeliverTransfer, Changed, LoadsAgain
<1>2. t \in Tab /\ w \in Workspace /\ w \in DOMAIN log /\ c.account \in Account
  BY <1>1, PanelAnswer
<1>3. acc \in Access /\ acc.kind = "server" /\ data \in Access
  BY <1>1, ConfirmedIs
<1>4. KeepsDeletion(panel, w, DOMAIN log)
  BY <1>2, <1>3, PanelStays
<1>5. CallHolds(again, DOMAIN log, loose, author, Uploaded) /\ \A d : DateHolds(again, d)
  <2> DEFINE asked == [closed |-> ~open]
             account == c.account
  <2>1. asked \in [closed : BOOLEAN]
    BY DEF MountedFor, Mounted
  <2>2. session \in Accounts
    BY DEF Inv, TypeOK
  <2>3. /\ again.kind = "access" /\ again.asked = asked /\ again.account = account
        /\ again.result = "none" /\ again.w = w /\ again.answer = << >>
        /\ again \in [kind : {"access"}, tab : {t}, w : {w}, account : {account},
                      cookie : {session}, asked : {asked}, result : {"none"}, answer : {<< >>}]
    <3> HIDE DEF asked, account
    <3> QED
      BY DEF Request, asked, account
  <2> HIDE DEF asked, again, account
  <2>4. "access" \in Kinds /\ "none" \in Results
    BY DEF Kinds, Results
  <2>5. account \in Account
    BY <1>2 DEF account
  <2>6. again \in [kind : Kinds, tab : Tab, w : {again.w}, account : Accounts,
                   cookie : Accounts, asked : {again.asked}, result : Results,
                   answer : {again.answer}]
    BY <1>2, <2>2, <2>3, <2>4, <2>5 DEF Accounts
  <2>7. IsCall(again)
    BY <1>2, <2>1, <2>3, <2>5, <2>6 DEF IsCall, Asks
  <2> QED
    BY <2>3, <2>7 DEF CallHolds, DateHolds
<1>6. calls' \subseteq calls \cup {again}
  BY <1>1 DEF NotLoading
<1> HIDE DEF t, w, acc, data, panel, again
<1>7. \A x \in calls' : \/ x \in calls
                        \/ /\ CallHolds(x, DOMAIN log, loose, author, Uploaded)
                           /\ \A d : DateHolds(x, d)
  BY <1>5, <1>6
<1> QED
  BY <1>1, <1>2, <1>3, <1>4, <1>7, TellKeeps

\* A deletion that could not be stored is told again.
LEMMA RetryKeeps ==
  ASSUME Inv, NEW t \in Tab, KeepDeletion(t)
  PROVE  Inv'
<1> DEFINE panel == tabs[t].panel[1]
           w == panel.w
           acc == panel.kept[1]
           said == panel.kept[2]
           next == [panel EXCEPT !.kept = << >>]
<1>1. /\ tabs[t].panel # << >> /\ panel.kept # << >>
      /\ UNCHANGED <<session, server, calls, history, scope>>
      /\ Tell(t, w, acc, said, next)
  BY DEF KeepDeletion
<1>2. tabs[t].panel \in Seq(Board) /\ TabHolds(tabs[t], DOMAIN log)
  BY TabIs
<1>3. 1 \in DOMAIN tabs[t].panel /\ panel \in Board
  BY <1>1, <1>2
<1>4. Len(panel.kept) = 2 /\ acc.kind = "server" /\ w \in DOMAIN log
  BY <1>1, <1>2, <1>3 DEF TabHolds
<1> HIDE DEF panel
<1>5. acc \in Access /\ said \in Access /\ w \in Workspace
  BY <1>3, <1>4 DEF Board
<1>6. KeepsDeletion(next, w, DOMAIN log)
  <2>1. next \in Board /\ next.w = w /\ next.kept = << >>
    <3>1. << >> \in Seq(Access)
      OBVIOUS
    <3>2. panel \in Board
      BY <1>3
    <3> QED
      BY <3>1, <3>2 DEF Board
  <2> HIDE DEF next
  <2> QED
    BY <2>1 DEF KeepsDeletion
<1> HIDE DEF w, acc, said, next
<1> QED
  BY <1>1, <1>4, <1>5, <1>6, TellKeeps

\* Whatever is delivered.
LEMMA DeliverKeeps ==
  ASSUME Inv, NEW c \in calls, Deliver(c)
  PROVE  Inv'
<1>1. UNCHANGED <<session, server, history, scope>>
  BY DEF Deliver
<1>2. CASE DeliverFailure(c)
  BY <1>1, <1>2, FailureKeeps
<1>3. CASE DeliverSync(c)
  BY <1>1, <1>3, SyncedKeeps
<1>4. CASE DeliverOpen(c)
  BY <1>1, <1>4, OpenedKeeps
<1>5. CASE DeliverList(c)
  BY <1>1, <1>5, ListedKeeps
<1>6. CASE ApplyListed(c)
  BY <1>1, <1>6, AppliedKeeps
<1>7. CASE DeliverAccess(c)
  BY <1>1, <1>7, LoadedKeeps
<1>8. CASE DeliverDelete(c) \/ DeliverLeave(c)
  BY <1>1, <1>8, EndKeeps
<1>9. CASE DeliverTransfer(c)
  BY <1>1, <1>9, TransferKeeps
<1> QED
  BY <1>2, <1>3, <1>4, <1>5, <1>6, <1>7, <1>8, <1>9 DEF Deliver

\* Whatever a tab does by itself.
LEMMA TabStepKeeps ==
  ASSUME Inv, NEW t \in scope.tabs, TabStep(t)
  PROVE  Inv'
<1>1. scope \in Scope
  BY LocalAssumption DEF Inv, TypeOK
<1>2. t \in Tab /\ scope.edits \subseteq Edit
  BY <1>1 DEF Scope
<1>3. CASE CheckAuth(t)
  BY <1>2, <1>3, CheckKeeps
<1>4. CASE Reload(t)
  BY <1>2, <1>4, ReloadKeeps
<1>5. CASE Follow(t)
  BY <1>2, <1>5, FollowKeeps
<1>6. CASE List(t)
  BY <1>2, <1>6, ListKeeps
<1>7. CASE KeepDeletion(t)
  BY <1>2, <1>7, RetryKeeps
<1>8. ASSUME NEW w \in Workspace,
             \/ Flush(t, w) \/ Open(t, w) \/ Initialize(t, w) \/ ReviewRemoval(t, w)
             \/ LoadAccess(t, w)
      PROVE  Inv'
  BY <1>2, <1>8, FlushKeeps, OpenKeeps, InitializeKeeps, ReviewKeeps, LoadKeeps
<1>9. ASSUME NEW w \in Workspace, NEW e \in scope.edits, Dispatch(t, e, w)
      PROVE  Inv'
  BY <1>2, <1>9, DispatchKeeps
<1>10. ASSUME NEW w \in Workspace, NEW kind \in {"leave", "delete", "transfer"},
              AskChange(t, w, kind)
       PROVE  Inv'
  BY <1>2, <1>10, AskKeeps
<1>11. ASSUME NEW w \in Workspace, NEW old \in Workspace, Replace(t, old, w)
       PROVE  Inv'
  BY <1>2, <1>11, ReplaceKeeps
<1> QED
  BY <1>3, <1>4, <1>5, <1>6, <1>7, <1>8, <1>9, <1>10, <1>11 DEF TabStep

\* Every step keeps the invariant.
LEMMA NextKeeps ==
  ASSUME Inv, [Next]_vars
  PROVE  Inv'
<1>1. CASE SwitchAccount
  BY <1>1, SwitchKeeps
<1>2. ASSUME NEW a \in Account, NEW w \in Workspace, NEW to \in Roles, ChangeRole(a, w, to)
      PROVE  Inv'
  BY <1>2, RoleKeeps
<1>3. ASSUME NEW t \in scope.tabs, TabStep(t)
      PROVE  Inv'
  BY <1>3, TabStepKeeps
<1>4. ASSUME NEW c \in calls, Serve(c) \/ Deliver(c) \/ RemoveCopy(c) \/ Lose(c)
      PROVE  Inv'
  BY <1>4, ServeKeeps, DeliverKeeps, RemoveKeeps, LoseKeeps
<1>5. CASE UNCHANGED vars
  <2>1. UNCHANGED <<server, history, scope>> /\ UNCHANGED <<session, db, tabs, calls>>
    BY <1>5 DEF vars
  <2>2. session' \in Accounts
    BY <2>1 DEF Inv, TypeOK
  <2>3. \A c \in calls' : c \in calls
    BY <2>1
  <2> QED
    BY <2>1, <2>2, <2>3, StoredIs, TabsStay, MemoryStep
<1> QED
  BY <1>1, <1>2, <1>3, <1>4, <1>5 DEF Next

\* At the start copies are of workspaces the server has, and hold no work.
LEMMA InitHolds ==
  ASSUME Init
  PROVE  Inv
<1> DEFINE rows == {w \in Workspace : \E a \in Account : role[a][w] = "owner"}
           acc(w) == ServerAccess(session, 0, 0, "active", role[session][w])
           copy(w) == [state |-> {}, outbox |-> << >>, stamp |-> 0, access |-> acc(w),
                       summary |-> SummaryOf(acc(w))]
           held == [w \in scope.held |-> copy(w)]
           opened == CHOOSE x \in scope.held : TRUE
           open == IF scope.held = {} THEN << >> ELSE Only(opened, held[opened])
<1>1. /\ scope \in Scopes /\ session = scope.session /\ role = scope.members
      /\ mrev = [a \in Account |-> 0]
      /\ arev = [w \in rows |-> 0] /\ log = [w \in rows |-> {}] /\ gone = {}
      /\ db = [copies |-> held, catalogs |-> << >>, account |-> session, clock |-> 1,
               open |-> open]
      /\ tabs = [t \in Tab |-> [NewTab(t) EXCEPT !.status = "available"]]
      /\ calls = {} /\ author = << >> /\ loose = {} /\ given = {}
  BY DEF Init
<1>2. /\ session \in Account /\ role \in [Account -> [Workspace -> Roles]]
      /\ scope.held \subseteq Workspace
      /\ \A w \in scope.held : \E a \in Account : role[a][w] = "owner"
  BY <1>1, LocalAssumption DEF Scope
<1>3. scope.held \subseteq rows /\ rows \subseteq Workspace /\ DOMAIN log = rows
  BY <1>1, <1>2
<1>4. ASSUME NEW w \in scope.held
      PROVE  /\ copy(w) \in Copy /\ copy(w).stamp = 0 /\ copy(w).outbox = << >>
             /\ copy(w).access.kind = "server"
  <2>1. /\ role[session][w] \in Roles /\ 0 \in Nat
        /\ "active" \in {"active", "left", "revoked", "deleted", "unknown"}
    BY <1>2
  <2>2. acc(w) \in Access /\ acc(w).kind = "server"
    BY <1>2, <2>1, ServerAccessIs
  <2> HIDE DEF acc
  <2>3. SummaryOf(acc(w)) \in Seq(Access)
    BY <2>2, SummaryIs
  <2>4. << >> \in Seq(Entry)
    OBVIOUS
  <2> QED
    BY <2>1, <2>2, <2>3, <2>4 DEF Copy
<1> HIDE DEF rows, copy, acc
<1>5. held \in Partial(Workspace, Copy) /\ DOMAIN held = scope.held
      /\ \A w \in scope.held : held[w] = copy(w)
  <2>1. DOMAIN held = scope.held /\ \A w \in scope.held : held[w] = copy(w)
    OBVIOUS
  <2>2. held \in [DOMAIN held -> Copy]
    BY <1>4
  <2> HIDE DEF held
  <2> QED
    BY <1>2, <2>1, <2>2, PartialIs
<1> HIDE DEF held
<1>6. open \in Partial(Workspace, Copy) /\ \A w \in DOMAIN open : w \in scope.held /\ open[w] = held[w]
  <2>1. CASE scope.held = {}
    BY <2>1, NothingIn
  <2>2. CASE scope.held # {}
    <3>1. opened \in scope.held
      BY <2>2
    <3> HIDE DEF opened
    <3>2. opened \in Workspace /\ held[opened] \in Copy
      BY <1>2, <1>4, <1>5, <3>1
    <3>3. open = Only(opened, held[opened])
      BY <2>2
    <3> HIDE DEF open
    <3>4. /\ Only(opened, held[opened]) \in Partial(Workspace, Copy)
          /\ DOMAIN Only(opened, held[opened]) = {opened}
          /\ Only(opened, held[opened])[opened] = held[opened]
      BY <3>2, OnlyIn
    <3> QED
      BY <3>1, <3>3, <3>4
  <2> QED
    BY <2>1, <2>2
<1> HIDE DEF open
<1>7. db.copies = held /\ db.open = open /\ db.clock = 1 /\ db.account = session
  BY <1>1
<1>8. db \in Db
  <2>1. << >> \in Partial(Accounts, Listing)
    BY NothingIn
  <2> QED
    BY <1>1, <1>2, <1>5, <1>6, <2>1 DEF Db, Accounts
<1>9. \A t \in Tab : tabs[t] \in TabState /\ TabHolds(tabs[t], DOMAIN log)
  <2> TAKE t \in Tab
  <2>1. /\ << >> \in Partial(Workspace, Access) /\ << >> \in Rows /\ << >> \in Seq(Board)
        /\ DOMAIN << >> = {}
    BY NothingIn DEF Rows
  <2>2. tabs[t] = [who |-> session, status |-> "available", shown |-> open,
                   ended |-> << >>, read |-> << >>, panel |-> << >>]
    <3>1. NewTab(t) = [who |-> session, status |-> "checking", shown |-> open,
                       ended |-> << >>, read |-> << >>, panel |-> << >>]
      BY <1>7 DEF NewTab
    <3>2. tabs[t] = [NewTab(t) EXCEPT !.status = "available"]
      BY <1>1
    <3> QED
      BY <3>1, <3>2
  <2>3. tabs[t] \in TabState
    BY <1>2, <1>6, <2>1, <2>2 DEF TabState, Accounts
  <2>4. TabHolds(tabs[t], DOMAIN log)
    BY <2>1, <2>2 DEF TabHolds
  <2> QED
    BY <2>3, <2>4
<1>10. TypeOK
  <2>1. log \in Partial(Workspace, SUBSET [id : Edit, by : Account])
    <3>1. log \in [DOMAIN log -> SUBSET [id : Edit, by : Account]]
      BY <1>1, <1>3
    <3> QED
      BY <1>3, <3>1, PartialIs
  <2>2. arev \in [DOMAIN log -> Nat] /\ mrev \in [Account -> Nat] /\ gone \subseteq DOMAIN log
    BY <1>1, <1>3
  <2>3. author \in Partial(Edit, Accounts)
    BY <1>1, NothingIn
  <2>4. tabs \in [Tab -> TabState]
    BY <1>1, <1>9
  <2>5. session \in Accounts /\ loose \subseteq Edit /\ given \subseteq Edit
    BY <1>1, <1>2 DEF Accounts
  <2> QED
    BY <1>1, <1>2, <1>8, <2>1, <2>2, <2>3, <2>4, <2>5 DEF TypeOK
<1>11. CopiesAgree
  BY <1>5, <1>6, <1>7 DEF CopiesAgree, Stored
<1>12. Copies
  <2>1. ASSUME NEW w \in DOMAIN db.copies
        PROVE  CopyHolds(w, db.copies[w], DOMAIN log, loose, author)
    <3>1. /\ w \in DOMAIN log /\ db.copies[w].outbox = << >>
          /\ db.copies[w].access.kind = "server"
      BY <1>3, <1>4, <1>5, <1>7
    <3>2. DOMAIN << >> = {}
      BY NothingIn
    <3>3. IdsOf(db.copies[w].outbox) = {}
      BY <3>1, <3>2 DEF IdsOf
    <3> QED
      BY <3>1, <3>2, <3>3 DEF CopyHolds
  <2> QED
    BY <2>1 DEF Copies
<1>13. Requests /\ Told /\ Authors
  BY <1>1, <1>9 DEF Requests, Told, Authors
<1>14. Dates
  BY <1>1, <1>4, <1>5, <1>7 DEF Dates
<1>15. Kept
  BY <1>1, NothingIn DEF Kept
<1> QED
  BY <1>10, <1>11, <1>12, <1>13, <1>14, <1>15 DEF Inv

\* Every state of a browser and its server satisfies the invariant.
THEOREM LocalInvariant == Spec => []Inv
<1>1. Init => Inv
  BY InitHolds
<1>2. Inv /\ [Next]_vars => Inv'
  BY NextKeeps
<1> QED
  BY <1>1, <1>2, PTL DEF Spec

\* The active copy of the open workspace is the one under the workspace's key,
\* through every transaction of local-replica.ts.
THEOREM OpenCopyAgrees == Spec => []CopiesAgree
<1>1. Inv => CopiesAgree
  BY DEF Inv
<1> QED
  BY <1>1, LocalInvariant, PTL

\* A copy with work is shown to have some, whoever is signed in.
LEMMA WorkShows ==
  ASSUME Inv, NEW w \in DOMAIN db.copies, db.copies[w].outbox # << >>, NEW who
  PROVE  Card(db, w, who).state \in {"pending-upload", "blocked", "unavailable"}
<1> DEFINE outbox == db.copies[w].outbox
           said == ServerSaid(db, w, who)
           acc == CardAccess(db, w, who, said)
           shown == IF w \in Listed(db) /\ acc.status # "active" THEN << >> ELSE said
<1>1. /\ db \in Db /\ Agrees(db) /\ db.copies[w] \in Copy
  BY StoredIs
<1>2. w \in Listed(db) /\ Found(db, w).outbox = outbox
  BY <1>1, FoundIs DEF Listed
<1>3. outbox \in Seq(Entry) /\ \A i \in DOMAIN outbox : outbox[i].status \in {"pending", "blocked"}
  <2>1. outbox \in Seq(Entry)
    BY <1>1 DEF Copy
  <2>2. \A i \in DOMAIN outbox : outbox[i] \in Entry
    BY <2>1
  <2> QED
    BY <2>1, <2>2 DEF Entry
<1> HIDE DEF outbox
<1>4. ASSUME \A i \in DOMAIN outbox : outbox[i].status # "blocked"
      PROVE  Pending(outbox) # << >>
  <2> DEFINE K == {i \in DOMAIN outbox : outbox[i].status = "pending"}
             p == Picked(outbox, K)
  <2>1. 1 \in DOMAIN outbox
    BY <1>3 DEF outbox
  <2>2. 1 \in K /\ K \in SUBSET DOMAIN outbox
    BY <1>3, <1>4, <2>1
  <2>3. Pending(outbox) = p
    BY DEF Pending
  <2> HIDE DEF K
  <2>4. \E i \in DOMAIN p : p[i] = outbox[1]
    BY <1>3, <2>2, PickedIs
  <2> HIDE DEF p
  <2> QED
    BY <2>3, <2>4, NothingIn
<1> HIDE DEF acc, said
<1>5. Card(db, w, who).state = CardState(db, w, acc, shown)
  BY DEF Card, acc, said
<1> HIDE DEF shown
<1>6. CASE acc.status # "active"
  BY <1>5, <1>6 DEF CardState
<1>7. CASE acc.status = "active" /\ \E i \in DOMAIN outbox : outbox[i].status = "blocked"
  BY <1>2, <1>5, <1>7 DEF CardState
<1>8. CASE acc.status = "active" /\ \A i \in DOMAIN outbox : outbox[i].status # "blocked"
  <2>1. Pending(outbox) # << >>
    BY <1>4, <1>8
  <2> QED
    BY <1>2, <1>5, <1>8, <2>1 DEF CardState
<1> QED
  BY <1>6, <1>7, <1>8

\* An edit that was stored stays queued on the device or is on the server until the
\* user, having seen it, removes or replaces the copy (removeWorkspace, replace);
\* and a queued edit shows in every account's list of workspaces.
THEOREM StoredWorkIsKept == Spec => []WorkIsKept
<1>1. Inv => WorkIsKept
  <2> SUFFICES ASSUME Inv
               PROVE  WorkIsKept
    OBVIOUS
  <2>1. DOMAIN author \subseteq Queued \cup Uploaded \cup given
    BY DEF Inv, Kept
  <2>2. \A t \in Tab, w \in DOMAIN db.copies :
          db.copies[w].outbox # << >> =>
            Card(db, w, tabs[t].who).state \in {"pending-upload", "blocked", "unavailable"}
    BY WorkShows
  <2> QED
    BY <2>1, <2>2 DEF WorkIsKept
<1> QED
  BY <1>1, LocalInvariant, PTL

\* No request of flushWorkspace uploads the work of another account, but for a
\* first backup of a device-only workspace.
THEOREM UploadsKeepAuthors == Spec => []WorkKeepsItsAuthor
<1>1. Inv => WorkKeepsItsAuthor
  BY DEF Inv, Authors, WorkOf, WorkKeepsItsAuthor
<1> QED
  BY <1>1, LocalInvariant, PTL
=============================================================================
