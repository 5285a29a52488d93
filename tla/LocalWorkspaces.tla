-------------------------- MODULE LocalWorkspaces --------------------------
(***************************************************************************)
(* src/client/store.tsx beyond the one workspace of DeviceSync: the tabs   *)
(* of one browser, the accounts that sign in and out of it, the workspaces *)
(* it keeps copies of, and the lists of workspaces the server answers.     *)
(* Tabs share the database (BrowserStore) and the session cookie; what a   *)
(* tab holds in memory (its account, the copy it shows, what it was told   *)
(* of a deletion) follows later.  Requests are served and delivered in any *)
(* order, or lost.                                                         *)
(*                                                                         *)
(* A request is served at one instant and nothing here conflicts: what     *)
(* happens between a request's reads is DeviceSync's and SyncServer's.     *)
(***************************************************************************)
EXTENDS AccessPanel

CONSTANTS
  Tab,
  Order,          \* the workspaces in the order of their ids
  PageSize,       \* boundedPageLimit
  Scopes          \* bound: where a behaviour starts and what may happen in it

Roles == {"owner", "editor", "viewer", "none"}

\* A start: who is signed in, the members of the workspaces the server has, and
\* the workspaces with a copy.  may: the kinds of steps.  tabs: those in use.
\* Bounds: changes of an account's memberships, dated changes of copies, and what
\* tabs wait for at once.
Scope == [session : Account, members : [Account -> [Workspace -> Roles]],
          held : SUBSET Workspace, tabs : SUBSET Tab, edits : SUBSET Edit,
          changes : Nat, stamps : Nat, calls : Nat,
          may : SUBSET {"switch", "sync", "list", "open", "initialize", "replace",
                        "remove", "access", "leave", "delete", "transfer", "roles", "fail"}]

ASSUME LocalAssumption ==
  /\ Order \in Seq(Workspace) /\ ToSet(Order) = Workspace
  /\ Len(Order) = Cardinality(Workspace) /\ IsFiniteSet(Account)
  /\ PageSize \in Nat \ {0} /\ BatchLimit \in Nat \ {0}
  /\ Scopes \subseteq Scope /\ Nobody \notin Account
  /\ \A s \in Scopes : \A w \in s.held : \E a \in Account : s.members[a][w] = "owner"

VARIABLES
  session,  \* the account of the browser's cookie
  role,     \* workspace_members.role, "none" without a row
  mrev,     \* users.membership_revision
  arev,     \* workspace_snapshots.access_revision
  log,      \* the edits of each workspace that had a row, and who uploaded them
  gone,     \* workspaces with a tombstone
  db,       \* IndexedDB
  tabs,     \* what each tab holds in memory
  calls,    \* what the tabs wait for: requests, and reviews of a removal
  author,   \* whose work an edit is: who was signed in when it was stored, or
            \* whose copy it was stored in (history variable)
  loose,    \* edits stored in a device-only copy (history variable)
  given,    \* edits the user gave up (history variable)
  scope     \* see Scopes

server  == <<role, mrev, arev, log, gone>>
history == <<author, loose, given>>
vars    == <<session, server, db, tabs, calls, history, scope>>

May(step) == step \in scope.may

-----------------------------------------------------------------------------
(* The server. *)

Exists(w)     == w \in DOMAIN log \ gone
CanRead(a, w) == Exists(w) /\ role[a][w] # "none"
EditsOf(w)    == {x.id : x \in log[w]}

Granted(a, w) == ServerAccess(a, mrev[a], arev[w], "active", role[a][w])

\* refusedAccess, and what a 404 leaves of the access known before.
Refused(a, w) ==
  [ServerAccess(a, mrev[a], IF Exists(w) THEN arev[w] ELSE 0,
     CASE w \in gone -> "deleted"
       [] CanRead(a, w) -> "active"
       [] OTHER -> "revoked", role[a][w])
   EXCEPT !.write = FALSE]
Unknown(a, known) == NoRights(known, a)

\* An entry without a basis was made before the workspace was backed up.
BasisHolds(basis, a, w) == basis # << >> => basis[1].m = mrev[a] \/ basis[1].a = arev[w]

\* Only members' counters move with a change of one workspace's members.
Change(a, w, to) ==
  /\ mrev[a] < scope.changes
  /\ role' = [role EXCEPT ![a][w] = to]
  /\ mrev' = [mrev EXCEPT ![a] = @ + 1]

OwnedWithout(a, w) == \E b \in Account \ {a} : role[b][w] = "owner"

\* Somebody changes a role from another browser.
ChangeRole(a, w, to) ==
  /\ May("roles") /\ Exists(w) /\ role[a][w] # to
  /\ role[a][w] = "owner" => OwnedWithout(a, w)
  /\ Change(a, w, to)
  /\ arev' = [arev EXCEPT ![w] = @ + 1]
  /\ UNCHANGED <<session, log, gone, db, tabs, calls, history, scope>>

-----------------------------------------------------------------------------
(* Tabs. *)

NewTab(t) ==
  [who |-> db.account, status |-> "checking", shown |-> db.open,
   ended |-> << >>, read |-> << >>, panel |-> << >>]

Show(tab, w, copy) == [tab EXCEPT !.shown = Only(w, copy), !.panel = << >>]
ShowIf(tab, w, copy) == [tab EXCEPT !.shown = IF w \in DOMAIN @ THEN Only(w, copy) ELSE @]
EndedIn(t, w) == IF w \in DOMAIN tabs[t].ended THEN <<tabs[t].ended[w]>> ELSE << >>
VisibleIn(t, copy, w) == Visible(copy, tabs[t].who, EndedIn(t, w))

\* mutationQueue: a download runs alone among the changes a tab makes.
Free(t) == ~\E c \in calls : c.tab = t /\ c.kind = "open"

\* A request is made for the account the tab holds, with whatever cookie the
\* browser holds.  asked: what else it says.
Request(t, kind, w, asked) ==
  [kind |-> kind, tab |-> t, w |-> w, account |-> tabs[t].who, cookie |-> session,
   asked |-> asked, result |-> "none", answer |-> << >>]

Ask(c) ==
  /\ Cardinality(calls) < scope.calls
  /\ calls' = calls \cup {c}
Done(c) == calls' = calls \ {c}

\* The user signs in as somebody else, or out, in some tab.
SwitchAccount ==
  /\ May("switch")
  /\ session' \in (Account \cup {Nobody}) \ {session}
  /\ UNCHANGED <<server, db, tabs, calls, history, scope>>

\* The tab asks who is signed in: on loading, on focus, after an answer for
\* somebody else; the panel of another account closes.  Without an answer it
\* goes on as it was.
CheckAuth(t) ==
  \/ /\ tabs' = [tabs EXCEPT ![t].who = session,
                   ![t].status = IF session = Nobody THEN "signedOut" ELSE "available",
                   ![t].panel = IF tabs[t].who = session THEN @ ELSE << >>]
     /\ db' = [db EXCEPT !.account = session]
     /\ UNCHANGED <<session, server, calls, history, scope>>
  \/ /\ May("fail") /\ tabs[t].status = "checking"
     /\ tabs' = [tabs EXCEPT ![t].status = "available"]
     /\ UNCHANGED <<session, server, db, calls, history, scope>>

\* The tab is loaded again, or crashed: nobody waits for its calls.
Reload(t) ==
  /\ May("fail")
  /\ tabs' = [tabs EXCEPT ![t] = NewTab(t)]
  /\ calls' = {c \in calls : c.tab # t}
  /\ UNCHANGED <<session, server, db, history, scope>>

\* A broadcast of another tab's change.
Follow(t) ==
  \E w \in DOMAIN tabs[t].shown :
    LET now == IF Stored(db, w) THEN Only(w, db.copies[w]) ELSE << >> IN
    /\ tabs[t].shown # now
    /\ tabs' = [tabs EXCEPT ![t].shown = now]
    /\ UNCHANGED <<session, server, db, calls, history, scope>>

-----------------------------------------------------------------------------
(* Changes of the copies. *)

NewCopy(state, acc) ==
  [state |-> state, outbox |-> << >>, access |-> acc, summary |-> SummaryOf(acc),
   stamp |-> db.clock]
Dated(d) == db.clock <= scope.stamps /\ db' = [d EXCEPT !.clock = @ + 1]

\* dispatch: allowed by what the tab shows, and again by what is stored.
Dispatch(t, e, w) ==
  LET shown == tabs[t].shown[w]
      copy  == Found(db, w)
      acc   == VisibleIn(t, shown, w)
      entry == [id |-> e, account |-> tabs[t].who, status |-> "pending",
                basis |-> IF acc.kind = "device" THEN << >>
                          ELSE <<[m |-> acc.m, a |-> acc.a]>>]
      next  == [copy EXCEPT !.state = @ \cup {e}, !.outbox = Append(@, entry),
                            !.stamp = db.clock]
  IN
  /\ Free(t) /\ e \notin DOMAIN author
  /\ w \in DOMAIN tabs[t].shown
  /\ Writable(acc)
  /\ Has(db, w) /\ Writable(VisibleIn(t, copy, w))
  /\ Dated(Mutate(db, w, next))
  /\ tabs' = [tabs EXCEPT ![t] = ShowIf(@, w, next)]
  /\ author' = Put(author, e, IF tabs[t].who = Nobody THEN copy.access.account ELSE tabs[t].who)
  /\ loose' = IF copy.access.kind = "device" THEN loose \cup {e} ELSE loose
  /\ UNCHANGED <<session, server, calls, given, scope>>

\* initialize: a new workspace of this device.
Initialize(t, w) ==
  LET copy == NewCopy({}, DeviceOnly) IN
  /\ May("initialize") /\ Free(t)
  /\ ~Has(db, w) /\ ~Exists(w) /\ w \notin gone
  /\ Dated(Install(db, w, copy))
  /\ tabs' = [tabs EXCEPT ![t] = Show(@, w, copy)]
  /\ UNCHANGED <<session, server, calls, history, scope>>

\* replace: a backup file or an empty workspace takes the open one's place, if
\* the open copy is still the one the user saw.
Replace(t, old, w) ==
  LET copy == tabs[t].shown[old]
      next == IF w = old THEN [copy EXCEPT !.state = {}, !.outbox = << >>, !.stamp = db.clock]
              ELSE NewCopy({}, DeviceOnly)
  IN
  /\ May("replace") /\ Free(t) /\ old \in DOMAIN tabs[t].shown
  /\ w = old \/ (~Has(db, w) /\ ~Exists(w) /\ w \notin gone)
  /\ Writable(VisibleIn(t, copy, old))
  /\ db.open = Only(old, copy)
  /\ Dated(ReplaceOpen(db, old, w, next))
  /\ tabs' = [tabs EXCEPT ![t] = Show(@, w, next)]
  /\ given' = given \cup IdsOf(copy.outbox)
  /\ UNCHANGED <<session, server, calls, author, loose, scope>>

\* The user reviews what removing a copy would lose.
ReviewRemoval(t, w) ==
  /\ May("remove") /\ Stored(db, w)
  /\ Card(db, w, tabs[t].who).presence # "server-only"
  /\ Ask(Request(t, "remove", w, [stamp |-> db.copies[w].stamp,
                                  loses |-> IdsOf(db.copies[w].outbox)]))
  /\ UNCHANGED <<session, server, db, tabs, history, scope>>

\* Mutation of AsReviewed: the time of the copy is not compared.
AnyCopy(c) == TRUE

\* expectedUpdatedAt of deleteWorkspaceReplica.
AsReviewed(c) == Has(db, c.w) => Found(db, c.w).stamp = c.asked.stamp

\* removeWorkspace, confirmed.
RemoveCopy(c) ==
  /\ c.kind = "remove" /\ Free(c.tab)
  /\ Done(c)
  /\ IF Has(db, c.w) /\ AsReviewed(c)
     THEN /\ db' = RemoveCopyOf(db, c.w)
          /\ tabs' = [tabs EXCEPT ![c.tab].shown = Without(@, c.w)]
          /\ given' = given \cup c.asked.loses
     ELSE UNCHANGED <<db, tabs, given>>
  /\ UNCHANGED <<session, server, author, loose, scope>>

-----------------------------------------------------------------------------
(* What tabs ask for. *)

Waits(t, kind, w) == \E c \in calls : c.tab = t /\ c.kind = kind /\ c.w = w

\* flushWorkspace, up to the request.
Flush(t, w) ==
  LET copy  == db.copies[w]
      acc   == copy.access
      batch == SelectBatch(copy.outbox, IF acc.kind = "server" THEN tabs[t].who ELSE Nobody)
  IN
  /\ May("sync") /\ tabs[t].status = "available" /\ tabs[t].who # Nobody
  /\ Stored(db, w) /\ ~Waits(t, "sync", w)
  /\ acc.kind = "server" => acc.account = tabs[t].who
  /\ batch = << >> => Pending(copy.outbox) = << >> /\ w \in DOMAIN tabs[t].shown
  /\ Ask(Request(t, "sync", w, [batch |-> batch, body |-> copy.state, known |-> acc]))
  /\ UNCHANGED <<session, server, db, tabs, history, scope>>

\* openWorkspace: a stored copy opens, any other is downloaded.
Open(t, w) ==
  /\ May("open") /\ Free(t)
  /\ IF Stored(db, w)
     THEN /\ db' = Activate(db, w)
          /\ tabs' = [tabs EXCEPT ![t] = Show(@, w, db.copies[w])]
          /\ UNCHANGED calls
     ELSE /\ tabs[t].who # Nobody /\ Ask(Request(t, "open", w, << >>))
          /\ UNCHANGED <<db, tabs>>
  /\ UNCHANGED <<session, server, history, scope>>

\* requestCatalogPage: from the start, or from where the shown list ends.  Only
\* the tab's last such request counts.
Other(t) == {c \in calls : ~(c.tab = t /\ c.kind = "list")}
List(t) ==
  /\ May("list") /\ tabs[t].status = "available" /\ tabs[t].who # Nobody
  /\ \E from \in {<< >>} \cup {CatalogOf(db, tabs[t].who).next} :
       calls' = Other(t) \cup {Request(t, "list", Order[1], [from |-> from])}
  /\ Cardinality(calls') <= scope.calls
  /\ UNCHANGED <<session, server, db, tabs, history, scope>>

\* The access panel of the workspace shown.
Panel(t, w) ==
  IF tabs[t].panel # << >> /\ tabs[t].panel[1].w = w THEN tabs[t].panel[1] ELSE NewPanel(w)
Mounted(t, w) == tabs[t].panel # << >> /\ tabs[t].panel[1].w = w
MountedFor(t, w, account) == Mounted(t, w) /\ tabs[t].who = account
Authorization(t, w) == VisibleIn(t, tabs[t].shown[w], w)

\* loadAccess, on opening the panel and again: only the last one counts.  closed:
\* asked for by a panel that had been closed.
NotLoading(t) == {c \in calls : ~(c.tab = t /\ c.kind = "access" /\ ~c.asked.closed)}
LoadAccess(t, w) ==
  /\ May("access") /\ tabs[t].who # Nobody /\ w \in DOMAIN tabs[t].shown
  /\ Authorization(t, w).kind = "server" /\ Authorization(t, w).status = "active"
  /\ calls' = NotLoading(t) \cup {Request(t, "access", w, [closed |-> FALSE])}
  /\ Cardinality(calls') <= scope.calls
  /\ tabs' = [tabs EXCEPT ![t].panel = <<Panel(t, w)>>]
  /\ UNCHANGED <<session, server, db, history, scope>>

\* perform, one change at a time, as the access it shows allows.
AskChange(t, w, kind) ==
  LET offered == Offered(Panel(t, w), Authorization(t, w), tabs[t].who) IN
  /\ May(kind) /\ tabs[t].who # Nobody
  /\ w \in DOMAIN tabs[t].shown /\ Mounted(t, w)
  /\ ~\E c \in calls : c.tab = t /\ c.kind \in {"leave", "delete", "transfer"}
  /\ Allows(offered, kind)
  /\ Ask(Request(t, kind, w, [data |-> Panel(t, w).data[1],
                              expect |-> [m |-> offered[1].m, a |-> offered[1].a]]))
  /\ UNCHANGED <<session, server, db, tabs, history, scope>>

-----------------------------------------------------------------------------
(* Serving. *)

Reply(c, result, a) ==
  calls' = (calls \ {c}) \cup {[c EXCEPT !.result = result, !.answer = a]}
Answer(c, a) == Reply(c, "ok", a)
Fail(c, why) == Reply(c, why, << >>)
NoChange == UNCHANGED <<role, mrev, arev, log, gone>>

\* requireExpectedAccount, and no session at all: 409 and 401.
ServeNobody(c) ==
  /\ c.cookie # c.account
  /\ Fail(c, IF c.cookie = Nobody THEN "signedOut" ELSE "mismatch")
  /\ NoChange

\* The session may have been revoked after the request left.
ServeRevoked(c) ==
  /\ c.cookie = c.account /\ session # c.account
  /\ Fail(c, "signedOut") /\ NoChange

\* synchronize, for a member: a batch asks for the right to write.
Admitted(c) ==
  /\ CanRead(c.account, c.w)
  /\ \A i \in DOMAIN c.asked.batch : /\ role[c.account][c.w] \in Writers
                               /\ BasisHolds(c.asked.batch[i].basis, c.account, c.w)
Uploads(ids, a) == {[id |-> e, by |-> a] : e \in ids}

\* A known workspace: the batch is stored.
ServeUpload(c) ==
  LET w == c.w IN
  /\ Admitted(c)
  /\ log' = [log EXCEPT ![w] = @ \cup Uploads(IdsOf(c.asked.batch) \ EditsOf(w), c.account)]
  /\ Answer(c, [accepted |-> TRUE, access |-> Granted(c.account, w),
                state |-> EditsOf(w) \cup IdsOf(c.asked.batch)])
  /\ UNCHANGED <<role, mrev, arev, gone>>

\* An unknown one is created from the request's snapshot, the account its owner.
ServeBackup(c) ==
  LET a == c.account
      w == c.w
  IN
  /\ ~Exists(w) /\ w \notin gone
  /\ Change(a, w, "owner")
  /\ arev' = Put(arev, w, 0)
  /\ log' = Put(log, w, Uploads(c.asked.body, a))
  /\ Answer(c, [accepted |-> TRUE, state |-> c.asked.body,
                access |-> ServerAccess(a, mrev[a] + 1, 0, "active", "owner")])
  /\ UNCHANGED gone

\* The batch is refused with what the rows say, or with nothing but that.
RefuseSync(c) ==
  /\ Exists(c.w) \/ c.w \in gone
  /\ ~Admitted(c)
  /\ \/ Answer(c, [accepted |-> FALSE, access |-> Refused(c.account, c.w)])
     \/ ~CanRead(c.account, c.w) /\ c.asked.known.kind = "server"
          /\ Answer(c, [accepted |-> FALSE, access |-> Unknown(c.account, c.asked.known)])
  /\ NoChange

ServeSync(c) == ServeUpload(c) \/ ServeBackup(c) \/ RefuseSync(c)

ServeOpen(c) ==
  /\ IF CanRead(c.account, c.w)
     THEN Answer(c, [state |-> EditsOf(c.w), access |-> Granted(c.account, c.w)])
     ELSE Fail(c, "refused")
  /\ NoChange

\* listMemberWorkspaces: a cursor of an earlier membership revision is refused.
ServeList(c) ==
  LET a    == c.account
      rows == Picked(Order, {j \in DOMAIN Order : CanRead(a, Order[j]) /\
                (c.asked.from = << >> \/ \E i \in 1..(j - 1) : Order[i] = c.asked.from[1].after)})
      page == SubSeq(rows, 1, IF Len(rows) < PageSize THEN Len(rows) ELSE PageSize)
      more == Len(rows) > PageSize
  IN
  /\ IF c.asked.from # << >> /\ c.asked.from[1].m # mrev[a] THEN Fail(c, "stale")
     ELSE Answer(c, [m |-> mrev[a],
            entries |-> [w \in ToSet(page) |-> [m |-> mrev[a], a |-> arev[w], role |-> role[a][w]]],
            next |-> IF more THEN <<[after |-> Last(page), m |-> mrev[a]]>> ELSE << >>])
  /\ NoChange

\* getWorkspaceAccess, and the changes asked for with the revisions the panel
\* showed.  An answer says the counters as they are after the change.
MembersOf(w) == {b \in Account : role[b][w] # "none"}
Expected(c) == c.asked.expect.m = mrev[c.account] /\ c.asked.expect.a = arev[c.w]
Owns(c) == CanRead(c.account, c.w) /\ Expected(c) /\ role[c.account][c.w] = "owner"

\* Not found, or asked for by revisions that are not the current ones.
ServeStale(c) ==
  /\ ~CanRead(c.account, c.w) \/ (c.kind # "access" /\ ~Expected(c))
  /\ Fail(c, "refused") /\ NoChange

ServeRead(c) ==
  /\ c.kind = "access" /\ CanRead(c.account, c.w)
  /\ Answer(c, [access |-> Granted(c.account, c.w)]) /\ NoChange

\* leaveWorkspace
ServeLeave(c) ==
  LET a == c.account
      w == c.w
  IN
  /\ c.kind = "leave" /\ CanRead(a, w) /\ Expected(c)
  /\ role[a][w] = "owner" => OwnedWithout(a, w)
  /\ Change(a, w, "none")
  /\ arev' = [arev EXCEPT ![w] = @ + 1]
  /\ Answer(c, [m |-> mrev[a] + 1, a |-> arev[w] + 1])
  /\ UNCHANGED <<log, gone>>

\* transferWorkspaceOwnership: the triggers count either member's change.
ServeTransfer(c) ==
  LET a == c.account
      w == c.w
  IN
  /\ c.kind = "transfer" /\ Owns(c)
  /\ \E b \in MembersOf(w) :
       /\ role[b][w] # "owner"
       /\ mrev[a] < scope.changes /\ mrev[b] < scope.changes
       /\ role' = [role EXCEPT ![a][w] = "editor", ![b][w] = "owner"]
       /\ mrev' = [mrev EXCEPT ![a] = @ + 1, ![b] = @ + 1]
  /\ arev' = [arev EXCEPT ![w] = @ + 2]
  /\ Answer(c, [m |-> mrev[a] + 1, a |-> arev[w] + 2])
  /\ UNCHANGED <<log, gone>>

\* deleteServerWorkspace: the final revision counts every member that went.
ServeDelete(c) ==
  LET w == c.w IN
  /\ c.kind = "delete" /\ Owns(c)
  /\ \A b \in Account : mrev[b] < scope.changes
  /\ mrev' = [b \in Account |-> IF b \in MembersOf(w) THEN mrev[b] + 1 ELSE mrev[b]]
  /\ role' = [b \in Account |-> [role[b] EXCEPT ![w] = "none"]]
  /\ gone' = gone \cup {w}
  /\ Answer(c, [a |-> arev[w] + Cardinality(MembersOf(w)) + 1])
  /\ UNCHANGED <<log, arev>>

ServeAccess(c) ==
  \/ ServeStale(c) \/ ServeRead(c) \/ ServeLeave(c) \/ ServeTransfer(c) \/ ServeDelete(c)

Serve(c) ==
  /\ c.kind \notin {"remove", "apply"} /\ c.result = "none"
  /\ \/ ServeNobody(c)
     \/ ServeRevoked(c)
     \/ /\ c.cookie = c.account
        /\ \/ c.kind = "sync" /\ ServeSync(c)
           \/ c.kind = "open" /\ ServeOpen(c)
           \/ c.kind = "list" /\ ServeList(c)
           \/ c.kind \in {"access", "leave", "delete", "transfer"} /\ ServeAccess(c)
  /\ UNCHANGED <<session, db, tabs, history, scope>>

-----------------------------------------------------------------------------
(* Delivering. *)

\* A refusal that is about the account: the tab signs out or asks who it is.
DeliverFailure(c) ==
  /\ c.kind \notin {"remove", "apply"}
  /\ c.result \in {"signedOut", "mismatch", "refused"}
  /\ tabs' = [tabs EXCEPT ![c.tab].status =
       CASE c.result = "signedOut" /\ c.kind \in {"sync", "list"} -> "signedOut"
         [] c.result = "mismatch" -> "checking"
         [] OTHER -> @]
  /\ Done(c)
  /\ UNCHANGED db

HasBlocked(outbox) == \E i \in DOMAIN outbox : outbox[i].status = "blocked"

\* reconcileReplica: an answer older than the copy, or to a batch that another
\* answer settled, changes nothing; blocked work keeps the copy as it is.
Reconcile(copy, batch, state) ==
  LET left == Picked(copy.outbox, {i \in DOMAIN copy.outbox :
                                     copy.outbox[i].id \notin IdsOf(batch)})
      Obsolete == \/ Cardinality(state) < Cardinality(copy.state) - Len(copy.outbox)
                  \/ batch # << >> /\ IdsOf(batch) \cap IdsOf(copy.outbox) = {}
  IN IF Obsolete THEN copy
     ELSE [copy EXCEPT !.outbox = left,
             !.state = IF HasBlocked(left) THEN @ ELSE state \cup IdsOf(left)]

\* applySuccessfulSyncResponse and applyRefusedSyncResponse, for the account
\* the tab still holds.
DeliverSync(c) ==
  LET copy == Found(db, c.w)
      settled == IF c.answer.accepted
                 THEN WithAccess(Reconcile(copy, c.asked.batch, c.answer.state), c.answer.access)
                 ELSE LET scoped == WithAccess(copy, c.answer.access) IN
                      [scoped EXCEPT !.outbox = [i \in DOMAIN @ |->
                         IF @[i].id \in IdsOf(c.asked.batch) THEN Block(@[i]) ELSE @[i]]]
      Told(tab) == [tab EXCEPT !.status = "available"]
  IN
  /\ c.kind = "sync" /\ c.result = "ok"
  /\ Done(c)
  /\ IF tabs[c.tab].who # c.account THEN UNCHANGED <<db, tabs>>
     ELSE IF Has(db, c.w)
     THEN /\ db' = Mutate(db, c.w, settled)
          /\ tabs' = [tabs EXCEPT ![c.tab] = Told(ShowIf(@, c.w, settled))]
     ELSE /\ tabs' = [tabs EXCEPT ![c.tab] = Told(@)]
          /\ UNCHANGED db

DeliverOpen(c) ==
  LET copy == NewCopy(c.answer.state, c.answer.access)
      next == InstallDownload(db, c.w, copy)
  IN
  /\ c.kind = "open" /\ c.result = "ok"
  /\ Done(c)
  /\ IF tabs[c.tab].who = c.account
     THEN /\ Dated(next)
          /\ tabs' = [tabs EXCEPT ![c.tab] = Show(@, c.w, next.copies[c.w])]
     ELSE UNCHANGED <<db, tabs>>

\* requestCatalogPage, the answer: the page is merged into the account's list
\* and then tells every copy about its access.  A stale cursor starts again.
DeliverList(c) ==
  LET t    == c.tab
      page == c.answer
      read == IF c.asked.from = << >> THEN page.entries ELSE Over(page.entries, tabs[t].read)
      told == IF page.next = << >> THEN read ELSE page.entries
      merged == MergePage(CatalogOf(db, c.account), [page EXCEPT !.entries = told],
                          page.next = << >>)
  IN
  /\ c.kind = "list" /\ c.result \in {"ok", "stale"}
  /\ IF tabs[t].who # c.account THEN Done(c) /\ UNCHANGED <<db, tabs>>
     ELSE IF c.result = "stale"
     THEN /\ calls' = (calls \ {c}) \cup {Request(t, "list", Order[1], [from |-> << >>])}
          /\ UNCHANGED <<db, tabs>>
     ELSE /\ tabs' = [tabs EXCEPT ![t].read = read]
          /\ db' = [db EXCEPT !.catalogs = Put(@, c.account, merged)]
          /\ calls' = (calls \ {c}) \cup
               {Request(t, "apply", Order[1],
                        [entries |-> told, complete |-> page.next = << >>, m |-> page.m,
                         left |-> Workspace])}

\* applyCatalogAuthorization, one copy: a listed workspace tells its access, one
\* that a complete list of later members omits is revoked.
ApplyListed(c) ==
  \E w \in IF c.kind = "apply" THEN c.asked.left ELSE {} :
    LET copy  == db.copies[w]
        known == copy.access
        same  == known.account = c.account
        told  == IF w \in DOMAIN c.asked.entries
                 THEN ServerAccess(c.account, c.asked.entries[w].m, c.asked.entries[w].a, "active",
                                   c.asked.entries[w].role)
                 ELSE ServerAccess(c.account, c.asked.m, IF same THEN known.a ELSE 0, "revoked", "none")
        News  == /\ Stored(db, w)
                 /\ \/ w \in DOMAIN c.asked.entries
                    \/ c.asked.complete /\ known.kind = "server" /\ ~(same /\ c.asked.m <= known.m)
                 /\ ShouldApply(known, told)
    IN
    /\ \/ db' = IF News THEN Mutate(db, w, WithAccess(copy, told)) ELSE db
       \/ May("fail") /\ UNCHANGED db  \* another tab wrote in between and wins
    /\ calls' = (calls \ {c}) \cup
         (IF c.asked.left = {w} THEN {} ELSE {[c EXCEPT !.asked.left = @ \ {w}]})
    /\ UNCHANGED tabs

\* setWorkspaceAccess.  A confirmed deletion is remembered by the tab whether or
\* not it can be stored, and nothing else is heard of that workspace.
Tell(t, w, acc, said, panel) ==
  LET end  == acc.status = "deleted"
      copy == db.copies[w]
      told == [(IF end THEN Deleted(copy, acc) ELSE WithAccess(copy, acc))
               EXCEPT !.summary = LaterSummary(@, SummaryOf(said))]
      Ended(tab) == [tab EXCEPT !.ended = Put(@, w, acc),
                                !.shown = [x \in DOMAIN @ |->
                                  IF x = w THEN Deleted(@[x], acc) ELSE @[x]]]
      With(tab, p) == [tab EXCEPT !.panel = IF MountedFor(t, w, acc.account) THEN <<p>> ELSE @]
      Stores == /\ Stored(db, w)
                /\ end \/ (w \notin DOMAIN tabs[t].ended /\ ShouldApply(copy.access, acc))
  IN
  \/ /\ db' = IF Stores THEN Mutate(db, w, told) ELSE db
     /\ tabs' = [tabs EXCEPT ![t] = With(
          IF end THEN Ended(@) ELSE IF Stores THEN ShowIf(@, w, told) ELSE @, panel)]
  \/ /\ end /\ May("fail")
     /\ tabs' = [tabs EXCEPT ![t] = With(Ended(@), [panel EXCEPT !.kept = <<acc, said>>])]
     /\ UNCHANGED db

\* loadAccess, the answer, unless the panel was closed or heard of the end.
DeliverAccess(c) ==
  LET t == c.tab
      w == c.w
      Wanted == /\ MountedFor(t, w, c.account)
                /\ w \in DOMAIN tabs[t].shown /\ Authorization(t, w).status = "active"
      loaded == IF c.asked.closed THEN Panel(t, w)
                ELSE [Panel(t, w) EXCEPT !.data = <<c.answer.access>>]
  IN
  /\ c.kind = "access" /\ c.result = "ok"
  /\ Free(t) /\ Done(c)
  /\ IF c.asked.closed \/ Wanted
     THEN Tell(t, w, c.answer.access, c.answer.access, loaded)
     ELSE UNCHANGED <<db, tabs>>

\* A change of the panel's own was answered.
Changed(c, kind) == c.kind = kind /\ c.result = "ok" /\ Free(c.tab)

\* deleteServerWorkspace and leaveWorkspace, the answer.
DeliverDelete(c) ==
  /\ Changed(c, "delete") /\ Done(c)
  /\ Tell(c.tab, c.w, ConfirmedDeletion(c), c.asked.data, [Panel(c.tab, c.w) EXCEPT !.ended = TRUE])
DeliverLeave(c) ==
  /\ Changed(c, "leave") /\ Done(c)
  /\ Tell(c.tab, c.w, ConfirmedLeave(c), c.asked.data, [Panel(c.tab, c.w) EXCEPT !.ended = TRUE])

\* reconcileAfterMutation: the panel loads again, for its account, even closed.
LoadsAgain(c) ==
  LET open == MountedFor(c.tab, c.w, c.account) IN
  calls' = ((IF open THEN NotLoading(c.tab) ELSE calls) \ {c}) \cup
             {[Request(c.tab, "access", c.w, [closed |-> ~open]) EXCEPT !.account = c.account]}

\* transferOwnership, the answer.
DeliverTransfer(c) ==
  LET acc == ConfirmedTransfer(c) IN
  /\ Changed(c, "transfer") /\ LoadsAgain(c)
  /\ Tell(c.tab, c.w, acc, c.asked.data, [Panel(c.tab, c.w) EXCEPT !.over = <<acc>>])

\* retryTerminalPersistence
KeepDeletion(t) ==
  LET panel == tabs[t].panel[1]
      w     == panel.w
  IN
  /\ tabs[t].panel # << >> /\ panel.kept # << >> /\ Free(t)
  /\ Tell(t, w, panel.kept[1], panel.kept[2], [panel EXCEPT !.kept = << >>])
  /\ UNCHANGED <<session, server, calls, history, scope>>

Deliver(c) ==
  /\ DeliverFailure(c) \/ DeliverSync(c) \/ DeliverOpen(c) \/ DeliverList(c)
     \/ ApplyListed(c) \/ DeliverAccess(c) \/ DeliverDelete(c)
     \/ DeliverLeave(c) \/ DeliverTransfer(c)
  /\ UNCHANGED <<session, server, history, scope>>

\* A request or its answer is lost, or the user does not confirm.
Lose(c) ==
  /\ May("fail") /\ Done(c)
  /\ UNCHANGED <<session, server, db, tabs, history, scope>>

-----------------------------------------------------------------------------
Init ==
  /\ scope \in Scopes
  /\ session = scope.session
  /\ role = scope.members
  /\ mrev = [a \in Account |-> 0]
  /\ LET rows == {w \in Workspace : \E a \in Account : role[a][w] = "owner"} IN
     /\ arev = [w \in rows |-> 0]
     /\ log = [w \in rows |-> {}]
  /\ gone = {}
  /\ LET held == [w \in scope.held |->
           LET acc == ServerAccess(session, 0, 0, "active", role[session][w]) IN
           [state |-> {}, outbox |-> << >>, stamp |-> 0, access |-> acc,
            summary |-> SummaryOf(acc)]]
     IN db = [copies |-> held, catalogs |-> << >>, account |-> session, clock |-> 1,
              open |-> IF scope.held = {} THEN << >>
                       ELSE LET w == CHOOSE x \in scope.held : TRUE IN Only(w, held[w])]
  /\ tabs = [t \in Tab |-> [NewTab(t) EXCEPT !.status = "available"]]
  /\ calls = {}
  /\ author = << >>
  /\ loose = {}
  /\ given = {}

TabStep(t) ==
  \/ CheckAuth(t) \/ Reload(t) \/ Follow(t) \/ List(t)
  \/ KeepDeletion(t)
  \/ \E w \in Workspace :
       \/ Flush(t, w) \/ Open(t, w) \/ Initialize(t, w) \/ ReviewRemoval(t, w)
       \/ \E e \in scope.edits : Dispatch(t, e, w)
       \/ LoadAccess(t, w)
       \/ \E kind \in {"leave", "delete", "transfer"} : AskChange(t, w, kind)
       \/ \E old \in Workspace : Replace(t, old, w)

Next ==
  \/ SwitchAccount
  \/ \E a \in Account, w \in Workspace, to \in Roles : ChangeRole(a, w, to)
  \/ \E t \in scope.tabs : TabStep(t)
  \/ \E c \in calls : Serve(c) \/ Deliver(c) \/ RemoveCopy(c) \/ Lose(c)

Spec == Init /\ [][Next]_vars

-----------------------------------------------------------------------------
(* Properties. *)

\* The copy that is open is the one stored under the workspace's own key, so a
\* step that reads either of them decides on the same inventory and work.
CopiesAgree ==
  \A w \in DOMAIN db.open : Stored(db, w) /\ db.open[w] = db.copies[w]

\* An edit that was stored stays queued on this device or is on the server,
\* until the user gives it up having seen it: whatever account is signed in,
\* whichever tab opens, downloads, removes or replaces which copy meanwhile.  And
\* while it is queued, every account's list of workspaces says so.
Queued == UNION {IdsOf(db.copies[w].outbox) : w \in DOMAIN db.copies}
Uploaded == UNION {EditsOf(w) : w \in DOMAIN log}
WorkIsKept ==
  /\ DOMAIN author \subseteq Queued \cup Uploaded \cup given
  /\ \A t \in Tab, w \in DOMAIN db.copies :
       db.copies[w].outbox # << >> =>
         Card(db, w, tabs[t].who).state \in {"pending-upload", "blocked", "unavailable"}

\* What was made while one account was signed in, or signed out in its copy, is
\* never uploaded by another account, but for a device-only workspace, which is
\* backed up as a whole.
WorkKeepsItsAuthor ==
  \A w \in DOMAIN log : \A x \in log[w] : author[x.id] = x.by \/ x.id \in loose

\* Nothing a copy is told of its access takes back something later: as long as it
\* is about one account, its counters never fall and what ended stays ended.  Nor
\* does the list of workspaces: one that the account has lost is not shown to it
\* as its own again, not even when the copy that knew of the loss is removed, but
\* by what the server said of a later time.
Forward(old, new) ==
  (old.kind = "server" /\ new.kind = "server" /\ old.account = new.account) =>
    /\ new.status = "deleted" \/ new.m >= old.m
    /\ (new.m = old.m /\ new.a = old.a /\ Writable(new)) => Writable(old)
Lost(acc) == acc.status \in {"left", "revoked", "deleted"}
Regained(old, new) ==
  /\ Lost(old) /\ new.status = "active"
  /\ old.account = new.account /\ ~Older(old, new)
AccessGoesForward ==
  [][/\ \A w \in DOMAIN db.copies \cap DOMAIN db'.copies :
          Forward(db.copies[w].access, db'.copies[w].access)
     /\ \A w \in DOMAIN db.copies :
          LET a == db.copies[w].access.account IN
          (Lost(db.copies[w].access) /\ w \in DOMAIN Cards(db', a)) =>
            ~Regained(Card(db, w, a).access, Card(db', w, a).access)]_db

=============================================================================
