---------------------------- MODULE BrowserStore ----------------------------
(***************************************************************************)
(* src/client/local-replica.ts: one browser's IndexedDB.  It holds a copy  *)
(* of each workspace under its own key, the open one once more under the   *)
(* active key, the workspace list of each account that signed in, and the  *)
(* account whose list is shown.  Every operator is one read-write          *)
(* transaction: from the database to the database.  Also the decisions     *)
(* those transactions take (src/domain/workspace-access.ts), for every     *)
(* account that uses the browser.                                          *)
(*                                                                         *)
(* The inventory is the set of edits it shows: the edits here never        *)
(* conflict (DeviceSync models those that do).                             *)
(***************************************************************************)
EXTENDS Picking, SequencesExt

CONSTANTS
  Account,
  Workspace,
  Edit,
  Nobody,      \* no account
  BatchLimit   \* API_QUOTAS.commandsPerSyncRequest

Writers == {"owner", "editor"}

Only(k, v)    == [x \in {k} |-> v]
Put(f, k, v)  == [x \in DOMAIN f \cup {k} |-> IF x = k THEN v ELSE f[x]]
Over(f, g)    == [x \in DOMAIN f \cup DOMAIN g |-> IF x \in DOMAIN f THEN f[x] ELSE g[x]]
Without(f, k) == [x \in DOMAIN f \ {k} |-> f[x]]

-----------------------------------------------------------------------------
(* The access a copy remembers. *)

\* deviceOnlyWorkspaceAccess
DeviceOnly ==
  [kind |-> "device", account |-> Nobody, m |-> 0, a |-> 0,
   status |-> "active", role |-> "owner", write |-> TRUE]

ServerAccess(account, m, a, status, role) ==
  [kind |-> "server", account |-> account, m |-> m, a |-> a,
   status |-> status, role |-> role,
   write |-> status = "active" /\ role \in Writers]

\* normalizeCapabilities, for the one capability that is asked about here.
Writable(acc) == acc.status = "active" /\ acc.role \in Writers /\ acc.write

NoRights(acc, who) ==
  [acc EXCEPT !.account = who, !.status = "unknown", !.role = "none", !.write = FALSE]

\* workspaceAccessForAccount: what another account knew says nothing.
ForAccount(acc, who) ==
  IF acc.kind = "device" \/ who = Nobody \/ acc.account = who THEN acc
  ELSE NoRights(acc, who)

\* hasForeignPendingWork
ForeignWork(outbox, who) ==
  /\ who # Nobody
  /\ \E i \in DOMAIN outbox : /\ outbox[i].status = "pending"
                              /\ outbox[i].account \notin {Nobody, who}

\* visibleWorkspaceAccess: what the user may do with a copy, given what the tab
\* has been told of its deletion (a sequence of one access, or empty).
Visible(copy, who, terminal) ==
  LET acc == ForAccount(IF terminal = << >> THEN copy.access ELSE terminal[1], who) IN
  IF acc.kind = "server" /\ ForeignWork(copy.outbox, who)
  THEN NoRights(acc, who)
  ELSE acc

Rank(r) == CASE r = "owner" -> 3 [] r = "editor" -> 2
             [] r = "viewer" -> 1 [] OTHER -> 0

\* Mutation of ShouldApply: the answer that arrives last wins.
ApplyLast(current, candidate) == candidate.kind = "device" => current.kind = "device"

\* shouldApplyWorkspaceAccess.
ShouldApply(current, candidate) ==
  CASE candidate.kind = "device" -> current.kind = "device"
    [] candidate.kind = "server" /\ current.kind = "device" -> TRUE
    [] OTHER ->
       IF candidate.account # current.account THEN TRUE
       ELSE IF candidate.m # current.m THEN candidate.m > current.m
       ELSE IF candidate.a # current.a THEN candidate.a > current.a
       ELSE IF candidate.status # current.status THEN current.status = "active"
       ELSE IF candidate.role # current.role
            THEN \/ candidate.role = "none"
                 \/ current.role # "none" /\ Rank(candidate.role) < Rank(current.role)
       ELSE Writable(candidate) => Writable(current)

\* compareServerWorkspaceSummaries
Older(x, y) == x.m < y.m \/ (x.m = y.m /\ x.a < y.a)

\* What an answer says of the workspace itself, when it is accessible.
SummaryOf(acc) ==
  IF acc.kind = "server" /\ acc.status = "active"
  THEN <<ServerAccess(acc.account, acc.m, acc.a, "active", acc.role)>> ELSE << >>

\* resolveReplicaServerSummary
LaterSummary(known, told) ==
  IF \/ told = << >>
     \/ known # << >> /\ known[1].account = told[1].account /\ Older(told[1], known[1])
  THEN known ELSE told

-----------------------------------------------------------------------------
(* The outbox. *)

Block(entry) == [entry EXCEPT !.status = "blocked"]

\* Mutation of ScopeOutbox: unattributed work goes to the account that now reads.
ScopeToReader(outbox, current, candidate) ==
  [i \in DOMAIN outbox |->
     IF outbox[i].account = Nobody /\ candidate.kind = "server"
     THEN [outbox[i] EXCEPT !.account = candidate.account] ELSE outbox[i]]

\* scopeOutboxForWorkspaceAccess: work made before the server knew the
\* workspace goes to the account that backs it up, unattributed work to the
\* account whose copy it was; a deleted workspace takes no more work.
ScopeOutbox(outbox, current, candidate) ==
  LET owner == IF current.kind = "device" THEN candidate.account ELSE current.account
      Claims == /\ candidate.kind = "server"
                /\ current.kind = "device" \/ current.account # candidate.account
      Claim(e) == IF Claims /\ e.account = Nobody THEN [e EXCEPT !.account = owner] ELSE e
      Ends == candidate.kind = "server" /\ candidate.status = "deleted"
  IN [i \in DOMAIN outbox |-> IF Ends THEN Block(Claim(outbox[i])) ELSE Claim(outbox[i])]

IdsOf(entries) == {entries[i].id : i \in DOMAIN entries}
Pending(outbox) == Picked(outbox, {i \in DOMAIN outbox : outbox[i].status = "pending"})

\* selectPendingSyncBatch: the oldest pending entries of the account (of any
\* account, when who is Nobody) that share the first one's basis.
SelectBatch(outbox, who) ==
  LET p == Pending(outbox)
      Fits(n) == \A i \in 1..n : /\ p[i].basis = p[1].basis
                                 /\ who = Nobody \/ p[i].account = who
  IN SubSeq(p, 1, Max({k \in 0..Len(p) : k <= BatchLimit /\ Fits(k)}))

-----------------------------------------------------------------------------
(* Transactions on copies.  db.copies and db.open are functions on the      *)
(* workspaces that are stored under a key of their own, and under the       *)
(* active key (at most one).                                                *)

Has(db, w)   == w \in DOMAIN db.copies \cup DOMAIN db.open
Found(db, w) == Over(db.copies, db.open)[w]

\* readWorkspaceReplica does not fall back on the active copy.
Stored(db, w) == w \in DOMAIN db.copies

\* Mutation of Mutate: the open copy is written only under its own key.
MutateOwnKey(db, w, next) == [db EXCEPT !.copies = Put(@, w, next)]

\* mutateWorkspaceReplica
Mutate(db, w, next) ==
  [db EXCEPT !.copies = Put(@, w, next),
             !.open = IF w \in DOMAIN @ THEN Only(w, next) ELSE @]

\* activateWorkspaceReplica
Activate(db, w) == [db EXCEPT !.open = Only(w, db.copies[w])]

\* writeReplica: the copy opens, and the one that was open stays stored.
Install(db, w, copy) ==
  [db EXCEPT !.copies = Put(Over(db.open, @), w, copy), !.open = Only(w, copy)]

\* Newer access replaces what the copy remembers, and its work with it.
WithAccess(copy, candidate) ==
  [copy EXCEPT
     !.access = IF ShouldApply(@, candidate) THEN candidate ELSE @,
     !.outbox = ScopeOutbox(@, copy.access,
                  IF ShouldApply(copy.access, candidate) THEN candidate
                  ELSE copy.access),
     !.summary = LaterSummary(@, SummaryOf(candidate))]

\* activateOrInsertServerWorkspaceReplica: a copy that came to be stored while
\* this one was downloaded keeps its inventory and its work.
InstallDownload(db, w, download) ==
  Install(db, w,
    IF Has(db, w)
    THEN [Found(db, w) EXCEPT
            !.access = IF ShouldApply(@, download.access) THEN download.access ELSE @,
            !.outbox = ScopeOutbox(@, Found(db, w).access, download.access),
            !.summary = LaterSummary(@, download.summary)]
    ELSE download)

\* replaceReplicaIfUnchanged, when the open copy is still the expected one.
ReplaceOpen(db, old, w, copy) ==
  [db EXCEPT !.copies = Put(IF w = old THEN @ ELSE Without(@, old), w, copy),
             !.open = Only(w, copy)]

\* applyConfirmedServerDeletion
Deleted(copy, candidate) ==
  LET Higher(x, y) == IF x > y THEN x ELSE y
      known == copy.access
      again == /\ known.kind = "server" /\ known.status = "deleted"
               /\ known.account = candidate.account
      next  == IF again THEN [candidate EXCEPT !.m = Higher(@, known.m),
                                               !.a = Higher(@, known.a)]
               ELSE candidate
  IN [copy EXCEPT !.access = next, !.outbox = ScopeOutbox(@, known, next)]

-----------------------------------------------------------------------------
(* The workspace list of an account: what each listed workspace's row said, *)
(* the membership revision it was read at, and where to read on.            *)

NoCatalog == [entries |-> << >>, m |-> 0, complete |-> FALSE, next |-> << >>]
CatalogOf(db, a) == IF a \in DOMAIN db.catalogs THEN db.catalogs[a] ELSE NoCatalog

\* mergeServerWorkspaceCatalog, written if unchanged and merged again if not:
\* a page read at an earlier membership revision is ignored, an entry older than
\* the one known is not taken; a last page replaces the list.
MergePage(current, page, replace) ==
  LET known == current.entries
      Pick(w) == IF w \in DOMAIN known /\ Older(page.entries[w], known[w])
                 THEN known[w] ELSE page.entries[w]
      read == [w \in DOMAIN page.entries |-> Pick(w)]
  IN IF page.m < current.m THEN current
     ELSE [entries |-> IF replace THEN read ELSE Over(read, known),
           m |-> page.m, complete |-> page.next = << >>, next |-> page.next]

\* deleteWorkspaceReplica: the copy goes, and from the list of the account that
\* had lost it, which from now on takes no page read before that loss.
RemoveCopyOf(db, w) ==
  LET acc  == Found(db, w).access
      list == CatalogOf(db, acc.account)
      Prunes == acc.kind = "server" /\ acc.status # "active" /\ list.m <= acc.m
      pruned == [list EXCEPT !.entries = Without(@, w), !.m = acc.m]
  IN [db EXCEPT !.copies = Without(@, w), !.open = Without(@, w),
                !.catalogs = IF Has(db, w) /\ Prunes
                             THEN Put(@, acc.account, pruned) ELSE @]

-----------------------------------------------------------------------------
(* The workspaces the user is shown, src/client/workspace-hub-state.ts.     *)

\* listWorkspaceReplicas
Listed(db) == DOMAIN db.copies \cup DOMAIN db.open

\* mergeWorkspaceHub, what the server said: to the copy, unless that has lost the
\* workspace or heard it for another account, or in the account's list.
ServerSaid(db, w, who) ==
  LET copy == Found(db, w)
      rows == CatalogOf(db, who).entries
      own  == IF /\ w \in Listed(db)
                 /\ copy.access.kind = "server" => copy.access.status = "active"
                 /\ who = Nobody \/ copy.summary = << >> \/ copy.summary[1].account = who
              THEN copy.summary ELSE << >>
  IN LaterSummary(own, IF w \in DOMAIN rows
       THEN <<ServerAccess(who, rows[w].m, rows[w].a, "active", rows[w].role)>> ELSE << >>)

\* cardAccess
CardAccess(db, w, who, said) ==
  LET known == Found(db, w).access
      local == ForAccount(known, who)
      Newer == \/ w \notin Listed(db)
               \/ known.kind = "server" /\ known.account # said[1].account
               \/ ShouldApply(local, said[1])
  IN IF said # << >> /\ Newer THEN said[1] ELSE local

\* cardState.  "stored": both have it; how their revisions compare is left out.
CardState(db, w, acc, said) ==
  LET outbox  == IF w \in Listed(db) THEN Found(db, w).outbox ELSE << >>
      lost    == acc.status # "active"
      blocked == \E i \in DOMAIN outbox : outbox[i].status = "blocked"
      waiting == Pending(outbox) # << >>
  IN CASE lost -> "unavailable"
       [] ~lost /\ blocked -> "blocked"
       [] ~lost /\ ~blocked /\ waiting -> "pending-upload"
       [] OTHER -> IF w \notin Listed(db) THEN "server-only"
                   ELSE IF said = << >> THEN "device-only" ELSE "stored"

\* mergeWorkspaceHub, one card; one without a server's part when it is lost.
Card(db, w, who) ==
  LET said  == ServerSaid(db, w, who)
      acc   == CardAccess(db, w, who, said)
      shown == IF w \in Listed(db) /\ acc.status # "active" THEN << >> ELSE said
  IN [access |-> acc, state |-> CardState(db, w, acc, shown),
      presence |-> IF w \notin Listed(db) THEN "server-only"
                   ELSE IF shown = << >> THEN "local-only" ELSE "local-and-server"]
Cards(db, who) ==
  [w \in Listed(db) \cup DOMAIN CatalogOf(db, who).entries |-> Card(db, w, who)]
=============================================================================
