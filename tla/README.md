# A formal model of Stowplan

Stowplan is a local-first home inventory. A browser edits an IndexedDB replica
at once, queues every edit as a command, and exchanges queued commands with a
server that keeps one snapshot per workspace. Workspaces are shared: owners,
editors and viewers work on the same snapshot from several devices, while roles,
guest links, account status and the workspace itself change under them. A relay
tells listening devices that something changed, and an installation can be put
behind Cloudflare Access.

This directory holds TLA+ modules that model the system, TLC configurations that
check them on small instances, and proofs checked by TLAPS that what the server
promises holds for every instance. Paths below are relative to the repository
root. `PROJECT.json` maps every definition to the lines it models and lists the
hazards with the properties that guard them.

## 1. The system

| Component | State | Modelled in | Extent |
|---|---|---|---|
| Command engine (`src/domain/commands.ts`) | a snapshot | `Inventory`, `WorkspaceHistory`, `WorkspaceCommands` | every command on spaces, items and plans; undo, redo |
| History retention (`history-retention.ts`) | activities, audit events, receipts | `HistoryRetention`, `WorkspaceCommands` | all |
| Planner, plan selection (`planner.ts`, `plan-selection.ts`) | none | `Inventory`, `WorkspaceHistory` | which moves are allowed; not which are best |
| CSV import, bulk edit (`csv-import.ts`) | a table under review | `CsvImport`, `WorkspaceHistory` | rows to commands; not parsing |
| Snapshot validation (`import.ts`), quotas | none | `Inventory`, `WorkspaceCommands` | the rules a snapshot obeys; one quota for all |
| Access order (`workspace-access.ts` of `src/domain`) | none | `AccessOrder`, `BrowserStore` | all |
| Local replica (`local-replica.ts`) | IndexedDB: copies, outboxes, access, lists | `DeviceSync`, `BrowserStore` | every transaction |
| Client store (`store.tsx`) | what tabs show, queues, flights | `DeviceSync`, `LiveUpdates`, `LocalWorkspaces` | exchange, accounts, lists, opening, making, removing |
| Sync reconciliation | none | `DeviceSync`, `AccessOrder` | both answers |
| Recovery, conflict review | the reviewed copy | `DeviceSync` | reset, reapply |
| Workspace hub, access panel | loaded access | `AccessPanel`, `LocalWorkspaces` | own access, mutations; not member lists |
| Live reconciliation (`live-reconciliation.ts`) | one connection | `LiveUpdates` | hints, reconnecting, stopping |
| Sync route and service (`app/api/sync/route.ts`, `sync-service.ts`) | a request | `SyncServer` | admission, retry loop, answer |
| Snapshot stores, backup restore (`d1-snapshot-store.ts`, `app/api/snapshot`) | one row | `SyncServer`, `ServerAccess` | every statement |
| Workspace initialization | the same | `Memberships`, `SyncServer` | batch, limits, restore |
| Members, guest links, deletion (`src/server/workspace-access.ts`) | members, links, revisions | `Memberships`, `AccessControl` | every mutation |
| Governance, administration (`account-governance.ts`, `admin*.ts`) | users, custody, allowances, circuits | `AccountGovernance`, `UsageLimits`, `AccessControl` | every mutation; no lists |
| Authentication, sessions (`auth.ts`, `account-sessions.ts`) | OAuth rows, identities, sessions | `SignInFlow`, `UsageLimits`, `AccessControl` | the three commits of a sign-in, budgets |
| Live relay and hub (`worker/live-relay.ts`, `live-notifications.ts`) | a room | `LiveRoom`, `LiveUpdates` | all but signatures |
| Cloudflare Access deployment (`scripts/cloudflare-access.mjs`) | an account, snapshot files | `AccessInventory`, `AccessDeployment` | plan, apply, rollback |
| Worker entry, HTTP helpers, rendering, demo, build | none | - | not modelled |

### How they interact

A tab makes a command from the state it renders (`dispatch`), applies it to the
stored replica in one IndexedDB transaction and appends it to the outbox.
`flushWorkspace` sends the oldest pending commands that share an authorization
basis. The route admits the request by the current access rows; `synchronize`
loads snapshot and authorization in one statement, applies the batch in memory,
and writes it with one conditional UPDATE (the compare-and-swap), again when the
condition failed although access is in order. The answer comes from another
read. The tab settles its outbox in one transaction: acknowledged commands
leave, refused ones are blocked for review, the rest is replayed on the server's
snapshot. After the commit a notification reads the members once more and goes
to the relay (or the hub of a single process), which tells listening devices;
they pull.

Access is decided by rows that owners, administrators and accounts change. Each
mutation reads, decides, and commits one batch whose statements repeat the
conditions, while triggers of the schema move revisions, charge budgets and
refuse what would leave nobody in charge. A device remembers what it was told of
its access, orders what it hears by two revisions, and stops sending when it was
revoked.

### Where it is hard, and what correct means

* **Server.** Requests interleave at every `await`. No committed update is lost
  or overwritten unseen, a retried command is not applied twice while the
  snapshot remembers it, authorization holds at the instant of the write, receipts
  are true of what was written, every request ends.
* **Device.** Answers arrive late, twice or never, to a replica another tab
  changed. No accepted edit vanishes without a user's decision; what waits is
  visible; an answer never takes away what was shown; an intent is applied once;
  a device that learnt of a deletion stays read-only; waiting work settles.
* **Copies and accounts.** Tabs share a database and a session cookie but learn
  of changes at different times. No stored edit is lost when copies are opened,
  replaced or removed, none is uploaded under another account, and what is known
  of access moves forward only.
* **Commands and history.** The inventory stays a forest without dangling
  references; active plans stay executable; undo and redo in any order, with
  pruned history, leave what history explains.
* **Accounts.** Handlers act on what they read before. A workspace keeps an
  active owner and the installation an administrator; a link admits one account;
  an unchanged revision means that nothing changed; stopped accounts hold
  nothing; nobody exceeds a budget though the ledger forgets.
* **Live updates.** Notifications overtake each other. A removed member is not
  readmitted; a committed edit comes to show.
* **Deployment.** A command may stop anywhere and others change the account. The
  files tell the truth, nothing unknown is overwritten, rollback restores, the
  gate never stands without its policy.

## 2. The modules

| Module | What it is |
|---|---|
| `WorkspaceCommands` | Snapshots, commands, receipts as the exchange sees them; shared by server and device |
| `EditLog` | Abstract specification: what the server promises about one workspace |
| `ServerAccess` | The access rows of one workspace and how they change |
| `SyncServer` | Sync and restore requests in flight, one SQL statement per step; implements `EditLog` |
| `AccessOrder` | Which remembered access is newer |
| `Picking` | Filtering a sequence by place, without recursion |
| `DeviceSync` | Devices, tabs, outboxes, flights, recovery and list of one workspace, with the server reduced to its two visible instants |
| `HistoryRetention` | Compaction of a history by count and by bytes |
| `Inventory` | Spaces, items, plans, patches; what each command asks for and makes |
| `CsvImport` | Which rows of a table become which commands |
| `WorkspaceHistory` | One workspace under sequences of commands, undo and redo |
| `AccountStore` | The account database: a record, and what each SQL statement with its triggers does to it |
| `UsageLimits` | Budgets, allowances, sessions and circuits, as refusals and as triggers |
| `Memberships`, `AccountGovernance`, `SignInFlow` | What each batch requires and leaves: members and links; accounts; sign-in |
| `AccessControl` | Handlers on one database, each deciding by what it read; the properties of accounts |
| `LiveRoom` | What a publish does to a room and to a hub |
| `LiveUpdates` | Edits, notifications, connections, hints and pulls |
| `BrowserStore` | Every transaction on one browser's copies, active copy and lists |
| `AccessPanel` | The panel's loaded access and what it shows |
| `LocalWorkspaces` | Tabs, accounts, copies and lists of one browser |
| `AccessInventory` | Cloudflare resources, and the plan made from one reading |
| `AccessDeployment` | Apply and rollback, request by request, with files |
| `MC...` | Instances for TLC, one per specification |
| `SyncServerProofs` | Proofs about `WorkspaceCommands` and `SyncServer` |
| `LiveProofs` | Proofs about `LiveUpdates` |
| `AccessControlProofs` | Proofs about `AccessControl`: its statements, the counting of ledger rows, the invariant, its operations, its steps |
| `DeploymentProofs` | Proofs about `AccessDeployment` |
| `LocalProofs` | Proofs about `LocalWorkspaces` |
| `PickingProofs` | Proofs about `Picking`, and induction up to a number, stated with sets |
| `DeviceProofs` | Proofs about `DeviceSync` |
| `HistoryProofs` | Proofs about `HistoryRetention` and `WorkspaceHistory` |

EXTENDS, from left to right:
`WorkspaceCommands` - `ServerAccess` - `SyncServer`; `ServerAccess` with
`AccessOrder` and `Picking` - `DeviceSync`; `Picking` - `HistoryRetention` -
`Inventory` - `CsvImport` - `WorkspaceHistory`; `AccountStore` - `UsageLimits` - (`Memberships`,
`AccountGovernance`, `SignInFlow`) - `AccessControl`; `LiveRoom` - `LiveUpdates`;
`Picking` - `BrowserStore` - `AccessPanel` - `LocalWorkspaces`; `AccessInventory` -
`AccessDeployment`. `SyncServer` instantiates `EditLog`.

### State and code

* A **snapshot** in `WorkspaceCommands` holds a value per `Field`, the revision
  (`workspace.revision`) and `ledger`, the ids `wasApplied` finds in activities,
  audit events and receipts, oldest first. `log` is a history variable: no action
  reads it. A **command** carries what it sets, what it expects
  (`expectations`), its base revision and its authorization basis.
* `SyncServer.req[r]` is one handler: phases are its `await`s. `Receive` to
  `Answer` are the route and `synchronize` in their order; `ReceiveRestore`,
  `LoadRestore`, `SwapRestore` are the PUT of a backup, `Export` the GET that made
  it; `Close` is the end of a request, a lost connection or a crash.
* `DeviceSync.rep[d]` is the IndexedDB replica, `view[t]` what a tab renders,
  `todo[t]` its mutation queue, `flight[t]` its one request per workspace,
  `orphans` requests whose tab stopped waiting, `review[t]` the recovery page.
  `Dispatch`/`Store` are the two halves of `dispatch`; `Flush`, `Serve`, `Respond`,
  `DeliverSuccess`, `DeliverRefusal`, `GiveUp` are `flushWorkspace`. `Serve` runs a
  batch at one instant: `DraftsFollowStore` (section 5) is what justifies that.
* `WorkspaceHistory` has `content` (the records), `history` and `revision` of a
  snapshot; each command is one action whose guard is what the code refuses
  otherwise. `trail` remembers earlier contents for the properties only.
* In `AccessControl`, `db` is the database, `seen` an earlier state of it, read by
  a slow handler less than an hour ago (`Fresh`), `done` counts batches. `Serve` is a handler
  committing one batch: its request was made from `db` or `seen`, `May...` is what
  the statements require of `db` and what the handler required of its reading,
  and the operator after it what they leave. Each OAuth commit is a batch. `Tick`
  is time, `Clean` the cleanup several handlers begin with.
* In `LiveUpdates`, `owed` are committed changes whose notification has not read
  the database yet, `notes` those that have and were not published, `room` is the
  Durable Object's state, `device[d]` a tab with its connection and its flush.
* In `LocalWorkspaces`, the variables are the browser's database, each tab's
  memory, requests under way and the server's members; a request is served at
  one instant, delivered later, in any order, or lost.
* In `AccessDeployment`, `remote` is the account, `seen` what reads of it show,
  `file`/`temp` are the snapshot and `.next` files, `partial` the snapshot files
  whose creation has not ended, `run` is the command with its program position
  between two `await`s. `writeNewPrivateJson` opens a new file at its final path
  (`OpenSnapshot`) and writes it afterwards (`WriteSnapshot`); a run that stops in
  between leaves a file that is empty or cut short. `replacePrivateJson` writes
  beside the file and renames (`BeginSave`, `EndSave`).

## 3. What TLC checks

| Run | Shows |
|---|---|
| `inventory` | `SoundInventory`: a forest without dangling references, unique codes, consistent counts. `PlanMatchesUntilStarted`: an active plan can be carried out until somebody starts it. `AppliedHistoryExplains`, `RecentEditsCanBeUndone`: what history says is applied is there, the newest edits can be undone. `CompactedAsNeeded`: compaction keeps the accepted change, reaches every limit as far as that allows (`AcceptedChangeKept`), and with the newest entry or receipt it took a limit would be broken (`LostOfNeed`) |
| `server_safety` | `StoreExplainedByLog`, `NoBlindOverwrite`, `AppliedOnce`, `ReceiptsAreTrue`; `KeepsPromise`: `SyncServer` implements `EditLog` |
| `server_answers` | `EveryRequestEnds` |
| `device_race` | two devices: `QueueIsVisible`, `PendingSettles`, `Converges` |
| `device_copies` | access changes under one tab, recovery beside another: `NothingDropped`, `IntentAppliedOnce`, `AnswersOnlyAdd`, `DeletionIsFinal` |
| `sync_livelock` | **violated**: `PendingSettles` with batches of one (section 6) |
| `stale_access_read_only` | **violated**: `WriteAccessReturns` (section 6) |
| `accounts` | `OwnerRemains`, `AdminRemains`, `RevisionsTell`, `InactiveHoldNothing`, `WorkspacesAccountedFor`, `MembersEnterByInvitation`, `IdentitiesFollowIntent`, `BudgetsHold`, `PausesHold`, `SessionsBounded`, `RetryAfterIsEnough` |
| `custody_race` | **violated**: `DeletedHoldNoCustody` (section 6) |
| `live` | `OnlyMembersListen`, `RoomIsTrue`, `EditsAppear` |
| `access_cutover` | `FilesAreTrue`: a whole snapshot file can be read and tells what its run did; one cut short is of a run that did nothing. `CutoverIsReady`, `RollbackRestores`, `OverwritesOnlyKnown` |
| `local_workspaces` | `CopiesAgree`, `WorkIsKept`, `WorkKeepsItsAuthor`, `AccessGoesForward` |

### Bounds and why they are enough

Several specifications take a set of **scopes** (or bounds): a start and the
part of the system that moves. A behaviour belongs to one scope, so unrelated
parts do not multiply, while the parts whose steps race are together in one.

* **Server.** Two request slots: a third request can only lose to a swap that
  one of two already makes it lose. Two attempts let a retry succeed and a retry
  run out. `MaxLog` (2, or 1 under fairness) stops new requests, never those in
  flight, so logs grow past the ledger and an id is forgotten and accepted again
  within the instance. `e3` puts a field back to blank, so that a forgotten
  command finds what it expects. One change of access falls between any two
  statements of a request. `MCSlots` permutes the slots, in the safety run only.
* **Devices.** The smallest races need two tabs or two devices and two or three
  edits of one field; one of them (`Guarded`) states its expectations;
  `MaxOrphans` bounds requests that outlive their tab, and `Flaky` says whose
  exchanges fail: those of the tab that has two edits, or of the one beside
  recovery. `device_race` has two devices; `device_copies` has a device whose
  access changes, one whose two tabs hear of such changes in any order (without
  edits: two tabs are what it takes for a late list to race a late refusal), and
  one with a second tab beside recovery, which makes one command out of what was
  reviewed.
* **Inventory.** Six spaces, four items, two plans, two kinds; any two commands
  from two layouts, three where structure, plans or moves of several items
  matter, four where quantities and orders are edited, undone and redone, six
  where one item is edited, undone and redone; three tables of two rows. Limits
  of 3 activities, 7 patches, 2 audit events, 2 receipts and 12 units of size
  make compaction drop what undo would need, and in six commands every step of
  it takes something: with a limit ignored or one lower, or a stage left out or
  taking too much, `CompactedAsNeeded` fails.
* **Accounts.** Five accounts, three workspaces, limits of 1 to 3, a day of 2
  ticks, a window of 4, an hour of 1; sixteen scopes of 2 to 6 batches whose
  starts are consistent databases. Two accounts suffice for the races between
  callers, a third is the member they argue about. Without symmetry: starts name
  accounts.
* **Live.** One device modelled in full and edits from elsewhere; four bounds
  give a change of access and an edit, or two changes, or two edits and a fault,
  or a change and a fault; two notifications under way can overtake each other.
* **Deployment.** One provider, policy and application, which is all
  `validateApplication` relates; three commands, one change by others, two
  verification reads; a resource that was rolled back may be made again.
* **Local workspaces.** Two accounts, two workspaces, two tabs, pages of one;
  seventeen scopes bound changes of membership, dated changes of copies and calls
  under way.

`CHECK_DEADLOCK FALSE` is set in every run because these bounds really do stop
the instance: when the edits, changes and commands are used up nothing is to do.

### Fairness and why the code justifies it

On the server, weak fairness of a handler's own steps: once started, the event
loop runs it to its answer. On a device, weak fairness of what a tab does by
itself (its mutation queue, broadcasts, starting an exchange: timers, lifecycle
events and hints keep calling `flushWorkspace`), and strong fairness of serving,
answering and delivering an exchange: the network may fail any number of times
but not for ever. In `LiveUpdates`, weak fairness of taking a hint that arrived,
of serving and answering a request, of settling it and of the notification that
`waitUntil` keeps alive; none of connecting. No fairness is assumed of users,
administrators, arrivals or failures. Fairness of refreshing the workspace list in
`DeviceSync` is generous: no passing property rests on it, it makes the
counterexample of `stale_access_read_only` stronger.

## 4. What is proved

Theorems hold for any number of requests, accounts, workspaces, links, sessions,
tabs, resources, fields and commands, and any limits. TLC checks each property they state on the
instances of section 3.

| Module | Theorem | States |
|---|---|---|
| `SyncServerProofs` | `TypeCorrect`, `Safety` | the type invariant; the inductive invariant `SafetyInv` |
| | `NoLostUpdate`, `NeverBlind`, `NeverTwice`, `DraftsFollow` | `StoreExplainedByLog`, `NoBlindOverwrite`, `AppliedOnce`, `DraftsFollowStore` |
| | `Implements` | `Spec => EditLog` (`KeepsPromise`) |
| | `ReceiptsStayTrue` | `ReceiptsAreTrue`, when no batch has a command twice |
| `LiveProofs` | `LiveTypes`, `RoomStaysTrue`, `ListenersAreMembers` | types, `RoomIsTrue`, `OnlyMembersListen` |
| `AccessControlProofs` | `AccessInvariant`, `AccessTypes` | the inductive invariant `Inv`; types |
| | `OwnersRemain`, `RevisionsAreEnough`, `StoppedAccountsHoldNothing`, `CustodyIsCharged`, `BudgetsAreKept`, `SessionsAreBounded`, `WaitingHelps` | `OwnerRemains`, `RevisionsTell`, `InactiveHoldNothing`, `WorkspacesAccountedFor`, `BudgetsHold`, `SessionsBounded`, `RetryAfterIsEnough` |
| | `AdministratorsRemain`, `MembersAreInvited`, `IdentitiesAreIntended`, `PausesAreHeld` | the action properties `AdminRemains`, `MembersEnterByInvitation`, `IdentitiesFollowIntent`, `PausesHold` |
| `DeploymentProofs` | `DeploymentInvariant`, `DeploymentTypes` | the inductive invariant `Inv`; types |
| | `FilesTell`, `CutoverIsGuarded`, `RollbackIsComplete` | `FilesAreTrue`, `CutoverIsReady`, `RollbackRestores` |
| | `OverwritesAreKnown` | the action property `OverwritesOnlyKnown` |
| `LocalProofs` | `LocalInvariant` | the inductive invariant `Inv`, types included |
| | `OpenCopyAgrees`, `StoredWorkIsKept`, `UploadsKeepAuthors` | `CopiesAgree`, `WorkIsKept`, `WorkKeepsItsAuthor` |
| `DeviceProofs` | `DeviceInvariant`, `DeviceTypes` | the inductive invariant `Inv`; types |
| | `NothingIsDropped`, `QueueStaysVisible`, `DeletionStaysFinal` | `NothingDropped`, `QueueIsVisible`, `DeletionIsFinal` |
| `HistoryProofs` | `HistoryHolds` | the inductive invariant `HistoryInvariant` |
| | `AcceptedChangesAreKept` | `AcceptedChangeKept`, the first half of `CompactedAsNeeded` |

### The sync server

The invariants about the store are not inductive by themselves: a swap stores
what a handler computed earlier. What saves them is `DraftsFollowStore`: a
handler's base is a past state of the store, so its log is a prefix of the stored
one; the revision counts log entries, so an equal revision means an equal log,
and then the draft, right when appended to the base, is right when appended to
the store (`WinningSwap`, `InstallIsDraft`). That is the argument for the
conditional UPDATE, and it fails without the comparison of revisions. `SafetyInv`
adds that the store is `Consistent` and that a deleted workspace has no members.
The first part of `SyncServerProofs` has the lemmas about one command: what it preserves of a
consistent snapshot, among them that after compaction the ledger still covers the
window, which is why a duplicate is recognized. For `Implements`, a winning swap
maps to one atomic commit by an account that may write at that instant, a winning
restore to one entry of an owner, a change of access to a change of access, all
else to stuttering.

`ReceiptsStayTrue` follows the receipts (`ReceiptInv`). While a batch is applied,
an "applied" receipt is true of the draft only, and a "duplicate" one of the store
already: a remembered id is the id of some entry, and one the batch added itself
has the id of an earlier command of that batch, hence another id. The swap makes
the draft the store and so the "applied" receipts true; when it loses,
`authorizationReceipts` drops exactly those. From then on the log only grows,
which no receipt minds, and the revision, its length, is at least the one of any
receipt. The hypothesis `DistinctIds` is needed (section 6) and holds of every
device: an outbox gets each id from `randomUUID` (`src/src/domain/factories.ts:38`).

### Live updates

No order of notifications is needed. What tells the current access revision
tells the current members (`NotesTell`, `RoomFollows`), and it is on its way until
the room has it (`OnItsWay`, `RoomIsTold`, `HubIsTold`). Older publishes are
refused by the room, and re-checked by a stream of the hub. So when nothing is
owed, nothing is on its way and nothing was lost, whoever listens is a member.

### Accounts

A handler's batch is guarded by what it read, by the rows as they are, and by
triggers. `Inv` says that every database is `Sound`, that it is `Later` than the
one slow handlers have read, and that time does not run backwards.

* `Sound(start, db, U, W)` has one part per property: owners, custody with its
  limits, what inactive accounts hold, the number of sessions, the ledger. A
  batch may break parts of it between two statements, so it leaves out a set `U` of
  accounts and a set `W` of workspaces that the batch is in the middle of
  changing; each statement keeps `Sound` with its exceptions, and each of the
  batches ends with none (one lemma per operation). Deleting an account is the
  longest: it revokes sessions and links, hands custody over workspace by
  workspace, leaves memberships and drops identities.
* `BudgetsHold` is not inductive by itself because the ledger forgets rows. The
  strengthening `Remembered` says which rows may be gone: none that a handler
  started less than `Grace` ago could still count. The
  counting: the rows within a window are at most the limit if the batch that added
  the newest one saw fewer, even when it committed out of order, and the wait told
  to a refused caller is long enough for each of the budgets.
* `Later(d, e)` says that each revision has grown, or what it guards is as it was.
  It is reflexive and transitive, each statement satisfies it, so an
  unchanged revision is proof against everything that committed in between.
* The action properties are stated of a step from `db` to `db'`
  (`Administered`, `Invited`, `Intended`, `Unpaused`). All batches but seven are
  `Modest`: they make nobody a member, add no account, workspace, link or
  identity, let no snapshot grow and use no link. This is transitive
  over statements. The seven that give something (initializing, taking a workspace over,
  creating and using a link, linking, enrolling, storing) are treated one by one
  with their guards.

### The Access deployment

None of the four properties is inductive: a request is computed from an old
reading, is recorded before and after it is made, and other people change the
account all the time. `Inv` relates the four places where a resource nobody else
changed (`touched`) is known, for any number of resources, keys, files and runs.

* `Fresh`: what nobody changed since the command began (`moved`) is as it was read,
  and reads show it, except the one resource whose request has not been seen to
  work yet (`InFlight`). This makes the lag of reads harmless.
* `Stored`: every whole file is readable and true of what was done under it, a file
  that is not whole is of a run that has done nothing, and the running command's
  memory is as true as its file; the two differ only while one is saved, never in
  what was there before (`SameBefore`). `FilesAreTrue` is its first half.
* `Story`: across all files, the last one under which a resource was changed is the
  only one that may still be applied; if it is, the resource is as desired and
  as that file says; if not, it is as each of these files found it. It
  survives because a file is opened only after those before it (`Newest`) and
  rolled back only when none after it is unfinished. With `Kept`, which says that
  what is about to be recorded is so, it gives `RollbackRestores` also when
  several snapshots of a resource are rolled back in turn.
* `Ready`: what is applied uses resources of the keys it needs, applied under
  the same file or an earlier one. A rollback cannot take those away first: under
  an earlier file it waits for the later one, and under the same file it comes to
  them after what needs them. `Ready` and `Story` give `CutoverIsReady`.
* `ApplyGoes`, `RollbackGoes`: the states of the records behind and ahead of the
  command, and what its request was computed from. A request is only made when the
  reading shows something to do (`DesiredIsCurrent`), hence not for what is
  applied already.

### Local workspaces

None of the three invariants is inductive. A late answer takes entries out of an
outbox, a confirmed removal drops a copy, a backup uploads all that a copy shows:
each is decided by a tab from what it saw earlier, and carried out on a
database that other tabs have changed. `Inv` adds what makes the three harmless.

* `Copies`: the work in an outbox is in what the copy shows; whose an entry is
  can be told, also when it is stored without an account; all edits of a
  device-only copy are its own (`loose`); and any other copy is of a workspace the
  server knows. The last part is why a first backup uploads only work of a
  device-only copy: a backup of any other is refused, the workspace exists.
* `Requests`: a batch under way holds work of the account it is sent for, or of a
  device-only copy, and once it was accepted the server has it. So an answer may
  settle whatever outbox it finds.
* `Dates`: `updatedAt` of a copy is a version. A copy with the date that the user
  reviewed holds no work beyond what was shown then, so a removal that compares
  the date (`expectedUpdatedAt`) drops only what was given up (`given`).
* `Kept`: an edit that was ever stored is in an outbox, on the server, or given
  up. `WorkShows` adds what a card says of such a copy.
* `Authors`: what the server has under an account is that account's work or of a
  device-only copy, which is `WorkKeepsItsAuthor`. `Told` says that nobody is
  told of a workspace that the server does not know.

Every transaction of `BrowserStore` is shown once to satisfy `Wrote`: which copy
it writes, that the open copy follows, and what becomes of its date. Four lemmas
(`StoreStep`, `MemoryStep`, `DatedStep`, `ServerStep`) say what a step has to show,
by the part of the state it changes, and each action is brought under one of
them.

### Devices

What a device holds and what the server knows are related only through requests
under way, which may be served at any time, answered from a later state and
delivered to a replica that another tab has changed since. `Inv` says what
such a request can still do.

* `Recorded`: what the server's snapshot remembers is in its history, and so are
  what the server's copy under review remembers and all that a receipt under way
  acknowledges. Then `reconcileReplica`, which drops acknowledged entries, and
  recovery, which drops what the server's copy remembers, drop nothing that the
  server lacks: this is `NothingDropped`. Late answers do no harm because the
  history only grows.
* `Named`: every command in a mutation queue, in an outbox or under review has an id
  in use and sets something, so that applying it leaves a record that it was
  applied. Commands that recovery makes again are such commands too.
* `QueueIsVisible` is kept by replaying what is left of the outbox on the server's
  snapshot, one fold over the queue (`ReplayIs`); `RunBatchIs` and `RemadeIs` are the
  folds of a batch on the server and of recovery. The library's induction
  theorems take an operator and cannot be cited; these folds are over numbers up
  to a length, and `Induction` of `PickingProofs` states the principle with a set,
  from the least element that is missing.
* `Informed` is what `DeletionIsFinal` needs. Who was told of a deletion is shut:
  read-only, with nothing pending. What could open it again is a grant, held by a
  list that was fetched earlier, by an answer under way, or by an open review. Each was
  made before the deletion (`Heard`, `HeardIn`), so its counters are below those
  that the device was told with the deletion, and `ShouldApply` refuses it; what is
  made afterwards says that the workspace is gone. One lemma per way of hearing
  says which of the two it is (`News`, `May`).

A first version of `DeletionIsFinal` said that the remembered access never
changes again. The attempt to prove it showed that this is false with two tabs, and TLC
found the behaviour once two tabs of one device heard of access changes: section
6, last item. The property now says what matters, and `device_copies` has such a
scope.

### History

What compaction drops depends on sizes, on five limits and on what it dropped
before. `Keeps` says what each of its steps leaves, whatever it drops: the
protected activities; audit events that name only activities that exist, no two
of one command; the newest audit event with all it names, when that event and
those activities are protected; and a limit on audit events or receipts that was
reached before. It is transitive, and every stage of `compactWorkspaceHistory`
satisfies it. So an undo, whose audit event `normalizeAudit` would drop if none of
its targets were left, keeps both.

The limits follow stage by stage.

* Receipts are cut to their number whenever some are added
  (`WithReceiptsKeeps`).
* Of the audit events as many of the oldest are dropped as there are too many.
  That they are then few enough needs that ids differ, for `filter` drops by id
  (`DropCounted`), and that at most one event is protected, so that enough are
  removable (`RemovableCounted`, `OldAuditsGo`).
* Of activities either enough are dropped or all that are not protected
  (`OverflowingIs`); what later stages drop never breaks the limits on activities
  and patches again (`WithoutFits`, by an injection of the patches that are left
  into those there were).
* For the size each stage of `compactBytes` either finds it right and changes
  nothing, or drops enough, or all that it may (`ShortenedAudits`,
  `ShortenedActivities`, `ShortenedReceipts`). So a size that is still too large
  means that each of them has dropped all.

That the newest entry is about the accepted command needs `HistoryInvariant`:
nothing in the history is newer than the workspace, no two audit events are of one
command, and audit events name activities that exist, so that what undo and redo
take from audit events can be protected. The patches of a command are a finite
list, shown command by command; of the inventory itself the proof uses nothing
else.

### Assumptions

The theorems rest on the named ASSUMEs of the modules, which TLC evaluates in the
runs: ids and markers are distinct, sets of rows are finite, roles and batches
are typed. `LimitsAssumption` (positive day and window limits, an hour no longer
than a day, a day no longer than a window) is what `PUBLIC_LAUNCH_LIMITS` has
(`src/src/server/governance-policy.ts:90-105`) and what an administrator can set
within. `DeploymentAssumption` says that `Order` has each key once and what a key
needs before it: kinds are applied one after the other, applications last
(`scripts/cloudflare-access.mjs:1541-1567`). `LocalAssumption` says that `Order` lists
each workspace once (ids are primary keys), that accounts are finitely many,
that pages and batches are not empty, and that a browser begins with copies
only of workspaces that have an owner. `DeviceAssumption` says, of types and authors aside,
that the account of a device is a member at first: its copy came from the server
or was backed up by it. `InventoryAssumption` says that ids of records are finitely
many, `TablesAssumption` that a table has a list of rows. `ScopesAssumption` says that behaviours start from a `Consistent`
database; the starts of the runs are such, and so is an empty installation.

### Only model-checked

`IntentAppliedOnce` and `AnswersOnlyAdd` of `DeviceSync`: the first depends on
values that a field had between two deliveries, the second on the order in which
two tabs were answered, and either needs an invariant about pairs of requests
that has not been found. `AccessGoesForward` of `LocalWorkspaces`, whose proof would
need the role at given counters to be a function of the server's history.
The second half of `CompactedAsNeeded`, `LostOfNeed`: that a shorter prefix would not have
been enough compares sums over what is left with sums over what was there. The
invariants of `WorkspaceHistory` about the records, which speak of a forest
(a recursion over it) and of reverted patches; of `SoundInventory` only the last
part, about audit events, is proved, in `HistoryInvariant`. And all liveness (`EveryRequestEnds`, `EditsAppear`,
`PendingSettles`, `Converges`), which like ENABLED is outside what the proof system
handles. The provers cannot apply induction theorems that take an operator;
induction over a set of numbers works and is what the folds above use, but a
recursive definition over data can only be unfolded.

## 5. Assumptions about the deployment

Between modules: `DeviceSync.Serve` runs a batch at one instant and answers from a
later read. `SyncServer` justifies it: a batch takes effect in the one winning
swap, whose draft is the batch applied to the stored snapshot, and nothing else a
request does leaves a trace. `LiveUpdates` and `LocalWorkspaces` take sync to be
one step for the same reason.

Of the world: `AccessDeployment` assumes that operators roll back the newest
snapshot first, that reads have settled when a command begins and show one
instant, that Cloudflare never reuses ids and refuses unresolved placeholder ids,
that others do not rename resources, and that a provider has no writable fields
beyond the configured ones. `AccessControl` assumes that a handler runs for less
than the hour the triggers allow for.

## 6. Disagreements with the documentation

Three have a run.

* `sync_livelock`. `reconcileReplica` replays the remaining outbox on the server's
  snapshot inside the settling transaction. If the queue is longer than a batch
  (or changes its basis half-way) and an unsent command conflicts with somebody
  else's edit, `applyCommand` throws, the transaction aborts, and the acknowledged
  commands stay pending too. The next exchange sends the same batch, is told
  "duplicate", and aborts again. The guide promises that a conflicting action is
  kept for review (`docs/guide/offline.md:40`).
* `stale_access_read_only`. A refusal for a stale basis tells the device its
  current counters without the write capability. With those counters nothing is
  newer, so an editor stays read-only on that device until a counter moves
  again, and recovery, which asks for the local capability, stays closed
  (`docs/guide/collaboration.md:77`).
* `custody_race`. `executeAccountDeletion` plans transfers of custody from a read;
  the batch checks only that the planned ones can be made. If another owner's
  deletion hands the account one more workspace in between, the deleted account
  stays its custodian (`docs/maintainers/api.md:67`, `architecture.md:121`).

Others were met while modelling and have no run; the models follow the code.

* A batch that has one command twice, which no client makes and the route accepts,
  gets "applied" and "duplicate" for it. If its swap is then refused, the
  "duplicate" is kept as a receipt of something stored, although nothing was
  (`src/src/server/sync-service.ts:143-151`, `269`).
* A live connection starts from the revision the tab shows, which counts edits not
  sent yet (`src/src/client/store.tsx:1311`), and takes a hint for news only beyond
  it (`live-reconciliation.ts:331`): a foreign edit with one of these revisions
  shows only with the next exchange. `EditsAppear` excepts it.
* Undo of the latest changes is refused when one of them made or removed a record
  that another of them touched: a whole record is compared, with the bookkeeping
  that the other change left in it (`commands.ts:2055`), although
  `docs/guide/activity.md:25` says it reverses "the latest applied changes".
  `RecentEditsCanBeUndone` excepts it (`Recreated`).
* A run that stops between opening its snapshot and the end of the write leaves a
  file that rollback refuses as invalid (`scripts/cloudflare-access.mjs:1295-1308`,
  `1601-1605`), and whose path no later run can take. Nothing was requested of
  Cloudflare before, so nothing is to be rolled back; `FilesAreTrue` says so.
* A `.next` file left by a stopped run makes the next one refuse
  (`scripts/cloudflare-access.mjs:1312`), although "a later invocation can resume
  after a definite partial rollback" (`docs/auth/cloudflare-access.md:57`).
* Edits made while signed out on a copy of a server workspace are stored without
  an account, and are not uploaded after the same account signs in until an
  answer for another account claims them (`docs/guide/offline.md:38`).
* A device-only copy with pending entries of one account is uploaded by
  the account that backs it up (`store.tsx:942-947`; `offline.md:48`).
  `WorkKeepsItsAuthor` excepts it.
* A page of one account's list that arrives after another's access replaced it
  can make a deleted copy writable until the next answer; and two tabs that page
  the same account's list mix their pages (`store.tsx:764-800`, `872`;
  `docs/maintainers/api.md:104`).
* A deletion confirmed from a panel whose membership revision is behind is
  recorded with a revision lower than the list's, so the card shows again until
  the next list (`workspace-access-controller.tsx`, about line 735).
* A deleted workspace is reported with access revision 0
  (`src/app/api/sync/route.ts:166-196`). On a device whose account was removed before
  the deletion, the membership revisions are equal, so that a late answer from
  before, with a higher access revision, replaces "deleted" by "revoked" or
  "unknown" (`src/src/domain/workspace-access.ts:324`). The copy stays read-only
  with nothing to send, which is what `DeletionIsFinal` states; only what the card
  says is of an earlier time.

## 7. What is not modelled

* **Server.** Rate limits, malformed requests and quotas other than growth appear
  as answers without receipts. The ledger of `SyncServer` is limited by number only:
  `AppliedOnce` is about retries within that window. Compaction to the byte limit,
  which can make it shorter, is in `HistoryRetention`, where the accepted command is
  always remembered (`AcceptedChangeKept`). `claimWorkspace` has no caller and is
  left out.
* **Accounts.** Guests of legacy identities without an account and their cleanup,
  deletion of OAuth rows after a day, recency of authentication, refusal of a
  second account with one email, browser-binding cookies, nonces and PKCE,
  revocation of sessions from before Google sign-in. One `LinkLimit` stands
  for active and for retained links. Development and Access sign-in use the same
  `createOrLinkUser` and `issueSession` and have no actions of their own. The
  recipient of custody is any owner with room; ties between sessions are broken
  arbitrarily; a row's `created_at` is the moment its handler read. Confirming a
  deletion by name and data revision, audit redaction and lists are left out.
* **Device.** Restore of a recovery bundle, the guided review and its projection
  of decisions. Time is not modelled: backoff and expiry are "later".
* **Local workspaces.** Edits never conflict and a sync answer is one step (both
  are `DeviceSync`'s). Outboxes of records from before accounts were stored, the
  retried compare-and-swap on a list's revision (here one atomic merge), search
  and role filters, lists of members and invitations. A transfer takes
  its target's revision to be current; a panel closes only when another
  copy is shown or the account changes.
* **Inventory.** Values are opaque but for what other fields depend on; the choice
  among a planner's moves is nondeterministic; parsing of files, guesses at
  headers, projections of quota, frequencies and tags are left out.
* **Live updates.** One device; a message in transit is a hint not yet taken; a
  batch is the whole queue. Backoff, expiry of capabilities, signatures, rate
  limits, heartbeats, flushes on focus and visibility, and a transport that does not exist
  are left out; restores are not announced by the code either.
* Rendering, HTTP plumbing, documentation and build have no state to model.

## 8. Plan

Next to be proved, in this order: `AccessGoesForward` of `LocalWorkspaces`;
`AnswersOnlyAdd`, then `IntentAppliedOnce` of `DeviceSync`, each with an invariant about
pairs of requests under way; the invariants of `WorkspaceHistory` about its records; and that the
empty installation is `Consistent`.
