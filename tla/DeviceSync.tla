----------------------------- MODULE DeviceSync -----------------------------
(***************************************************************************)
(* The devices of a shared workspace, each with its IndexedDB replica (the *)
(* local snapshot, the outbox and the remembered access) and the tabs open *)
(* on it, exchanging sync requests with the server.  Tabs edit at once and *)
(* offline; requests and answers are lost, delayed or answered after the   *)
(* tab is gone; access changes meanwhile.                                  *)
(*                                                                         *)
(* The server is SyncServer seen from outside: one request takes effect at *)
(* one instant (Serve, the successful swap) and is answered at a later one *)
(* (Respond, the last read).  An IndexedDB transaction is one step.        *)
(***************************************************************************)
EXTENDS AccessOrder, Picking

CONSTANTS
  Device,         \* browsers with a replica of the workspace
  Tab,            \* open tabs
  DeviceOf,       \* the device a tab runs on
  AccountOf,      \* the account signed in on a device
  Copies,         \* ids that recovery may give to reapplied edits
  AuthorOf,       \* the tab each original edit is made in
  FieldOf,        \* the field each original edit sets
  ValueOf,        \* and what it sets it to
  Guarded,        \* original edits dispatched with explicit expectations
  BatchLimit,     \* API_QUOTAS.commandsPerSyncRequest
  Flaky,          \* bound: the tabs whose exchanges may fail
  Scopes,         \* bound: what may happen in one behaviour, see Scope
  MaxOrphans      \* bound on requests still travelling after their tab gave up

Originals == Edit \ Copies

\* The tabs in use, the edits made in them, those that refresh the catalog, those
\* in which the user opens recovery, and whether access changes.
Scope == [tabs : SUBSET Tab, edits : SUBSET Originals, listing : SUBSET Tab,
          reviewers : SUBSET Tab, access : BOOLEAN]

ASSUME DeviceAssumption ==
  /\ Copies \subseteq Edit
  /\ DeviceOf \in [Tab -> Device]
  /\ AccountOf \in [Device -> Account]
  /\ \A d \in Device : InitialRole[AccountOf[d]] # "none"
  /\ AuthorOf \in [Originals -> Tab]
  /\ FieldOf \in [Originals -> Field]
  /\ ValueOf \in [Originals -> Value]
  /\ Guarded \subseteq Originals
  /\ Flaky \subseteq Tab
  /\ Scopes \subseteq Scope
  /\ BatchLimit \in Nat \ {0}
  /\ MaxOrphans \in Nat

VARIABLES
  store,    \* the server's snapshot row
  rep,      \* the IndexedDB replica of each device
  view,     \* the replica each tab renders
  todo,     \* the dispatched commands each tab has yet to store
  flight,   \* the sync request of each tab (at most one: flushPromises)
  orphans,  \* requests whose tab no longer waits for them
  catalog,  \* the catalog answer each tab has yet to apply
  review,   \* what recovery in a tab compares: replica and server copy
  origin,   \* the edit that each id made so far stands for (history variable)
  kept,     \* edits a device accepted and nobody discarded (history variable)
  told,     \* devices that learnt that the workspace is deleted (history variable)
  scope     \* what happens in this behaviour (a bound, not state of the code)

client == <<rep, view, todo, flight, orphans, catalog, review, origin, kept, told>>
moving == <<store, access, client>>
vars   == <<moving, scope>>

OutboxEntry == [env : Envelope, status : {"pending", "blocked"}]
Replica     == [state : Snapshot, outbox : Seq(OutboxEntry), auth : LocalAccess]
Intent      == [id : Edit, field : Field, value : Value, env : Envelope,
                prior : SUBSET Edit, guarded : BOOLEAN]
Flight      == [phase : {"idle", "sent", "served", "answered"},
                batch : Seq(Envelope), known : LocalAccess,
                result : {"none", "ok", "refused", "notFound"},
                receipts : Seq(Receipt), answer : Snapshot, auth : LocalAccess]

Account1(t) == AccountOf[DeviceOf[t]]

FirstAccess(d) == Granted(AccessOf(AccountOf[d]))

IdleFlight(known) ==
  [phase |-> "idle", batch |-> << >>, known |-> known, result |-> "none",
   receipts |-> << >>, answer |-> EmptySnapshot, auth |-> known]

Review   == [open : BOOLEAN, server : Snapshot, auth : LocalAccess, rep : Replica]

NoKnowledge == [m |-> 0, a |-> 0, status |-> "unknown", role |-> "none",
                write |-> FALSE]

NoReview ==
  [open |-> FALSE, server |-> EmptySnapshot, auth |-> NoKnowledge,
   rep |-> [state |-> EmptySnapshot, outbox |-> << >>, auth |-> NoKnowledge]]

Page   == [state : {"none", "listed", "absent"}, auth : LocalAccess]
NoPage == [state |-> "none", auth |-> NoKnowledge]

TypeOK ==
  /\ AccessTypeOK
  /\ store \in Snapshot
  /\ rep \in [Device -> Replica]
  /\ view \in [Tab -> Replica]
  /\ todo \in [Tab -> Seq(Intent)]
  /\ flight \in [Tab -> Flight]
  /\ orphans \in SUBSET [batch : Seq(Envelope), account : Account]
  /\ catalog \in [Tab -> Page]
  /\ review \in [Tab -> Review]
  /\ origin \in UNION {[D -> Originals] : D \in SUBSET Edit}
  /\ kept \in [Device -> SUBSET Edit]
  /\ told \subseteq Device
  /\ scope \in Scopes

-----------------------------------------------------------------------------
(* Editing. *)

\* expectationsForCommand: what the state shows of the fields F it changes.
Expectations(s, F) == [f \in F |-> s.val[f]]

\* createEnvelope
MakeEnvelope(s, id, f, v, basis) ==
  [id |-> id, sets |-> [x \in {f} |-> v], expect |-> Expectations(s, {f}),
   base |-> s.rev, basis |-> basis]

BasisKnown(auth) == [m |-> auth.m, a |-> auth.a]

\* dispatch, up to its queueing: the envelope is made from what is rendered.
Dispatch(t, e) ==
  /\ AuthorOf[e] = t /\ e \notin DOMAIN origin
  /\ view[t].auth.write
  /\ todo' = [todo EXCEPT ![t] = Append(@,
       [id |-> e, field |-> FieldOf[e], value |-> ValueOf[e],
        env |-> MakeEnvelope(view[t].state, e, FieldOf[e], ValueOf[e],
                             BasisKnown(view[t].auth)),
        prior |-> {todo[t][i].id : i \in DOMAIN todo[t]},
        guarded |-> e \in Guarded])]
  /\ origin' = [x \in DOMAIN origin \cup {e} |-> IF x = e THEN e ELSE origin[x]]
  /\ UNCHANGED <<store, access, rep, view, flight, orphans, review, kept, told, catalog>>

\* canRebaseQueuedCommand: only this tab's own queued commands came between.
CanRebase(s, x) ==
  LET landed == {id \in x.prior : WasApplied(s, id)} IN
  landed # {} /\ s.rev = x.env.base + Cardinality(landed)

EffectiveEnvelope(s, x) ==
  IF ~x.guarded /\ CanRebase(s, x)
  THEN MakeEnvelope(s, x.id, x.field, x.value, x.env.basis) ELSE x.env

Throws(s, c) == c.base > s.rev \/ ~CanApply(s, c)

\* dispatch, the queued transaction: apply to the replica as it is now and
\* append to its outbox, or fail and show the stored replica.
Store(t) ==
  LET d    == DeviceOf[t]
      x    == Head(todo[t])
      env  == EffectiveEnvelope(rep[d].state, x)
      next == [rep[d] EXCEPT
                !.state  = ApplyCommand(@, env, Account1(t)),
                !.outbox = Append(@, [env |-> env, status |-> "pending"])]
  IN
  /\ todo[t] # << >>
  /\ todo' = [todo EXCEPT ![t] = Tail(@)]
  /\ IF rep[d].auth.write /\ ~Throws(rep[d].state, env)
     THEN /\ rep' = [rep EXCEPT ![d] = next]
          /\ view' = [view EXCEPT ![t] = next]
          /\ kept' = [kept EXCEPT ![d] = @ \cup {x.id}]
     ELSE /\ view' = [view EXCEPT ![t] = rep[d]]
          /\ UNCHANGED <<rep, kept>>
  /\ UNCHANGED <<store, access, flight, orphans, review, origin, told, catalog>>

\* A broadcast of another tab's write, or a reload of the tab's replica.
Refresh(t) ==
  /\ view[t] # rep[DeviceOf[t]]
  /\ view' = [view EXCEPT ![t] = rep[DeviceOf[t]]]
  /\ UNCHANGED <<store, access, rep, todo, flight, orphans, review, origin, kept, told, catalog>>

-----------------------------------------------------------------------------
(* The sync request of a tab. *)

Pending(outbox) == Picked(outbox, {i \in DOMAIN outbox : outbox[i].status = "pending"})

\* selectPendingSyncBatch: the oldest pending commands that share the basis of
\* the first one, up to the request limit.
SelectBatch(outbox) ==
  LET p == Pending(outbox)
      OneBasis(n) == \A i \in 1..n : p[i].env.basis = p[1].env.basis
      n == CHOOSE k \in 0..Len(p) :
             /\ k <= BatchLimit /\ OneBasis(k)
             /\ \/ k = Len(p) \/ k = BatchLimit \/ ~OneBasis(k + 1)
  IN [i \in 1..n |-> p[i].env]

\* flushWorkspace reads the replica and sends.  An empty batch only refreshes.
Flush(t) ==
  LET r == rep[DeviceOf[t]] IN
  /\ flight[t].phase = "idle"
  /\ flight' = [flight EXCEPT ![t] = [IdleFlight(r.auth) EXCEPT
       !.phase = "sent", !.batch = SelectBatch(r.outbox)]]
  /\ UNCHANGED <<store, access, rep, view, todo, orphans, review, origin, kept, told, catalog>>

\* synchronize, run over a whole batch at one instant.
RunBatch(batch, who) ==
  LET run[n \in 0..Len(batch)] ==
        IF n = 0 THEN [s |-> store, receipts |-> << >>]
        ELSE LET c == batch[n]
                 before == run[n - 1]
                 verdict == Verdict(before.s, c, store.rev, n - 1, who)
                 after == AfterVerdict(before.s, c, verdict, who)
             IN [s |-> after, receipts |-> Append(before.receipts,
                                             ReceiptOf(c, verdict, after))]
  IN run[Len(batch)]

\* The basis the server checks: a batch is never mixed.
Admitted(batch, a) ==
  LET acc == AccessOf(a) IN
  CanRead(a) /\ \A i \in DOMAIN batch : Failure(acc, batch[i].basis) = "ok"

\* The request takes effect, or is refused.  Without a row the first read of
\* the route answers 404, a later one of the same request why.
Serve(t) ==
  LET a     == Account1(t)
      batch == flight[t].batch
      acc   == AccessOf(a)
      run   == RunBatch(batch, a)
      Answered(result, receipts, auth) ==
        flight' = [flight EXCEPT ![t].phase = "answered", ![t].result = result,
                                 ![t].receipts = receipts, ![t].auth = auth]
      AllRejected == [i \in DOMAIN batch |-> ReceiptOf(batch[i], "rejected", store)]
  IN
  /\ flight[t].phase = "sent"
  /\ \/ /\ Admitted(batch, a)
        /\ store' = run.s
        /\ flight' = [flight EXCEPT ![t].phase = "served",
                                    ![t].receipts = run.receipts]
     \/ /\ ~Admitted(batch, a)
        /\ Answered("refused", AllRejected, Refused(acc))
        /\ UNCHANGED store
     \/ /\ ~CanRead(a) /\ active[a]
        /\ Answered("notFound", << >>, Inaccessible(flight[t].known))
        /\ UNCHANGED store
  /\ UNCHANGED <<access, rep, view, todo, orphans, review, origin, kept, told, catalog>>

\* The last read of the route: the snapshot as it is now, or why it is gone.
Respond(t) ==
  LET a == Account1(t) IN
  /\ flight[t].phase = "served"
  /\ flight' = [flight EXCEPT
       ![t].phase = "answered",
       ![t].result = IF CanRead(a) THEN "ok" ELSE "refused",
       ![t].answer = IF CanRead(a) THEN store ELSE EmptySnapshot,
       ![t].auth = IF CanRead(a) THEN Granted(AccessOf(a))
                   ELSE Refused(AccessOf(a))]
  /\ UNCHANGED <<store, access, rep, view, todo, orphans, review, origin, kept, told, catalog>>

-----------------------------------------------------------------------------
(* Delivering the answer. *)

IdsOf(batch) == {batch[i].id : i \in DOMAIN batch}

OutboxIds(outbox) == {outbox[i].env.id : i \in DOMAIN outbox}

Block(entry) == [entry EXCEPT !.status = "blocked"]

\* scopeOutboxForWorkspaceAccess: a deleted workspace takes no more work.
ScopeOutbox(outbox, auth) ==
  [i \in DOMAIN outbox |->
     IF auth.status = "deleted" THEN Block(outbox[i]) ELSE outbox[i]]

WithAccess(r, auth) ==
  LET new == Newer(r.auth, auth) IN
  [r EXCEPT !.auth = new, !.outbox = ScopeOutbox(@, new)]

\* applyRefusedSyncResponse: what was sent waits for review.  A refusal of a
\* nonempty batch carries receipts or is a 403, 404 or 410, so it is definitive.
AfterRefusal(r, batch, auth) ==
  LET scoped == WithAccess(r, auth) IN
  [scoped EXCEPT !.outbox = [i \in DOMAIN @ |->
     IF @[i].env.id \in IdsOf(batch) THEN Block(@[i]) ELSE @[i]]]

StatusIn(receipts, id) ==
  LET I == {i \in DOMAIN receipts : receipts[i].id = id} IN
  IF I = {} THEN "missing" ELSE receipts[CHOOSE i \in I : TRUE].status

\* Mutation of Settle: a refused command is tried again.
SettleRetrying(outbox, batch, receipts) ==
  Picked(outbox, {i \in DOMAIN outbox :
    StatusIn(receipts, outbox[i].env.id) \notin {"applied", "duplicate"}})

\* The outbox of reconcileReplica: acknowledged commands leave, refused ones
\* are blocked, unsent ones stay.
Settle(outbox, batch, receipts) ==
  LET Acked(e) == /\ e.env.id \in IdsOf(batch)
                  /\ StatusIn(receipts, e.env.id) \in {"applied", "duplicate"}
      left == Picked(outbox, {i \in DOMAIN outbox : ~Acked(outbox[i])})
  IN [i \in DOMAIN left |->
        IF left[i].env.id \in IdsOf(batch) THEN Block(left[i]) ELSE left[i]]

HasBlocked(outbox) == \E i \in DOMAIN outbox : outbox[i].status = "blocked"

\* Mutation of Replay: the server's snapshot replaces the local one.
ReplayNothing(s, outbox, who) == [ok |-> TRUE, s |-> s]

\* The outbox applied again on the server's snapshot; ok is FALSE when one of
\* its commands throws.
Replay(s, outbox, who) ==
  LET run[n \in 0..Len(outbox)] ==
        IF n = 0 THEN [ok |-> TRUE, s |-> s]
        ELSE LET before == run[n - 1]
                 c == outbox[n].env
             IN IF before.ok /\ ~Throws(before.s, c)
                THEN [ok |-> TRUE, s |-> ApplyCommand(before.s, c, who)]
                ELSE [ok |-> FALSE, s |-> before.s]
  IN run[Len(outbox)]

\* Mutation of Obsolete: revisions are not compared.
ObsoleteByIds(r, batch, answer) ==
  batch # << >> /\ IdsOf(batch) \cap OutboxIds(r.outbox) = {}

\* Mutation of Obsolete: an empty batch was settled by somebody else, too.
ObsoleteWhenEmpty(r, batch, answer) ==
  \/ answer.rev < r.state.rev - Len(r.outbox)
  \/ IdsOf(batch) \cap OutboxIds(r.outbox) = {}

\* An answer older than what the replica already confirmed, or to a batch that
\* some other answer settled, leaves state and outbox alone.
Obsolete(r, batch, answer) ==
  \/ answer.rev < r.state.rev - Len(r.outbox)
  \/ batch # << >> /\ IdsOf(batch) \cap OutboxIds(r.outbox) = {}

\* Deliver ends the flight; after a failed transaction the replica is as it was.
EndFlight(t, next) ==
  /\ flight' = [flight EXCEPT ![t] = IdleFlight(NoKnowledge)]
  /\ rep' = [rep EXCEPT ![DeviceOf[t]] = next]
  /\ view' = [view EXCEPT ![t] = next]
  /\ told' = IF next.auth.status = "deleted" THEN told \cup {DeviceOf[t]} ELSE told
  /\ UNCHANGED <<store, access, todo, orphans, review, origin, kept, catalog>>

\* flushWorkspace on an answer.  (left is bound for TLC, which computes it once.)
DeliverSuccess(t) ==
  LET q == flight[t]
      r == rep[DeviceOf[t]]
  IN
  /\ q.phase = "answered" /\ q.result = "ok"
  /\ \E left \in {Settle(r.outbox, q.batch, q.receipts)} :
     LET again == Replay(q.answer, left, Account1(t)) IN
     \/ /\ Obsolete(r, q.batch, q.answer)
        /\ EndFlight(t, WithAccess(r, q.auth))
     \/ /\ ~Obsolete(r, q.batch, q.answer) /\ HasBlocked(left)
        /\ EndFlight(t, WithAccess([r EXCEPT !.outbox = left], q.auth))
     \/ /\ ~Obsolete(r, q.batch, q.answer) /\ ~HasBlocked(left) /\ again.ok
        /\ EndFlight(t, WithAccess([r EXCEPT !.outbox = left,
                                             !.state = again.s], q.auth))
     \/ \* applyCommand throws: the transaction aborts, nothing is settled
        /\ ~Obsolete(r, q.batch, q.answer) /\ ~HasBlocked(left) /\ ~again.ok
        /\ EndFlight(t, r)

DeliverRefusal(t) ==
  LET q == flight[t] IN
  /\ q.phase = "answered" /\ q.result \in {"refused", "notFound"}
  /\ EndFlight(t, AfterRefusal(rep[DeviceOf[t]], q.batch, q.auth))

\* The tab stops waiting: network error, an answer without receipts (busy,
\* rate limited, paused, signed out), reload or crash.  What was sent may still
\* reach the server; what was not yet stored is gone with the tab.
GiveUp(t) ==
  /\ t \in Flaky
  /\ flight[t].phase # "idle"
  /\ flight' = [flight EXCEPT ![t] = IdleFlight(NoKnowledge)]
  /\ \/ UNCHANGED orphans
     \/ /\ flight[t].phase = "sent" /\ flight[t].batch # << >>
        /\ Cardinality(orphans) < MaxOrphans
        /\ orphans' = orphans \cup {[batch |-> flight[t].batch,
                                     account |-> Account1(t)]}
  /\ UNCHANGED <<store, access, rep, view, todo, review, origin, kept, told, catalog>>

Reload(t) ==
  /\ todo[t] # << >> /\ flight[t].phase = "idle"
  /\ todo' = [todo EXCEPT ![t] = << >>]
  /\ view' = [view EXCEPT ![t] = rep[DeviceOf[t]]]
  /\ UNCHANGED <<store, access, rep, flight, orphans, review, origin, kept, told, catalog>>

\* A request nobody waits for reaches the server after all.
ServeOrphan(o) ==
  /\ orphans' = orphans \ {o}
  /\ store' = IF Admitted(o.batch, o.account)
              THEN RunBatch(o.batch, o.account).s ELSE store
  /\ UNCHANGED <<access, rep, view, todo, flight, review, origin, kept, told, catalog>>

-----------------------------------------------------------------------------
(* The catalog and recovery. *)

\* requestCatalogPage: the server lists the workspace, or a complete catalog
\* does not.  An answer still on its way is superseded.
RefreshCatalog(t) ==
  LET a == Account1(t) IN
  /\ t \in scope.listing /\ active[a]
  /\ catalog' = [catalog EXCEPT ![t] =
       IF CanRead(a) THEN [state |-> "listed", auth |-> Granted(AccessOf(a))]
       ELSE [state |-> "absent", auth |-> [NoKnowledge EXCEPT !.m = mrev[a]]]]
  /\ UNCHANGED <<store, access, rep, view, todo, flight, orphans, review, origin, kept, told>>

\* applyCatalogAuthorization, when the answer is here: whatever the replica
\* learnt meanwhile decides whether it is news.
ApplyCatalog(t) ==
  LET d     == DeviceOf[t]
      page  == catalog[t]
      known == rep[d].auth
      now   == IF page.state = "listed" THEN page.auth
               ELSE [known EXCEPT !.status = "revoked", !.role = "none",
                                  !.write = FALSE, !.m = page.auth.m]
      news  == /\ page.state = "listed" \/ page.auth.m > known.m
               /\ ShouldApply(known, now)
  IN
  /\ page.state # "none"
  /\ rep' = [rep EXCEPT ![d] = IF news THEN WithAccess(@, now) ELSE @]
  /\ view' = [view EXCEPT ![t] = rep'[d]]
  /\ catalog' = [catalog EXCEPT ![t] = NoPage]
  /\ UNCHANGED <<store, access, todo, flight, orphans, review, origin, kept, told>>

\* parseAuthorizedRecoverySnapshot: the server's copy with active access of the
\* account that asked; anything else is no answer.
RecoverySnapshot(a) ==
  IF CanRead(a) THEN {[server |-> store, auth |-> Granted(AccessOf(a))]} ELSE {}

\* canUseLocalRecoveryWrite and, of a fresh server answer, canUseRecoveryCapability.
CanUseLocal(d) == rep[d].auth.write

CanUseServer(snapshot) == snapshot.auth.write

\* loadServerSnapshot: the user reviews the queue against the server's copy.
OpenReview(t) ==
  LET d == DeviceOf[t] IN
  /\ t \in scope.reviewers /\ ~review[t].open
  /\ CanUseLocal(d) /\ rep[d].outbox # << >>
  /\ \E snapshot \in RecoverySnapshot(AccountOf[d]) :
       /\ CanUseServer(snapshot)
       /\ review' = [review EXCEPT ![t] =
            [open |-> TRUE, server |-> snapshot.server, rep |-> rep[d],
             auth |-> snapshot.auth]]
  /\ UNCHANGED <<store, access, rep, view, todo, flight, orphans, origin, kept, told, catalog>>

\* Nothing is changed: the replica is not the reviewed one, or the user leaves.
CloseReview(t) ==
  /\ review[t].open
  /\ review' = [review EXCEPT ![t] = NoReview]
  /\ UNCHANGED <<store, access, rep, view, todo, flight, orphans, origin, kept, told, catalog>>

\* Mutation of StillAsReviewed: the replica is not compared.
ReviewIsOpen(t) == review[t].open

\* writeReplicaIfUnchanged: nothing else changed the replica meanwhile.
StillAsReviewed(t) == review[t].open /\ rep[DeviceOf[t]] = review[t].rep

Replace(t, next) ==
  /\ rep' = [rep EXCEPT ![DeviceOf[t]] = next]
  /\ view' = [view EXCEPT ![t] = next]
  /\ review' = [review EXCEPT ![t] = NoReview]
  /\ UNCHANGED <<store, access, todo, flight, orphans, told, catalog>>

InLog(id) == \E i \in DOMAIN store.log : store.log[i].id = id

\* resetToServer: the user gives the queue up for the server's copy.
Reset(t) ==
  LET d == DeviceOf[t] IN
  /\ StillAsReviewed(t)
  /\ Replace(t, [state |-> review[t].server, outbox |-> << >>,
                 auth |-> review[t].auth])
  /\ kept' = [kept EXCEPT ![d] = @ \ OutboxIds(review[t].rep.outbox)]
  /\ UNCHANGED origin

\* What the server's copy does not remember.
Unapplied(server, outbox) ==
  Picked(outbox, {i \in DOMAIN outbox : ~WasApplied(server, outbox[i].env.id)})

FieldIn(c) == CHOOSE f \in DOMAIN c.sets : TRUE

\* reviewStep: the fields of a change there is something to choose about.
ReviewFields(c) == {f \in DOMAIN c.sets : c.sets[f] # c.expect[f]}

\* chosenCommand: those for which the device's value says something new.
Chosen(s, c) == {f \in ReviewFields(c) : c.sets[f] # s.val[f]}

\* Recovery makes changes again, in order, under fresh ids on the server's copy:
\* all of them, or, of those the user decided for, the ones that say something
\* new.  One that cannot be made stops the rest.  decided holds the one set of
\* places decided for, if the user was asked.
Remade(r, open, fresh, who, decided) ==
  LET made[n \in 0..Len(open)] ==
        IF n = 0 THEN [ok |-> TRUE, s |-> r.server, outbox |-> << >>]
        ELSE LET before == made[n - 1]
                 old == open[n].env
                 c == MakeEnvelope(before.s, fresh[n], FieldIn(old),
                                   old.sets[FieldIn(old)], BasisKnown(r.auth))
                 Skipped == \E D \in decided :
                              n \notin D \/ Chosen(before.s, old) = {}
             IN IF before.ok /\ Skipped THEN before
                ELSE IF before.ok /\ CanApply(before.s, c)
                THEN [ok |-> TRUE,
                      s |-> ApplyCommand(before.s, c, who),
                      outbox |-> Append(before.outbox,
                                        [env |-> c, status |-> "pending"])]
                ELSE [before EXCEPT !.ok = FALSE]
  IN made[Len(open)]

\* The result replaces the reviewed replica.
Recover(t, decided) ==
  LET d    == DeviceOf[t]
      open == Unapplied(review[t].server, review[t].rep.outbox)
  IN
  /\ StillAsReviewed(t)
  /\ \E fresh \in [1..Len(open) -> Copies \ DOMAIN origin] :
       LET result == Remade(review[t], open, fresh, Account1(t), decided)
           Source(id) == origin[open[CHOOSE i \in 1..Len(open) : fresh[i] = id].env.id]
       IN
       /\ \A i, j \in 1..Len(open) : i # j => fresh[i] # fresh[j]
       /\ result.ok
       /\ Replace(t, [state |-> result.s, outbox |-> result.outbox,
                      auth |-> review[t].auth])
       /\ origin' = [x \in DOMAIN origin \cup OutboxIds(result.outbox) |->
                       IF x \in DOMAIN origin THEN origin[x] ELSE Source(x)]
       /\ kept' = [kept EXCEPT ![d] =
                     (@ \ OutboxIds(open)) \cup OutboxIds(result.outbox)]

\* reapply: everything the server does not remember.
Reapply(t) == Recover(t, {})

\* saveReviewedChoices: the user decides on every change, in order, to apply the
\* device's value or to keep the server's (projectRecoveryReview).
SaveReview(t) ==
  LET open == Unapplied(review[t].server, review[t].rep.outbox) IN
  \E device \in SUBSET DOMAIN open :
    Recover(t, {device})

-----------------------------------------------------------------------------
Init ==
  /\ AccessInit
  /\ store = EmptySnapshot
  /\ rep = [d \in Device |-> [state |-> EmptySnapshot, outbox |-> << >>,
                              auth |-> FirstAccess(d)]]
  /\ view = [t \in Tab |-> [state |-> EmptySnapshot, outbox |-> << >>,
                            auth |-> FirstAccess(DeviceOf[t])]]
  /\ todo = [t \in Tab |-> << >>]
  /\ flight = [t \in Tab |-> IdleFlight(NoKnowledge)]
  /\ orphans = {}
  /\ catalog = [t \in Tab |-> NoPage]
  /\ origin = << >>
  /\ review = [t \in Tab |-> NoReview]
  /\ kept = [d \in Device |-> {}]
  /\ told = {}
  /\ scope \in Scopes

Deliver(t) == DeliverSuccess(t) \/ DeliverRefusal(t)

Exchange(t) == Flush(t) \/ Serve(t) \/ Respond(t) \/ Deliver(t)

Next ==
  /\ UNCHANGED scope
  /\ \/ \E t \in scope.tabs :
          \/ \E e \in scope.edits : Dispatch(t, e)
          \/ Store(t) \/ Refresh(t) \/ Exchange(t)
          \/ GiveUp(t) \/ Reload(t)
          \/ RefreshCatalog(t) \/ ApplyCatalog(t)
          \/ OpenReview(t) \/ CloseReview(t) \/ Reset(t) \/ Reapply(t)
          \/ SaveReview(t)
     \/ \E o \in orphans : ServeOrphan(o)
     \/ scope.access /\ ChangeAccess /\ UNCHANGED <<store, client>>

Spec == Init /\ [][Next]_vars

\* Timers, lifecycle events and live hints keep starting exchanges, and the
\* network does not lose every one of them: an exchange that gets so far again
\* and again is once served, answered and delivered.  A queued transaction runs.
Fairness ==
  \A t \in Tab :
    LET Runs == t \in scope.tabs IN
    /\ WF_moving(Runs /\ Store(t)) /\ WF_moving(Runs /\ Refresh(t))
    /\ WF_moving(Runs /\ RefreshCatalog(t)) /\ WF_moving(Runs /\ ApplyCatalog(t))
    /\ WF_moving(Runs /\ Flush(t)) /\ SF_moving(Runs /\ Serve(t))
    /\ SF_moving(Runs /\ Respond(t)) /\ SF_moving(Runs /\ Deliver(t))

FairSpec == Spec /\ Fairness

-----------------------------------------------------------------------------
(* Properties. *)

\* An edit the device accepted is in its outbox or in the server's history,
\* whatever is lost, refused or raced, until the user gives it up in recovery
\* ("never silently drop it", docs/maintainers/architecture.md).
NothingDropped ==
  \A d \in Device : \A e \in kept[d] :
    e \in OutboxIds(rep[d].outbox) \/ InLog(e)

\* What waits in the outbox, pending or blocked, is in what the user sees.
QueueIsVisible ==
  \A d \in Device : \A i \in DOMAIN rep[d].outbox :
    WasApplied(rep[d].state, rep[d].outbox[i].env.id)

\* However often an edit is retried, orphaned or made again in recovery, and
\* even when its field holds again what it once expected, the server takes it
\* once.  A copy recovery made while its original was still travelling is taken
\* as well only when the field was changed and changed back in between.
IntentAppliedOnce ==
  LET log == store.log IN
  \A i, j \in DOMAIN log :
    (i < j /\ origin[log[i].id] = origin[log[j].id]) =>
      /\ log[i].id # log[j].id
      /\ \E k \in (i + 1)..(j - 1) : DOMAIN log[k].sets \cap DOMAIN log[j].sets # {}

\* A device that learnt of the deletion is read-only ever after, with nothing left
\* to send, whatever answers, lists and reviews were still under way ("kept
\* read-only", docs/guide/collaboration.md).
DeletionIsFinal ==
  \A d \in told :
    /\ ~rep[d].auth.write /\ rep[d].auth.status # "active"
    /\ Pending(rep[d].outbox) = << >>

\* An exchange never takes away what the user was shown: every entry in the
\* local history is still in it after an answer of any tab, late or not.
Shown(r) == {r.state.log[i].id : i \in DOMAIN r.state.log}

AnswersOnlyAdd ==
  [][\A t \in Tab : DeliverSuccess(t) =>
       Shown(rep[DeviceOf[t]]) \subseteq Shown(rep'[DeviceOf[t]])]_rep

\* Every waiting change is settled: acknowledged, or kept for review.
IsPending(d, e) ==
  \E i \in DOMAIN rep[d].outbox :
    rep[d].outbox[i].env.id = e /\ rep[d].outbox[i].status = "pending"

PendingSettles ==
  \A e \in Originals :
    LET d == DeviceOf[AuthorOf[e]] IN IsPending(d, e) ~> ~IsPending(d, e)

\* A device with nothing in its outbox comes to show what the server holds.
Converges ==
  \A d \in Device :
    []<>(rep[d].outbox # << >> \/ ~CanRead(AccountOf[d])
         \/ rep[d].state.val = store.val)

\* A member who stays an editor or owner is able to edit again.
WriteAccessReturns ==
  \A d \in Device :
    <>[](CanRead(AccountOf[d]) /\ role[AccountOf[d]] \in Writers)
      => []<>(rep[d].auth.write)
=============================================================================
