----------------------------- MODULE SyncServer -----------------------------
(***************************************************************************)
(* POST /api/sync and PUT /api/snapshot for one workspace that is already  *)
(* backed up: what the server does to the stored snapshot while several    *)
(* requests are in flight and its access changes under them.               *)
(*                                                                         *)
(* Every SQL statement is one atomic step; everything a handler does       *)
(* between two awaits touches only its own request, so the loop over the   *)
(* batch is one step per command.  The access rows (role, account status,  *)
(* deletion tombstone, the two revision counters) are changed by other     *)
(* routes; here they change as the triggers of migration 0005 make every   *)
(* such change appear.                                                     *)
(***************************************************************************)
EXTENDS ServerAccess

CONSTANTS
  Request,      \* request slots: how many may be in flight
  NoAccount,    \* the account of an idle slot
  Batch,        \* the command batches clients may send
  MaxAttempts,  \* DEFAULT_SYNC_RETRIES
  MaxLog        \* bound: no request starts on a longer log

ASSUME ServerAssumption ==
  /\ NoAccount \notin Account
  /\ Batch \subseteq Seq(Envelope)
  /\ MaxAttempts \in Nat \ {0}
  /\ MaxLog \in Nat

VARIABLES
  store,     \* workspace_snapshots.state_json, with its revision
  backup,    \* a portable backup somebody exported
  req        \* the requests in flight

vars == <<store, access, backup, req>>

Phases  == {"idle", "received", "admit", "load", "refusal", "apply", "swap",
            "recheck", "answer", "vanished", "restore", "restoreSwap",
            "replied"}
Results == {"none", "ok", "unauthenticated", "invalid", "notFound",
            "inactive", "deleted", "revoked", "write", "stale", "busy",
            "paused", "restored", "notRestored"}

NoAccess == [active |-> FALSE, deleted |-> FALSE, role |-> "none",
             m |-> 0, a |-> 0]

Idle == [phase |-> "idle", account |-> NoAccount, batch |-> << >>,
         basis |-> NoBasis, attempt |-> 0, base |-> EmptySnapshot,
         draft |-> EmptySnapshot, receipts |-> << >>, result |-> "none",
         access |-> NoAccess]

RequestRecord ==
  [phase : Phases, account : Account \cup {NoAccount}, batch : Seq(Envelope),
   basis : Basis \cup {NoBasis}, attempt : Nat, base : Snapshot,
   draft : Snapshot, receipts : Seq(Receipt), result : Results,
   access : Access]

TypeOK ==
  /\ AccessTypeOK
  /\ store \in Snapshot
  /\ backup \in [val : [Field -> Value], ledger : Seq(Edit)]
  /\ req \in [Request -> RequestRecord]

-----------------------------------------------------------------------------
(* Answers. *)

Reject(c, rev) == [id |-> c.id, status |-> "rejected", rev |-> rev]

AllRejected(batch, rev) == [i \in DOMAIN batch |-> Reject(batch[i], rev)]

\* Mutation of RejectedExceptDuplicates: the receipts of the attempt that lost
\* its swap are sent.
ReceiptsOfLostAttempt(batch, rev, receipts) ==
  [i \in DOMAIN batch |->
     IF i \in DOMAIN receipts THEN receipts[i] ELSE Reject(batch[i], rev)]

\* The receipt of a command in a Map by id, when it is a duplicate: the last one
\* with that id counts.
KeptReceipts(id, receipts) ==
  {k \in DOMAIN receipts :
     /\ receipts[k].id = id /\ receipts[k].status = "duplicate"
     /\ \A j \in DOMAIN receipts : receipts[j].id = id => j <= k}

\* authorizationReceipts: what the attempt found to be a duplicate stays one.
RejectedExceptDuplicates(batch, rev, receipts) ==
  [i \in DOMAIN batch |->
     LET kept == KeptReceipts(batch[i].id, receipts) IN
     IF kept # {} THEN receipts[CHOOSE k \in kept : TRUE]
     ELSE Reject(batch[i], rev)]

Reply(r, result, receipts, snapshot, acc) ==
  req' = [req EXCEPT ![r] = [Idle EXCEPT
            !.phase = "replied", !.account = req[r].account,
            !.batch = req[r].batch, !.result = result,
            !.receipts = receipts, !.draft = snapshot, !.access = acc]]

GoTo(r, phase) == req' = [req EXCEPT ![r].phase = phase]

-----------------------------------------------------------------------------
(* POST /api/sync. *)

UnchangedStore == UNCHANGED <<store, access, backup>>

\* A request arrives.
Receive(r, a, batch) ==
  /\ req[r].phase = "idle"
  /\ req' = [req EXCEPT ![r] = [Idle EXCEPT
               !.phase = "received", !.account = a, !.batch = batch]]
  /\ UnchangedStore

\* authenticate: the session of an account that is not active is no session.
Authenticate(r) ==
  /\ req[r].phase = "received"
  /\ IF active[req[r].account]
     THEN GoTo(r, "admit")
     ELSE Reply(r, "unauthenticated", << >>, EmptySnapshot, NoAccess)
  /\ UnchangedStore

\* One basis for the whole batch: the one its commands carry, or the current
\* one when none of them carries any.
UniformBasis(batch) ==
  \A i, j \in DOMAIN batch : batch[i].basis = batch[j].basis

BasisOf(batch, a) ==
  IF batch = << >> \/ batch[1].basis = NoBasis
  THEN CurrentBasis(a) ELSE batch[1].basis

\* The first loadAuthorized of the route.  Without a row the route tries to
\* initialize the workspace, which a backed-up or deleted one refuses, and
\* answers 404 (401 when the account was disabled meanwhile).
Admit(r) ==
  LET a == req[r].account
      batch == req[r].batch
  IN
  /\ req[r].phase = "admit"
  /\ \/ /\ ~CanRead(a)
        /\ Reply(r, IF active[a] THEN "notFound" ELSE "inactive", << >>,
                 EmptySnapshot, NoAccess)
     \/ /\ CanRead(a) /\ ~UniformBasis(batch)
        /\ Reply(r, "invalid", << >>, EmptySnapshot, NoAccess)
     \/ /\ CanRead(a) /\ UniformBasis(batch)
        /\ role[a] = "viewer" /\ batch # << >>
        /\ Reply(r, "write", AllRejected(batch, store.rev), EmptySnapshot,
                 AccessOf(a))
     \/ /\ CanRead(a) /\ UniformBasis(batch)
        /\ role[a] # "viewer" \/ batch = << >>
        /\ req' = [req EXCEPT ![r].phase = "load",
                              ![r].basis = BasisOf(batch, a)]
  /\ UnchangedStore

\* authorizedSnapshot: snapshot and authorization come from one statement.
Load(r) ==
  LET a == req[r].account
      batch == req[r].batch
      why == Failure(AccessOf(a), req[r].basis)
  IN
  /\ req[r].phase = "load"
  /\ \/ /\ ~CanRead(a)
        /\ GoTo(r, "refusal")
     \/ /\ CanRead(a) /\ batch # << >> /\ why # "ok"
        /\ Reply(r, why, AllRejected(batch, store.rev), EmptySnapshot,
                 AccessOf(a))
     \/ /\ CanRead(a) /\ (batch = << >> \/ why = "ok")
        /\ req' = [req EXCEPT ![r].phase = "apply", ![r].base = store,
                              ![r].draft = store, ![r].receipts = << >>]
  /\ UnchangedStore

\* The row was gone: a second statement finds out why, and when that one sees
\* nothing wrong any more the answer is still a refusal.
RefusalRead(r) ==
  LET acc == AccessOf(req[r].account)
      why == Failure(acc, req[r].basis)
  IN
  /\ req[r].phase = "refusal"
  /\ Reply(r, IF why = "ok" THEN "revoked" ELSE why,
           AllRejected(req[r].batch, 0), EmptySnapshot, acc)
  /\ UnchangedStore

\* One command of the batch, on the draft.
ApplyNext(r) ==
  LET q       == req[r]
      done    == Len(q.receipts)
      c       == q.batch[done + 1]
      verdict == Verdict(q.draft, c, q.base.rev, done, q.account)
      after   == AfterVerdict(q.draft, c, verdict, q.account)
  IN
  /\ q.phase = "apply"
  /\ done < Len(q.batch)
  /\ req' = [req EXCEPT ![r].draft = after,
                        ![r].receipts = Append(@, ReceiptOf(c, verdict, after))]
  /\ UnchangedStore

\* Mutation of BatchDone: a batch ends only after a command.
BatchDoneAfterOne(q) == q.receipts # << >> /\ Len(q.receipts) = Len(q.batch)

BatchDone(q) == Len(q.receipts) = Len(q.batch)

\* Nothing applied: nothing is written.
FinishBatch(r) ==
  /\ req[r].phase = "apply"
  /\ BatchDone(req[r])
  /\ GoTo(r, IF \E i \in DOMAIN req[r].receipts :
                  req[r].receipts[i].status = "applied"
             THEN "swap" ELSE "answer")
  /\ UnchangedStore

\* Mutation of SwapWins: the revision is not compared.
SwapAlwaysWins(r, roles) == MayCommit(req[r].account, req[r].basis, roles)

\* The WHERE clause of the statement that writes a snapshot.
SwapWins(r, roles) ==
  /\ store.rev = req[r].base.rev
  /\ MayCommit(req[r].account, req[r].basis, roles)

\* compareAndSwapAuthorized.
Swap(r) ==
  LET wins == SwapWins(r, Writers) IN
  /\ req[r].phase = "swap"
  /\ store' = IF wins THEN Install(store, req[r].base, req[r].draft) ELSE store
  /\ GoTo(r, IF wins THEN "answer" ELSE "recheck")
  /\ UNCHANGED <<access, backup>>

\* snapshotGrowthRefusal around the same statement: the circuit for snapshot
\* growth or the owner's storage limit refuses the write.
SwapPaused(r) ==
  /\ req[r].phase = "swap"
  /\ Reply(r, "paused", << >>, EmptySnapshot, NoAccess)
  /\ UnchangedStore

\* The swap lost: refused access ends the request, anything else retries.
Recheck(r) ==
  LET acc == AccessOf(req[r].account)
      why == Failure(acc, req[r].basis)
      last == req[r].attempt + 1 >= MaxAttempts
  IN
  /\ req[r].phase = "recheck"
  /\ \/ /\ why # "ok"
        /\ Reply(r, why, RejectedExceptDuplicates(req[r].batch,
                   req[r].base.rev, req[r].receipts), EmptySnapshot, acc)
     \/ /\ why = "ok" /\ last
        /\ Reply(r, "busy", << >>, EmptySnapshot, NoAccess)
     \/ /\ why = "ok" /\ ~last
        /\ req' = [req EXCEPT ![r].phase = "load",
                              ![r].attempt = req[r].attempt + 1]
  /\ UnchangedStore

\* The answer carries the snapshot as it is now, not as it was swapped in.
Answer(r) ==
  LET a == req[r].account IN
  /\ req[r].phase = "answer"
  /\ IF CanRead(a)
     THEN Reply(r, "ok", req[r].receipts, store, AccessOf(a))
     ELSE GoTo(r, "vanished")
  /\ UnchangedStore

\* Access ended between the swap and the answer: a refusal that carries the
\* receipts of what was written.
Vanished(r) ==
  LET acc == AccessOf(req[r].account) IN
  /\ req[r].phase = "vanished"
  /\ Reply(r, CASE ~acc.active -> "inactive"
                [] acc.active /\ acc.deleted -> "deleted"
                [] OTHER -> "revoked", req[r].receipts, EmptySnapshot, acc)
  /\ UnchangedStore

\* The caller has its answer, or the connection or the server process is
\* gone: the request's memory goes, the stored rows stay.
Close(r) ==
  /\ req[r].phase # "idle"
  /\ req' = [req EXCEPT ![r] = Idle]
  /\ UnchangedStore

-----------------------------------------------------------------------------
(* PUT /api/snapshot: an owner replaces the snapshot by a backup. *)

\* A portable backup of the current snapshot leaves the system.
Export ==
  /\ ~deleted
  /\ backup' = [val |-> store.val, ledger |-> store.ledger]
  /\ backup' # backup
  /\ UNCHANGED <<store, access, req>>

\* What a restore puts in the place of base.
RestoreOf(base, a) ==
  [rev    |-> base.rev + 1,
   val    |-> backup.val,
   ledger |-> backup.ledger,
   log    |-> Append(base.log,
     [id |-> Restored, by |-> a, sets |-> backup.val,
      expect |-> [f \in {} |-> Blank]])]

\* The owner previewed the snapshot as it is now and confirms the restore.
ReceiveRestore(r, a) ==
  /\ req[r].phase = "idle"
  /\ CanRead(a)
  /\ req' = [req EXCEPT ![r] = [Idle EXCEPT
               !.phase = "restore", !.account = a, !.basis = CurrentBasis(a),
               !.base = store, !.draft = RestoreOf(store, a)]]
  /\ UnchangedStore

LoadRestore(r) ==
  LET a == req[r].account IN
  /\ req[r].phase = "restore"
  /\ IF CanRead(a) /\ role[a] = "owner" /\ store.rev = req[r].base.rev
     THEN GoTo(r, "restoreSwap")
     ELSE Reply(r, "notRestored", << >>, EmptySnapshot, AccessOf(a))
  /\ UnchangedStore

\* restoreOwnedWorkspace.
SwapRestore(r) ==
  LET wins == SwapWins(r, {"owner"}) IN
  /\ req[r].phase = "restoreSwap"
  /\ store' = IF wins THEN Install(store, req[r].base, req[r].draft) ELSE store
  /\ Reply(r, IF wins THEN "restored" ELSE "notRestored", << >>,
           EmptySnapshot, AccessOf(req[r].account))
  /\ UNCHANGED <<access, backup>>

-----------------------------------------------------------------------------
Init ==
  /\ AccessInit
  /\ store = EmptySnapshot
  /\ backup = [val |-> EmptySnapshot.val, ledger |-> EmptySnapshot.ledger]
  /\ req = [r \in Request |-> Idle]

\* The steps of a handler between its arrival and its answer.
Handle(r) ==
  \/ Authenticate(r) \/ Admit(r) \/ Load(r) \/ RefusalRead(r)
  \/ ApplyNext(r) \/ FinishBatch(r) \/ Swap(r) \/ Recheck(r)
  \/ Answer(r) \/ Vanished(r) \/ LoadRestore(r) \/ SwapRestore(r)

Arrive(r, a) ==
  /\ Len(store.log) < MaxLog
  /\ \/ \E batch \in Batch : Receive(r, a, batch)
     \/ ReceiveRestore(r, a)

Next ==
  \/ \E r \in Request :
       \/ \E a \in Account : Arrive(r, a)
       \/ Handle(r) \/ SwapPaused(r) \/ Close(r)
  \/ Export
  \/ ChangeAccess /\ UNCHANGED <<store, backup, req>>

Spec == Init /\ [][Next]_vars

\* A handler that started runs on, as the server's event loop lets it.
Fairness == \A r \in Request : WF_vars(Handle(r))

FairSpec == Spec /\ Fairness

-----------------------------------------------------------------------------
(* Properties. *)

\* The compare-and-swap serializes concurrent batches and restores: the stored
\* values are what everything that was ever committed makes them, in commit
\* order, and the revision counts those commits.  No update is lost.
StoreExplainedByLog == ExplainedByLog(store)

\* No accepted command overwrote a value its author had not seen, however many
\* requests raced (expectationConflicts, checked again on every retry).
NoBlindOverwrite == ExpectationsHeld(store)

\* A command sent again is not applied again while the snapshot remembers it
\* (wasApplied with the retention of compactWorkspaceHistory).
AppliedOnce == OnceWithinWindow(store)

\* The receipts of an answer are true of the stored history whatever happened
\* between the swap and the answer: an "applied" receipt names the place of
\* the caller's entry in the log, a "duplicate" one an entry already in it, and
\* the snapshot that comes with them is not older than they are.
ReceiptsAreTrue ==
  \A r \in Request :
    LET q == req[r] IN
    q.phase = "replied" =>
      \A i \in DOMAIN q.receipts :
        LET rc == q.receipts[i] IN
        /\ q.result = "ok" => rc.rev <= q.draft.rev
        /\ rc.status = "applied" =>
             /\ rc.rev \in DOMAIN store.log
             /\ store.log[rc.rev].id = rc.id
             /\ store.log[rc.rev].by = q.account
        /\ rc.status = "duplicate" =>
             \E k \in 1..rc.rev : k \in DOMAIN store.log /\ store.log[k].id = rc.id

\* Whatever the access races, the server keeps the promise of EditLog: the log
\* is only extended, atomically, by an account that may write at the instant
\* of the commit, and a deleted workspace never changes or comes back.
Promise == INSTANCE EditLog WITH log <- store.log
KeepsPromise == Promise!Spec

\* The invariant behind these promises.  What a handler holds in memory never
\* gets ahead of what was stored: its base is a past state of the store, and
\* its draft adds to that base only entries that would be right if they were
\* committed on it.  So when the swap finds the revision of the base, it
\* stores exactly the draft.
Drafting(q)  == q.phase \in {"apply", "swap"}
Restoring(q) == q.phase \in {"restore", "restoreSwap"}

Drafted(q) ==
  (Drafting(q) \/ Restoring(q)) =>
    /\ Consistent(q.base) /\ Consistent(q.draft)
    /\ Continues(q.draft.log, q.base.log)

OwnEdits(q) ==
  Drafting(q) =>
    /\ \A k \in (Len(q.base.log) + 1)..Len(q.draft.log) :
         q.draft.log[k].by = q.account /\ q.draft.log[k].id # Restored
    /\ (\/ q.phase = "swap"
        \/ \E i \in DOMAIN q.receipts : q.receipts[i].status = "applied")
          => Len(q.draft.log) > Len(q.base.log)

OwnRestore(q) ==
  Restoring(q) =>
    /\ Len(q.draft.log) = Len(q.base.log) + 1
    /\ LET e == q.draft.log[Len(q.draft.log)] IN
       e.id = Restored /\ e.by = q.account /\ DOMAIN e.sets = Field

DraftsFollowStore ==
  \A r \in Request :
    /\ Drafted(req[r]) /\ OwnEdits(req[r]) /\ OwnRestore(req[r])
    /\ Drafting(req[r]) \/ Restoring(req[r])
         => Continues(store.log, req[r].base.log)

\* Every request that arrives is answered or lost with its connection: the
\* retry loop of synchronize is bounded.
EveryRequestEnds ==
  \A r \in Request :
    req[r].phase = "received" ~> req[r].phase \in {"replied", "idle"}
=============================================================================
