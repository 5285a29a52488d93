--------------------------- MODULE AccessDeployment ---------------------------
(***************************************************************************)
(* scripts/cloudflare-access.mjs putting the desired Access resources in   *)
(* place, one request at a time, with a private snapshot file from which a *)
(* later run rolls back.  A run may stop at every await (refusal, failed   *)
(* request, lost answer, full disk, kill); its files and what it did to    *)
(* the account stay.  Meanwhile other people change the account in the     *)
(* dashboard, and what is read lags behind what was written.               *)
(***************************************************************************)
EXTENDS AccessInventory

CONSTANTS
  Order,        \* Key in the order in which kinds and keys are applied
  Path,         \* snapshot files, numbered in the order they are asked for
  ReadLimit,    \* POST_MUTATION_VERIFICATION_READ_LIMIT
  MaxRuns,      \* bound on commands
  MaxOthers,    \* bound on changes by other people
  noId

ASSUME DeploymentAssumption ==
  /\ Order \in Seq(Key)
  /\ \A k \in Key : \E a \in 1..Len(Order) : Order[a] = k
  /\ \A a, b \in 1..Len(Order) : Order[a] = Order[b] => a = b
  /\ \A a, b \in 1..Len(Order) : Order[a] \in Needs[Order[b]] => a < b
  /\ Path \subseteq Nat
  /\ ReadLimit \in Nat \ {0} /\ MaxRuns \in Nat /\ MaxOthers \in Nat
  /\ noId \notin Id

VARIABLES
  remote,   \* the account as it is
  seen,     \* the account as reads show it
  file,     \* the snapshot files that are whole
  partial,  \* the paths of those that are there but empty or cut short
  temp,     \* the "<path>.next" files
  run,      \* the command that is running
  runs,     \* commands started
  others,   \* changes made by other people
  touched,  \* ids other people ever changed (history variable)
  moved,    \* ids they changed since the run began (history variable)
  did       \* the last request made for a resource under a file (history variable)

vars == <<remote, seen, file, partial, temp, run, runs, others, touched, moved, did>>

States == {"not_started", "pending", "applied", "rolled_back"}

Record == [id : Id \cup {noId}, before : Resource, created : Id \cup {noId},
           after : Resource, state : States,
           deps : SUBSET [id : Id, was : Resource]]
Snapshot == [Key -> Record]
NoSnapshot == << >>

IdleReading == [mfa |-> TRUE, res |-> [i \in Id |-> Absent]]

Idle == [cmd |-> "none", path |-> 0, step |-> "idle", at |-> 0, then |-> "idle",
         state |-> IdleReading, snap |-> NoSnapshot, target |-> noId, reads |-> 0]

Steps == {"idle", "plan", "write", "choose", "send", "verify", "saving", "done",
          "back", "undo", "recheck"}

n == Len(Order)
K == Order[run.at]

Command ==
  [cmd : {"none", "apply", "rollback"}, path : Path \cup {0}, step : Steps,
   at : 0..n + 1, then : Steps, state : Reading,
   snap : Snapshot \cup {NoSnapshot}, target : Id \cup {noId},
   reads : 0..ReadLimit]

TypeOK ==
  /\ remote \in Reading /\ seen \in Reading
  /\ file \in [Path -> Snapshot \cup {NoSnapshot}]
  /\ partial \subseteq Path /\ temp \in [Path -> BOOLEAN]
  /\ run \in Command
  /\ touched \subseteq Id /\ moved \subseteq Id
  /\ did \in [Path -> [Id -> {"nothing", "apply", "undo"}]]

-----------------------------------------------------------------------------
(* The account. *)

OthersSee == UNCHANGED <<file, partial, temp, run, runs, did, seen>>

\* Other people use the dashboard: a resource gets other settings, an unmanaged
\* application appears or attaches something, what nobody uses is removed, the
\* organization's guard is lifted.
ChangeByOthers ==
  /\ others < MaxOthers /\ others' = others + 1 /\ OthersSee
  /\ \/ \E i \in Present(remote) :
          /\ \/ remote' = [remote EXCEPT !.res[i].body = "other"]
             \/ /\ IdKind[i] = "application"
                /\ \E e \in Extra : remote' = [remote EXCEPT !.res[i].extra = e]
             \/ /\ \A x \in Present(remote) : i \notin remote.res[x].uses
                /\ remote' = [remote EXCEPT !.res[i] = Absent]
             \/ /\ IdKind[i] = "application" /\ Fits[i] = noKey
                /\ \E j \in Present(remote) :
                     /\ IdKind[j] # "application"
                     /\ remote' = [remote EXCEPT !.res[i].uses = @ \cup {j}]
          /\ touched' = touched \cup {i} /\ moved' = moved \cup {i}
     \/ \E x \in Id \ Present(remote) :
          /\ IdKind[x] = "application" /\ Fits[x] = noKey
          /\ \E j \in OfKind(remote, "identity_provider") :
               remote' = [remote EXCEPT !.res[x] =
                            [body |-> "old", extra |-> DefaultExtra, uses |-> {j}]]
          /\ touched' = touched \cup {x} /\ moved' = moved \cup {x}
     \/ /\ remote' = [remote EXCEPT !.mfa = FALSE]
        /\ UNCHANGED <<touched, moved>>

\* A read shows a written resource at last.
Settle(i) ==
  /\ run.cmd # "none"
  /\ seen.res[i] # remote.res[i] \/ seen.mfa # remote.mfa
  /\ seen' = [seen EXCEPT !.res[i] = remote.res[i], !.mfa = remote.mfa]
  /\ UNCHANGED <<remote, file, partial, temp, run, runs, others, touched, moved, did>>

\* The account is as it was, and no file was created.
Account == UNCHANGED <<remote, seen, others, touched, partial>>

-----------------------------------------------------------------------------
(* Files. *)

\* A snapshot file exists, whole or not.
Exists(p) == file[p] # NoSnapshot \/ p \in partial

\* snapshotRecord
NewSnapshot(s) ==
  [k \in Key |->
     [id |-> IF Found(s, k) = {} THEN noId ELSE IdOf(s, k),
      before |-> IF Found(s, k) = {} THEN Absent ELSE s.res[IdOf(s, k)],
      created |-> noId, after |-> Absent, state |-> "not_started",
      deps |-> Dependencies(s, k)]]

\* replacePrivateJson, the temporary file: it must not exist yet.
BeginSave(next) ==
  /\ ~temp[run.path]
  /\ temp' = [temp EXCEPT ![run.path] = TRUE]
  /\ run' = [next EXCEPT !.step = "saving"]
  /\ UNCHANGED file

\* replacePrivateJson, the rename.
EndSave ==
  /\ run.step = "saving"
  /\ file' = [file EXCEPT ![run.path] = run.snap]
  /\ temp' = [temp EXCEPT ![run.path] = FALSE]
  /\ run' = [run EXCEPT !.step = run.then]
  /\ Account /\ UNCHANGED <<runs, moved, did>>

\* A refusal, a failure or a crash: whatever the run knew is gone.
Stop ==
  /\ run.cmd # "none"
  /\ run' = Idle
  /\ Account /\ UNCHANGED <<file, temp, runs, moved, did>>

Goto(step) == run' = [run EXCEPT !.step = step]

-----------------------------------------------------------------------------
(* apply *)

\* An operator starts a command: reads show what was written long ago.
Begin ==
  /\ run.cmd = "none" /\ runs < MaxRuns /\ runs' = runs + 1
  /\ seen' = remote /\ moved' = {}
  /\ UNCHANGED <<remote, file, partial, temp, others, touched, did>>

\* main: everything is read.
BeginApply(p) ==
  /\ Begin
  /\ ~Exists(p) /\ \A q \in Path : q < p => Exists(q)
  /\ run' = [Idle EXCEPT !.cmd = "apply", !.path = p, !.step = "plan", !.state = remote]

\* writeNewPrivateJson, the open: the file must not exist yet, and has nothing
\* in it.
OpenSnapshot ==
  /\ run.step = "plan" /\ ~Refuses(run.state)
  /\ ~Exists(run.path)
  /\ partial' = partial \cup {run.path}
  /\ Goto("write")
  /\ UNCHANGED <<remote, seen, others, touched, file, temp, runs, moved, did>>

\* writeNewPrivateJson, the end of the write: the new file keeps what will be
\* changed.
WriteSnapshot ==
  /\ run.step = "write"
  /\ file' = [file EXCEPT ![run.path] = NewSnapshot(run.state)]
  /\ partial' = partial \ {run.path}
  /\ run' = [run EXCEPT !.step = "choose", !.at = 1, !.snap = NewSnapshot(run.state)]
  /\ UNCHANGED <<remote, seen, others, touched, temp, runs, moved, did>>

\* assertResourceStillMatchesSnapshot
StillAsRecorded(k) ==
  IF run.snap[k].before = Absent THEN Found(run.state, k) = {}
  ELSE /\ run.snap[k].id \in Found(run.state, k)
       /\ run.state.res[run.snap[k].id] = run.snap[k].before

\* Mutation of Choose: the request is made before it is recorded.
ChooseUnrecorded ==
  /\ run.step = "choose" /\ run.at <= n /\ ~Refuses(run.state)
  /\ \/ /\ PlanFor(run.state, K) = "current"
        /\ run' = [run EXCEPT !.at = @ + 1] /\ UNCHANGED <<file, temp>>
     \/ /\ PlanFor(run.state, K) # "current" /\ StillAsRecorded(K)
        /\ run' = [run EXCEPT !.snap[K].state = "pending", !.step = "send"]
        /\ UNCHANGED <<file, temp>>
  /\ Account /\ UNCHANGED <<runs, moved, did>>

\* applyResourceKind: the next resource that is not in place is recorded as
\* pending before anything is asked of the account.
Choose ==
  /\ run.step = "choose" /\ run.at <= n /\ ~Refuses(run.state)
  /\ \/ /\ PlanFor(run.state, K) = "current"
        /\ run' = [run EXCEPT !.at = @ + 1] /\ UNCHANGED <<file, temp>>
     \/ /\ PlanFor(run.state, K) # "current" /\ StillAsRecorded(K)
        /\ BeginSave([run EXCEPT !.snap[K].state = "pending", !.then = "send"])
  /\ Account /\ UNCHANGED <<runs, moved, did>>

\* The request.  A payload that names a resource without id is refused, an
\* update of what is gone as well; the answer may be lost (Stop).
Send ==
  /\ run.step = "send" /\ ~Unresolved(run.state, K)
  /\ \E i \in Id :
       /\ IF Found(run.state, K) = {}
          THEN Fits[i] = K /\ remote.res[i] = Absent /\ seen.res[i] = Absent
               /\ i \notin touched
          ELSE i = IdOf(run.state, K) /\ remote.res[i] # Absent
       /\ remote' = [remote EXCEPT !.res[i] = Payload(run.state, K)]
       /\ run' = [run EXCEPT !.step = "verify", !.target = i, !.reads = 0]
       /\ did' = [did EXCEPT ![run.path][i] = "apply"]
  /\ UNCHANGED <<seen, file, partial, temp, runs, others, touched, moved>>

\* verifyMutationAfterWrite: a read that shows the payload, among the first few.
Verify ==
  LET ok   == seen.res[run.target] = Payload(run.state, K)
      made == Found(run.state, K) = {}
  IN
  /\ run.step = "verify"
  /\ \/ /\ ok
        /\ BeginSave([run EXCEPT !.state = seen, !.at = @ + 1, !.then = "choose",
             !.snap[K] = [@ EXCEPT !.created = IF made THEN run.target ELSE noId,
                                   !.after = seen.res[run.target],
                                   !.state = "applied"]])
     \/ /\ ~ok /\ run.reads + 1 < ReadLimit
        /\ run' = [run EXCEPT !.reads = @ + 1] /\ UNCHANGED <<file, temp>>
  /\ Account /\ UNCHANGED <<runs, moved, did>>

\* The last plan finds nothing to do; the digests are taken once more.
Conclude ==
  /\ run.step = "choose" /\ run.at = n + 1
  /\ ~Refuses(run.state) /\ InPlace(run.state)
  /\ BeginSave([run EXCEPT !.then = "done",
       !.snap = [k \in Key |->
          IF run.snap[k].state # "applied" THEN run.snap[k]
          ELSE [run.snap[k] EXCEPT !.after = run.state.res[IdOf(run.state, k)]]]])
  /\ Account /\ UNCHANGED <<runs, moved, did>>

-----------------------------------------------------------------------------
(* rollback *)

\* readRollbackSnapshot: what the records of a snapshot must say to be read.
Readable(recs) ==
  \A k \in Key :
    LET rec == recs[k] IN
    /\ (rec.before = Absent) = (rec.id = noId)
    /\ rec.before # Absent => rec.created = noId
    /\ rec.state \in {"applied", "rolled_back"} =>
         rec.after # Absent /\ (rec.before = Absent => rec.created # noId)
    /\ rec.state \in {"not_started", "pending"} =>
         rec.created = noId /\ rec.after = Absent

Unfinished(recs) == \E k \in Key : recs[k].state \in {"pending", "applied"}

\* Mutation of BeginRollback: the last key is left out.
BeginRollbackShort(p) ==
  /\ Begin
  /\ file[p] # NoSnapshot /\ Readable(file[p])
  /\ \A k \in Key : file[p][k].state # "pending"
  /\ \A q \in Path : (q > p /\ file[q] # NoSnapshot) => ~Unfinished(file[q])
  /\ run' = [Idle EXCEPT !.cmd = "rollback", !.path = p, !.step = "back", !.at = n - 1,
                         !.state = remote, !.snap = file[p]]

\* rollbackAccessPlan: an uncertain snapshot, or one cut short, is refused.
\* Operators roll back the newest snapshot first.
BeginRollback(p) ==
  /\ Begin
  /\ file[p] # NoSnapshot /\ Readable(file[p])
  /\ \A k \in Key : file[p][k].state # "pending"
  /\ \A q \in Path : (q > p /\ file[q] # NoSnapshot) => ~Unfinished(file[q])
  /\ run' = [Idle EXCEPT !.cmd = "rollback", !.path = p, !.step = "back", !.at = n,
                         !.state = remote, !.snap = file[p]]

Target(rec) == IF rec.created # noId THEN rec.created ELSE rec.id

\* Mutation of StatusOf: what is there now is not compared.
StatusWithoutDigest(s, rec) ==
  IF rec.state \in {"not_started", "rolled_back"} THEN "skip"
  ELSE IF s.res[Target(rec)] = rec.before THEN "already" ELSE "needs"

\* verifyRollbackRecord
StatusOf(s, rec) ==
  IF rec.state \in {"not_started", "rolled_back"} THEN "skip"
  ELSE LET now == s.res[Target(rec)] IN
       CASE now = Absent /\ rec.before = Absent -> "already"
         [] now = Absent /\ rec.before # Absent -> "refuse"
         [] now # Absent /\ now = rec.after -> "needs"
         [] now # Absent /\ now # rec.after /\ rec.before # Absent
              /\ now = rec.before -> "already"
         [] OTHER -> "refuse"

\* verifyApplicationDependencies: what the application used before is as it
\* was, or as this snapshot's own run left it.
DependenciesHold(s, recs, rec) ==
  \A d \in rec.deps :
    /\ s.res[d.id] # Absent
    /\ \/ s.res[d.id] = d.was
       \/ \E k \in Key : /\ recs[k].id = d.id \/ recs[k].created = d.id
                         /\ recs[k].state = "applied" /\ recs[k].after = s.res[d.id]

\* verifyApplicationRestoreOverlap: nobody else took the former paths.
PathsAreFree(s, rec) == ~Overlaps(s, rec.before.body)

MayRestore(s, recs, k) ==
  (KindOf[k] = "application" /\ recs[k].before # Absent) =>
    DependenciesHold(s, recs, recs[k]) /\ PathsAreFree(s, recs[k])

\* A created policy is deleted when no application uses it, a created provider
\* when every application chose others.
MayDelete(s, rec, k) ==
  (rec.before = Absent /\ KindOf[k] # "application") =>
    \A x \in OfKind(s, "application") :
      /\ Target(rec) \notin s.res[x].uses
      /\ KindOf[k] = "identity_provider" => Providers(s, x) # {}

RolledBack(next, k) ==
  BeginSave([next EXCEPT !.snap[k].state = "rolled_back", !.at = @ - 1,
                         !.then = "back"])

\* rollbackKind, up to the request.
Back ==
  LET rec == run.snap[K]
      status == StatusOf(run.state, rec)
  IN
  /\ run.step = "back" /\ run.at >= 1
  /\ \/ /\ status = "skip"
        /\ run' = [run EXCEPT !.at = @ - 1] /\ UNCHANGED <<file, temp>>
     \/ /\ status = "already" /\ MayRestore(run.state, run.snap, K)
        /\ RolledBack(run, K)
     \/ /\ status = "needs" /\ MayRestore(run.state, run.snap, K)
        /\ MayDelete(run.state, rec, K)
        /\ Goto("undo") /\ UNCHANGED <<file, temp>>
  /\ Account /\ UNCHANGED <<runs, moved, did>>

\* The request: the former payload, or the removal of what was created.
Undo ==
  LET i == Target(run.snap[K]) IN
  /\ run.step = "undo" /\ remote.res[i] # Absent
  /\ remote' = [remote EXCEPT !.res[i] = run.snap[K].before]
  /\ run' = [run EXCEPT !.step = "recheck"]
  /\ did' = [did EXCEPT ![run.path][i] = "undo"]
  /\ UNCHANGED <<seen, file, partial, temp, runs, others, touched, moved>>

\* One read must show it undone.
Recheck ==
  /\ run.step = "recheck"
  /\ StatusOf(seen, run.snap[K]) = "already"
  /\ RolledBack([run EXCEPT !.state = seen], K)
  /\ Account /\ UNCHANGED <<runs, moved, did>>

Finished ==
  /\ run.step = "back" /\ run.at = 0
  /\ Goto("done")
  /\ Account /\ UNCHANGED <<file, temp, runs, moved, did>>

-----------------------------------------------------------------------------
\* Before the first command: what is desired is missing or as it was in an
\* older design, the application uses legacy resources (fitting nothing).
Init ==
  /\ \E there \in SUBSET Id :
       /\ \A k \in Key : Cardinality({i \in there : Fits[i] = k}) <= 1
       /\ {i \in Id : Fits[i] = noKey /\ IdKind[i] # "application"} \subseteq there
       /\ \A i \in there : IdKind[i] = "application" => Fits[i] # noKey
       /\ remote = [mfa |-> TRUE, res |-> [i \in Id |->
            IF i \notin there THEN Absent
            ELSE [body |-> "old", extra |-> DefaultExtra,
                  uses |-> IF IdKind[i] # "application" THEN {}
                           ELSE {j \in Id : Fits[j] = noKey /\ IdKind[j] # "application"}]]]
  /\ seen = remote
  /\ file = [p \in Path |-> NoSnapshot] /\ partial = {}
  /\ temp = [p \in Path |-> FALSE]
  /\ run = Idle /\ runs = 0 /\ others = 0
  /\ touched = {} /\ moved = {}
  /\ did = [p \in Path |-> [i \in Id |-> "nothing"]]

Next ==
  \/ ChangeByOthers
  \/ \E i \in Id : Settle(i)
  \/ \E p \in Path : BeginApply(p) \/ BeginRollback(p)
  \/ OpenSnapshot \/ WriteSnapshot \/ Choose \/ Send \/ Verify \/ Conclude
  \/ Back \/ Undo \/ Recheck \/ Finished
  \/ EndSave \/ Stop

Spec == Init /\ [][Next]_vars

-----------------------------------------------------------------------------
(* Properties. *)

\* What a record says of a resource that answers to its key, if it is true: what
\* is not started was never asked for, what is pending was not taken back, what
\* is applied or rolled back names the one resource that was changed, and what is
\* rolled back is not as the run left it.
TellsOf(rec, done, i) ==
  /\ rec.state = "not_started" => done = "nothing"
  /\ rec.state = "pending" => done \in {"nothing", "apply"}
  /\ rec.state \in {"applied", "rolled_back"} => (done # "nothing") = (i = Target(rec))
  /\ rec.state = "rolled_back" /\ i = Target(rec) => done = "undo" \/ i \in touched

\* Whatever was interrupted, the file of a run tells what the run did to the
\* account, in a form rollback can read ("persists that resource as pending
\* before each remote write", docs/auth/cloudflare-access.md).  A file that was
\* cut short when it was created, which rollback cannot read, is of a run that
\* did nothing, and so is one that was never created.
FilesAreTrue ==
  \A p \in Path :
    IF file[p] = NoSnapshot \/ p \in partial
    THEN \A i \in Id : did[p][i] = "nothing"
    ELSE /\ Readable(file[p])
         /\ \A i \in Id : Fits[i] # noKey => TellsOf(file[p][Fits[i]], did[p][i], i)

\* The application is switched over only when what guards it is in place, and
\* switched back before that is taken away: in every interrupted state, an
\* application as desired has the desired providers and policies, in their
\* desired form, unless somebody else changed them.
CutoverIsReady ==
  \A i \in OfKind(remote, "application") :
    (Fits[i] # noKey /\ remote.res[i].body = "want" /\ i \notin touched) =>
      \A m \in Needs[Fits[i]] :
        \E j \in remote.res[i].uses :
          Fits[j] = m /\ (remote.res[j].body = "want" \/ j \in touched)

\* What a request overwrites or deletes is what the snapshot can bring back
\* (apply) or what the run of that snapshot had put there (rollback), unless
\* somebody changed it after the command began to read.
Known(k) == IF run.cmd = "apply" THEN run.snap[k].before ELSE run.snap[k].after

OverwritesOnlyKnown ==
  [][\A i \in Id :
       (Send \/ Undo) /\ remote'.res[i] # remote.res[i] =>
         \/ remote.res[i] = Known(K)
         \/ i \in moved]_vars

\* A rollback that reports success left every resource of its snapshot as it
\* was before the apply, unless somebody changed it meanwhile.
RollbackRestores ==
  (run.cmd = "rollback" /\ run.step = "done") =>
    \A i \in Id :
      did[run.path][i] # "nothing" =>
        i \in touched \/ remote.res[i] = run.snap[Fits[i]].before

=============================================================================
