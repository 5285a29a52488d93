--------------------------- MODULE DeploymentProofs ---------------------------
(***************************************************************************)
(* Proofs about AccessDeployment.  The properties compare an account other *)
(* people change, readings of it that lag behind, and files that were      *)
(* written before and after each request.                                  *)
(***************************************************************************)
EXTENDS AccessDeployment, TLAPS

-----------------------------------------------------------------------------
(* The inductive invariant. *)

\* What a step that is being saved leads to.
Stage == IF run.step = "saving" THEN run.then ELSE run.step

Applying == run.cmd = "apply" /\ run.step \notin {"plan", "write"}
Rolling  == run.cmd = "rollback"

\* Where the command is.
Flow ==
  /\ run.cmd = "none" <=> run.step = "idle"
  /\ run.cmd # "none" => run.path \in Path
  /\ run.cmd = "apply" => Stage \in {"plan", "write", "choose", "send", "verify", "done"}
  /\ Rolling => Stage \in {"back", "undo", "recheck", "done"}
  /\ run.cmd # "none" => (run.snap = NoSnapshot) = (run.step \in {"plan", "write"})
  /\ run.step \in {"plan", "write"} => file[run.path] = NoSnapshot
  /\ Stage \in {"send", "verify", "undo", "recheck"} => run.at \in 1..n
  /\ Applying => run.at # 0
  /\ Rolling => run.at # n + 1
  /\ Rolling /\ Stage = "done" => run.at = 0
  /\ run.step = "saving" => Stage \in {"choose", "send", "done", "back"}

\* A file comes after those with smaller numbers; an apply writes the newest; none
\* is both whole and cut short.
Newest ==
  /\ \A p, q \in Path : Exists(p) /\ q < p => Exists(q)
  /\ \A p \in partial : file[p] = NoSnapshot
  /\ run.cmd = "apply" => \A q \in Path : /\ q > run.path => ~Exists(q)
                                          /\ q < run.path => Exists(q)

\* The records name resources that answer to their keys, and are true.
True(recs, p) ==
  /\ Readable(recs)
  /\ \A k \in Key : /\ recs[k].id # noId => Fits[recs[k].id] = k
                    /\ recs[k].created # noId => Fits[recs[k].created] = k
  /\ \A i \in Id : Fits[i] # noKey => TellsOf(recs[Fits[i]], did[p][i], i)

SameBefore(recs, others2) ==
  \A k \in Key : recs[k].id = others2[k].id /\ recs[k].before = others2[k].before

Stored ==
  /\ \A p \in Path : \A i \in Id :
       file[p] = NoSnapshot \/ Fits[i] = noKey => did[p][i] = "nothing"
  /\ \A p \in Path : file[p] # NoSnapshot => True(file[p], p)
  /\ Applying \/ Rolling =>
       /\ file[run.path] # NoSnapshot
       /\ True(run.snap, run.path)
       /\ SameBefore(file[run.path], run.snap)
       /\ run.step # "saving" => file[run.path] = run.snap

\* What the command is about to write down as applied is so.
Kept ==
  Applying \/ Rolling =>
    \A i \in Id \ touched :
      did[run.path][i] = "apply" /\ run.snap[Fits[i]].state = "applied" =>
        remote.res[i] = run.snap[Fits[i]].after

\* The resource whose request has not been seen to work.
InFlight(i) ==
  \/ run.step = "verify" /\ i = run.target
  \/ run.step = "recheck" /\ i = Target(run.snap[K])

\* What nobody else changed is as the command has read it.
Fresh ==
  /\ moved \subseteq touched
  /\ run.cmd # "none" =>
       \A i \in Id \ moved :
         ~InFlight(i) => run.state.res[i] = remote.res[i] /\ seen.res[i] = remote.res[i]

Live(i) == \E p \in Path : did[p][i] = "apply"

\* The files tell the story of every resource nobody else changed: the last one
\* that changed it is the only one that may be applied; then it is as desired, as
\* that file says; otherwise it is as all of them found it.
LastApplies(i) ==
  \A p, q \in Path : did[p][i] = "apply" /\ did[q][i] # "nothing" => q <= p

Was(p, i) == file[p][Fits[i]].before

Told(p, i) ==
  /\ did[p][i] = "apply" /\ file[p][Fits[i]].state = "applied" =>
       remote.res[i] = file[p][Fits[i]].after
  /\ did[p][i] # "nothing" =>
       Was(p, i).body # "want" /\ (~Live(i) => remote.res[i] = Was(p, i))

Tale(i) ==
  /\ LastApplies(i)
  /\ (remote.res[i].body = "want") = Live(i)
  /\ \A p \in Path : Told(p, i)
  /\ \A p, q \in Path : did[p][i] # "nothing" /\ did[q][i] # "nothing" =>
       Was(p, i) = Was(q, i)

Story == \A i \in Id \ touched : Tale(i)

\* What is applied uses the resources of the keys it needs, applied no later.
Ready ==
  \A i \in Id \ touched : \A r \in Path : did[r][i] = "apply" =>
    /\ \A j \in remote.res[i].uses : Fits[j] \in Needs[Fits[i]]
    /\ \A m \in Needs[Fits[i]] :
         \E j \in remote.res[i].uses :
           Fits[j] = m /\ (j \in touched \/ \E p \in Path : p <= r /\ did[p][j] = "apply")

\* How far an apply is.
ApplyStates(a) ==
  IF a < run.at THEN {"not_started", "applied"}
  ELSE IF a = run.at /\ Stage \in {"send", "verify"} THEN {"pending"}
  ELSE {"not_started"}

Asked ==
  /\ run.target \in Id /\ Fits[run.target] = K
  /\ Found(run.state, K) = {} \/ run.target = IdOf(run.state, K)
  /\ \A i \in Id : Fits[i] = K => (did[run.path][i] = IF i = run.target THEN "apply" ELSE "nothing")
  /\ run.target \in moved \/ remote.res[run.target] = Payload(run.state, K)

ApplyGoes ==
  Applying =>
    /\ \A a \in 1..n : run.snap[Order[a]].state \in ApplyStates(a)
    /\ \A a \in 1..n : a < run.at =>
         \A j \in Found(run.state, Order[a]) : j \in touched \/ Live(j)
    /\ Stage \in {"send", "verify"} =>
         ~Refuses(run.state) /\ StillAsRecorded(K) /\ PlanFor(run.state, K) # "current"
    /\ Stage = "send" => \A i \in Id : Fits[i] = K => did[run.path][i] = "nothing"
    /\ Stage = "verify" => Asked

\* How far a rollback is.
RollbackStates(a) ==
  IF a > run.at THEN {"not_started", "rolled_back"}
  ELSE IF a = run.at /\ Stage \in {"undo", "recheck"} THEN {"applied"}
  ELSE {"not_started", "applied", "rolled_back"}

RollbackGoes ==
  Rolling =>
    /\ \A q \in Path : q > run.path =>
         \A i \in Id \ touched : did[q][i] # "apply"
    /\ \A a \in 1..n : run.snap[Order[a]].state \in RollbackStates(a)
    /\ Stage = "undo" => run.state.res[Target(run.snap[K])] = run.snap[K].after
    /\ Stage = "recheck" =>
         /\ did[run.path][Target(run.snap[K])] = "undo"
         /\ \/ Target(run.snap[K]) \in moved
            \/ remote.res[Target(run.snap[K])] = run.snap[K].before

Inv == /\ TypeOK /\ Flow /\ Newest /\ Stored /\ Kept /\ Fresh /\ Story /\ Ready
       /\ ApplyGoes /\ RollbackGoes

-----------------------------------------------------------------------------
(* Keys, records and readings. *)

\* The order of the keys is one in which a key comes once, after what it needs.
LEMMA OrderFacts ==
  /\ n \in Nat
  /\ \A a \in 1..n : Order[a] \in Key
  /\ \A k \in Key : \E a \in 1..n : Order[a] = k
  /\ \A a, b \in 1..n : Order[a] = Order[b] => a = b
  /\ \A a, b \in 1..n : Order[a] \in Needs[Order[b]] => a < b
BY DeploymentAssumption DEF n

\* A snapshot is not the absence of one.
LEMMA SnapshotIsSome == \A recs \in Snapshot : recs # NoSnapshot
<1>1. PICK k \in Key : TRUE
  BY InventoryAssumption DEF ValidConfig
<1>2. DOMAIN NoSnapshot = {}
  BY DEF NoSnapshot
<1> QED
  BY <1>1, <1>2 DEF Snapshot

\* What is not there is a value of a resource too.
LEMMA AbsentIsResource == Absent \in Resource /\ DefaultExtra \in Extra
BY InventoryAssumption DEF Absent, Resource, DefaultExtra

\* What is desired is there.
LEMMA PayloadFacts ==
  ASSUME NEW s \in Reading, NEW k \in Key
  PROVE  /\ Payload(s, k) \in Resource
         /\ Payload(s, k).body = "want"
         /\ Payload(s, k) # Absent
<1>1. \A m \in Key : Found(s, m) \subseteq Id
  BY DEF Found, Present
<1>2. Needs[k] \subseteq Key
  BY InventoryAssumption DEF ValidConfig
<1>3. \A i \in Id : s.res[i].extra \in Extra
  BY DEF Reading, Resource
<1>4. Found(s, k) # {} => IdOf(s, k) \in Id
  BY <1>1 DEF IdOf
<1> QED
  BY <1>1, <1>2, <1>3, <1>4, AbsentIsResource DEF Payload, Resource, Absent

\* A resource answers to a name when it is there and has that name.
LEMMA FoundFacts ==
  ASSUME NEW s, NEW k, NEW i \in Id
  PROVE  i \in Found(s, k) <=> s.res[i] # Absent /\ Fits[i] = k
BY DEF Found, Present

\* With one answer to a name, the answer is that one.
LEMMA OnlyAnswer ==
  ASSUME NEW s, NEW k \in Key, ~Refuses(s), NEW i \in Found(s, k)
  PROVE  IdOf(s, k) = i
BY DEF Refuses, Ambiguous, IdOf

\* The answer to a name, if there is one, is a resource that has the name.
LEMMA AnswerIsFound ==
  ASSUME NEW s, NEW k, Found(s, k) # {}
  PROVE  IdOf(s, k) \in Found(s, k) /\ IdOf(s, k) \in Id /\ Fits[IdOf(s, k)] = k
         /\ s.res[IdOf(s, k)] # Absent
BY DEF IdOf, Found, Present

\* The types of the fields of a record.
LEMMA RecordTypes ==
  ASSUME NEW recs \in Snapshot, NEW k \in Key
  PROVE  /\ recs[k] \in Record
         /\ recs[k].id \in Id \cup {noId} /\ recs[k].created \in Id \cup {noId}
         /\ recs[k].before \in Resource /\ recs[k].after \in Resource
         /\ recs[k].state \in States
BY DEF Snapshot, Record

\* What was applied is a resource that answers to the key.
LEMMA TargetFits ==
  ASSUME NEW recs \in Snapshot, NEW p, True(recs, p), NEW k \in Key,
         recs[k].state \in {"applied", "rolled_back"}
  PROVE  Target(recs[k]) \in Id /\ Fits[Target(recs[k])] = k /\ Fits[Target(recs[k])] # noKey
BY RecordTypes, InventoryAssumption, DeploymentAssumption DEF True, Readable, Target

\* A new snapshot is readable, and says that nothing was done yet.
LEMMA NewSnapshotFacts ==
  ASSUME NEW s \in Reading
  PROVE  /\ NewSnapshot(s) \in Snapshot
         /\ Readable(NewSnapshot(s))
         /\ \A k \in Key : /\ NewSnapshot(s)[k].state = "not_started"
                           /\ NewSnapshot(s)[k].created = noId
                           /\ NewSnapshot(s)[k].id # noId => Fits[NewSnapshot(s)[k].id] = k
<1>1. ASSUME NEW k \in Key
      PROVE  Dependencies(s, k) \in SUBSET [id : Id, was : Resource]
  <2>1. ASSUME Found(s, k) # {}
        PROVE  \A j \in s.res[IdOf(s, k)].uses : j \in Id /\ s.res[j] \in Resource
    BY <2>1, AnswerIsFound DEF Reading, Resource
  <2> QED
    BY <2>1 DEF Dependencies
<1>2. ASSUME NEW k \in Key, Found(s, k) # {}
      PROVE  s.res[IdOf(s, k)] \in Resource
  BY <1>2, AnswerIsFound DEF Reading
<1>3. \A k \in Key : NewSnapshot(s)[k] \in Record
  BY <1>1, <1>2, AnswerIsFound, AbsentIsResource DEF NewSnapshot, Record, States
<1>4. NewSnapshot(s) \in Snapshot
  BY <1>3 DEF NewSnapshot, Snapshot
<1>5. Readable(NewSnapshot(s))
  BY AnswerIsFound, DeploymentAssumption DEF NewSnapshot, Readable
<1> QED
  BY <1>4, <1>5, AnswerIsFound DEF NewSnapshot

-----------------------------------------------------------------------------
(* Types. *)

\* What is known between two commands is well typed.
LEMMA IdleTyped == Idle \in Command
<1>1. 0 \in 0..n + 1 /\ 0 \in 0..ReadLimit
  BY OrderFacts, DeploymentAssumption
<1>2. IdleReading \in Reading
  BY AbsentIsResource DEF IdleReading, Reading
<1> QED
  BY <1>1, <1>2 DEF Idle, Steps, Command

\* Initially the variables have their types.
LEMMA InitTypes == Init => TypeOK
<1> SUFFICES ASSUME Init PROVE TypeOK
  OBVIOUS
<1>1. remote \in Reading
  BY InventoryAssumption, AbsentIsResource DEF Init, Reading, Resource, Absent
<1>2. Idle \in Command
  BY IdleTyped
<1> QED
  BY <1>1, <1>2 DEF Init, TypeOK

\* The types of the variables, one by one.
LEMMA Typed ==
  ASSUME TypeOK
  PROVE  /\ remote \in Reading /\ seen \in Reading
         /\ \A i \in Id : remote.res[i] \in Resource /\ seen.res[i] \in Resource
                          /\ run.state.res[i] \in Resource
         /\ file \in [Path -> Snapshot \cup {NoSnapshot}]
         /\ \A p \in Path : file[p] # NoSnapshot => file[p] \in Snapshot
         /\ run.state \in Reading
         /\ run.snap # NoSnapshot => run.snap \in Snapshot
         /\ run.at \in 0..n + 1 /\ run.at \in Int
         /\ run.path \in Nat
         /\ n \in Nat /\ ReadLimit \in Nat \ {0}
<1>1. n \in Nat /\ ReadLimit \in Nat \ {0} /\ Path \subseteq Nat
  BY OrderFacts, DeploymentAssumption
<1>2. remote \in Reading /\ seen \in Reading /\ run.state \in Reading
  BY DEF TypeOK, Command
<1>3. \A s \in Reading : \A i \in Id : s.res[i] \in Resource
  BY DEF Reading
<1>4. run.at \in 0..n + 1 /\ run.path \in Path \cup {0}
  BY DEF TypeOK, Command
<1>5. /\ run.snap # NoSnapshot => run.snap \in Snapshot
      /\ file \in [Path -> Snapshot \cup {NoSnapshot}]
  BY DEF TypeOK, Command
<1>6. run.at \in Int
  BY <1>1, <1>4
<1>7. run.path \in Nat
  <2>1. \A p \in Path : p \in Nat
    BY <1>1, Zenon
  <2>2. CASE run.path = 0
    BY <2>2
  <2>3. CASE run.path \in Path
    BY <2>1, <2>3, Zenon
  <2> QED
    BY <1>4, <2>2, <2>3, Zenon
<1>8. \A p \in Path : file[p] # NoSnapshot => file[p] \in Snapshot
  BY <1>5
<1>9. \A i \in Id : remote.res[i] \in Resource /\ seen.res[i] \in Resource
                          /\ run.state.res[i] \in Resource
  BY <1>2, <1>3
<1> QED
  BY <1>1, <1>2, <1>4, <1>5, <1>6, <1>7, <1>8, <1>9

\* The key a request is for.
LEMMA KeyTyped ==
  ASSUME TypeOK, Flow, Stage \in {"send", "verify", "undo", "recheck"} \/
                       run.step \in {"send", "verify", "undo", "recheck"}
  PROVE  run.at \in 1..n /\ K \in Key
BY OrderFacts, Typed DEF Flow, Stage, K

\* A position within the order is the position of a key.
LEMMA AtTyped ==
  ASSUME TypeOK, run.at >= 1, run.at <= n
  PROVE  run.at \in 1..n /\ K \in Key
BY OrderFacts, Typed DEF K

\* A record that is changed stays a record.
LEMMA SnapshotChanged ==
  ASSUME NEW recs \in Snapshot, NEW k \in Key, NEW x \in States
  PROVE  [recs EXCEPT ![k].state = x] \in Snapshot
<1>1. recs[k] \in Record /\ [recs[k] EXCEPT !.state = x] \in Record
  BY RecordTypes DEF Record
<1> QED
  BY <1>1 DEF Snapshot

\* A snapshot in which a resource is recorded as applied is a snapshot.
LEMMA SnapshotApplied ==
  ASSUME NEW recs \in Snapshot, NEW k \in Key, NEW x \in States,
         NEW c \in Id \cup {noId}, NEW a \in Resource
  PROVE  [recs EXCEPT ![k] = [@ EXCEPT !.created = c, !.after = a, !.state = x]]
           \in Snapshot
<1>1. [recs[k] EXCEPT !.created = c, !.after = a, !.state = x] \in Record
  BY RecordTypes DEF Record
<1> QED
  BY <1>1 DEF Snapshot

\* A snapshot whose digests are taken once more is a snapshot.
LEMMA SnapshotRefreshed ==
  ASSUME NEW recs \in Snapshot, NEW s \in Reading,
         \A k \in Key : IdOf(s, k) \in Id
  PROVE  [k \in Key |-> IF recs[k].state # "applied" THEN recs[k]
                        ELSE [recs[k] EXCEPT !.after = s.res[IdOf(s, k)]]] \in Snapshot
BY RecordTypes DEF Snapshot, Record, Reading

\* What is left alone keeps its type.
LEMMA AccountTyped ==
  ASSUME TypeOK, Account, UNCHANGED <<moved, did>>, run' \in Command,
         file' \in [Path -> Snapshot \cup {NoSnapshot}], temp' \in [Path -> BOOLEAN]
  PROVE  TypeOK'
BY DEF TypeOK, Account

\* Beginning to save keeps the types.
LEMMA SavingTyped ==
  ASSUME TypeOK, NEW next \in Command, BeginSave(next), Account,
         UNCHANGED <<moved, did>>
  PROVE  TypeOK'
<1>1. run' \in Command
  BY DEF BeginSave, Command, Steps
<1>2. temp' \in [Path -> BOOLEAN] /\ file' \in [Path -> Snapshot \cup {NoSnapshot}]
  BY DEF BeginSave, TypeOK
<1> QED
  BY <1>1, <1>2, AccountTyped

\* What other people do keeps the types.
LEMMA OthersTyped == TypeOK /\ ChangeByOthers => TypeOK'
<1> SUFFICES ASSUME TypeOK, ChangeByOthers PROVE TypeOK'
  OBVIOUS
<1>1. \A i \in Id, e \in Extra :
        /\ [remote EXCEPT !.res[i].body = "other"] \in Reading
        /\ [remote EXCEPT !.res[i].extra = e] \in Reading
        /\ [remote EXCEPT !.res[i] = Absent] \in Reading
        /\ [remote EXCEPT !.mfa = FALSE] \in Reading
  <2>1. \A i \in Id, e \in Extra :
          /\ [remote.res[i] EXCEPT !.body = "other"] \in Resource
          /\ [remote.res[i] EXCEPT !.extra = e] \in Resource
    BY Typed DEF Resource
  <2> QED
    BY <2>1, Typed, AbsentIsResource DEF Reading
<1>2. \A i, j \in Id :
        /\ [remote EXCEPT !.res[i].uses = @ \cup {j}] \in Reading
        /\ [remote EXCEPT !.res[i] = [body |-> "old", extra |-> DefaultExtra, uses |-> {j}]]
             \in Reading
  <2>1. \A i, j \in Id :
          /\ [remote.res[i] EXCEPT !.uses = @ \cup {j}] \in Resource
          /\ [body |-> "old", extra |-> DefaultExtra, uses |-> {j}] \in Resource
    BY Typed, AbsentIsResource DEF Resource
  <2> QED
    BY <2>1, Typed DEF Reading
<1>3. remote' \in Reading /\ touched' \subseteq Id /\ moved' \subseteq Id
  <2>1. TypeOK /\ Extra # {}
    BY InventoryAssumption
  <2>2. CASE remote' = [remote EXCEPT !.mfa = FALSE] /\ UNCHANGED <<touched, moved>>
    BY <1>1, <2>1, <2>2, Typed DEF TypeOK, Reading
  <2>3. ASSUME NEW i \in Id, touched' = touched \cup {i}, moved' = moved \cup {i},
               \/ remote' = [remote EXCEPT !.res[i].body = "other"]
               \/ \E e \in Extra : remote' = [remote EXCEPT !.res[i].extra = e]
               \/ remote' = [remote EXCEPT !.res[i] = Absent]
               \/ \E j \in Id : remote' = [remote EXCEPT !.res[i].uses = @ \cup {j}]
               \/ \E j \in Id : remote' = [remote EXCEPT !.res[i] =
                    [body |-> "old", extra |-> DefaultExtra, uses |-> {j}]]
        PROVE  remote' \in Reading /\ touched' \subseteq Id /\ moved' \subseteq Id
    <3>1. remote' \in Reading
      BY <1>1, <1>2, <2>1, <2>3
    <3> QED
      BY <2>3, <3>1 DEF TypeOK
  <2>4. \/ remote' = [remote EXCEPT !.mfa = FALSE] /\ UNCHANGED <<touched, moved>>
        \/ \E i \in Id : /\ touched' = touched \cup {i} /\ moved' = moved \cup {i}
                         /\ \/ remote' = [remote EXCEPT !.res[i].body = "other"]
                            \/ \E e \in Extra : remote' = [remote EXCEPT !.res[i].extra = e]
                            \/ remote' = [remote EXCEPT !.res[i] = Absent]
                            \/ \E j \in Id : remote' = [remote EXCEPT !.res[i].uses = @ \cup {j}]
                            \/ \E j \in Id : remote' = [remote EXCEPT !.res[i] =
                                 [body |-> "old", extra |-> DefaultExtra, uses |-> {j}]]
    BY DEF ChangeByOthers, Present, OfKind
  <2> QED
    BY <2>2, <2>3, <2>4
<1> QED
  BY <1>3 DEF TypeOK, ChangeByOthers, OthersSee

\* The steps of an apply keep the types.
LEMMA ApplyTyped ==
  ASSUME TypeOK, Flow, Stored
  PROVE  /\ \A p \in Path : BeginApply(p) => TypeOK'
         /\ OpenSnapshot => TypeOK'
         /\ WriteSnapshot => TypeOK'
         /\ Choose => TypeOK'
         /\ Send => TypeOK'
         /\ Verify => TypeOK'
         /\ Conclude => TypeOK'
<1> USE Typed
<1>0. run \in Command
  BY DEF TypeOK
<1>1. ASSUME NEW p \in Path, BeginApply(p) PROVE TypeOK'
  <2>1. run' \in Command
    BY <1>1, IdleTyped DEF BeginApply, Command, Steps
  <2> QED
    BY <1>1, <2>1 DEF TypeOK, BeginApply, Begin
<1>2. ASSUME OpenSnapshot PROVE TypeOK'
  <2>1. run.path \in Path
    BY <1>2 DEF OpenSnapshot, Flow
  <2>2. run' \in Command
    BY <1>0, <1>2 DEF OpenSnapshot, Goto, Command, Steps
  <2> QED
    BY <1>2, <2>1, <2>2 DEF OpenSnapshot, TypeOK
<1>3. ASSUME WriteSnapshot PROVE TypeOK'
  <2>1. run.path \in Path /\ 1 \in 0..n + 1
    BY <1>3 DEF WriteSnapshot, Flow
  <2>2. NewSnapshot(run.state) \in Snapshot
    BY NewSnapshotFacts
  <2>3. run' \in Command
    BY <1>0, <1>3, <2>1, <2>2 DEF WriteSnapshot, Command, Steps
  <2>4. file' \in [Path -> Snapshot \cup {NoSnapshot}]
    BY <1>3, <2>1, <2>2 DEF WriteSnapshot, TypeOK
  <2> QED
    BY <1>3, <2>3, <2>4 DEF WriteSnapshot, TypeOK
<1>4. ASSUME Choose PROVE TypeOK'
  <2>1. run.snap \in Snapshot
    BY <1>4 DEF Choose, Flow
  <2>2. run.at >= 1
    BY <1>0, <1>4 DEF Choose, Flow, Applying, Rolling, Stage, Command
  <2>3. K \in Key /\ run.at + 1 \in 0..n + 1
    BY <1>4, <2>2, AtTyped DEF Choose
  <2>4. [run.snap EXCEPT ![K].state = "pending"] \in Snapshot
    BY <2>1, <2>3, SnapshotChanged DEF States
  <2>5. [run EXCEPT !.snap[K].state = "pending", !.then = "send"] \in Command
    BY <1>0, <2>4 DEF Command, Steps
  <2>6. [run EXCEPT !.at = @ + 1] \in Command
    BY <1>0, <2>3 DEF Command
  <2>7. CASE run' = [run EXCEPT !.at = @ + 1] /\ UNCHANGED <<file, temp>>
    BY <1>4, <2>6, <2>7, AccountTyped DEF Choose, TypeOK
  <2> QED
    BY <1>4, <2>5, <2>7, SavingTyped DEF Choose
<1>5. ASSUME Send PROVE TypeOK'
  <2>1. K \in Key /\ run.path \in Path
    BY <1>5, KeyTyped DEF Send, Flow
  <2>2. PICK i \in Id : /\ remote' = [remote EXCEPT !.res[i] = Payload(run.state, K)]
                        /\ run' = [run EXCEPT !.step = "verify", !.target = i, !.reads = 0]
                        /\ did' = [did EXCEPT ![run.path][i] = "apply"]
    BY <1>5 DEF Send
  <2>3. Payload(run.state, K) \in Resource
    BY <2>1, PayloadFacts
  <2>4. remote' \in Reading
    BY <2>2, <2>3 DEF Reading
  <2>5. did' \in [Path -> [Id -> {"nothing", "apply", "undo"}]]
    BY <2>1, <2>2 DEF TypeOK
  <2>6. run' \in Command
    <3>1. 0 \in 0..ReadLimit
      OBVIOUS
    <3> QED
      BY <1>0, <2>2, <3>1 DEF Command, Steps
  <2> QED
    BY <1>5, <2>4, <2>5, <2>6 DEF TypeOK, Send
<1>6. ASSUME Verify PROVE TypeOK'
  <2>1. K \in Key /\ run.at \in 1..n /\ run.snap \in Snapshot
    BY <1>6, KeyTyped DEF Verify, Flow
  <2>2. run.at + 1 \in 0..n + 1
    BY <2>1
  <2>3. run.target \in Id \cup {noId} /\ run.reads \in Nat
    BY <1>0 DEF Command
  <2>4. CASE seen.res[run.target] = Payload(run.state, K)
    <3>1. seen.res[run.target] \in Resource
      BY <2>1, <2>4, PayloadFacts
    <3>2. ASSUME NEW c \in Id \cup {noId}
          PROVE  [run EXCEPT !.state = seen, !.at = @ + 1, !.then = "choose",
                    !.snap[K] = [@ EXCEPT !.created = c, !.after = seen.res[run.target],
                                          !.state = "applied"]] \in Command
      <4>1. [run.snap EXCEPT ![K] = [@ EXCEPT !.created = c,
               !.after = seen.res[run.target], !.state = "applied"]] \in Snapshot
        BY <2>1, <3>1, SnapshotApplied DEF States
      <4> QED
        BY <1>0, <2>2, <4>1 DEF Command, Steps
    <3> QED
      BY <1>6, <2>3, <2>4, <3>2, SavingTyped DEF Verify
  <2>5. CASE seen.res[run.target] # Payload(run.state, K)
    <3>1. run.reads + 1 \in 0..ReadLimit
      BY <1>6, <2>3, <2>5 DEF Verify
    <3>2. [run EXCEPT !.reads = @ + 1] \in Command
      BY <1>0, <3>1 DEF Command
    <3> QED
      BY <1>6, <2>5, <3>2, AccountTyped DEF Verify, TypeOK
  <2> QED
    BY <2>4, <2>5
<1>7. ASSUME Conclude PROVE TypeOK'
  <2>1. run.snap \in Snapshot
    BY <1>7 DEF Conclude, Flow
  <2>2. \A k \in Key : IdOf(run.state, k) \in Id
    BY <1>7, AnswerIsFound DEF Conclude, InPlace, PlanFor
  <2>3. [run EXCEPT !.then = "done",
           !.snap = [k \in Key |->
              IF run.snap[k].state # "applied" THEN run.snap[k]
              ELSE [run.snap[k] EXCEPT !.after = run.state.res[IdOf(run.state, k)]]]]
          \in Command
    BY <1>0, <2>1, <2>2, SnapshotRefreshed DEF Command, Steps
  <2> QED
    BY <1>7, <2>3, SavingTyped DEF Conclude
<1> QED
  BY <1>1, <1>2, <1>3, <1>4, <1>5, <1>6, <1>7

\* The steps of a rollback, saving, stopping and late reads keep the types.
LEMMA RollbackTyped ==
  ASSUME TypeOK, Flow, Stored
  PROVE  /\ \A p \in Path : BeginRollback(p) => TypeOK'
         /\ Back => TypeOK'
         /\ Undo => TypeOK'
         /\ Recheck => TypeOK'
         /\ Finished => TypeOK'
         /\ EndSave => TypeOK'
         /\ Stop => TypeOK'
         /\ \A i \in Id : Settle(i) => TypeOK'
<1> USE Typed
<1>0. run \in Command
  BY DEF TypeOK
<1>1. ASSUME NEW p \in Path, BeginRollback(p) PROVE TypeOK'
  <2>1. n \in 0..n + 1
    OBVIOUS
  <2>2. run' \in Command
    BY <1>1, <2>1, IdleTyped DEF BeginRollback, Command, Steps
  <2> QED
    BY <1>1, <2>2 DEF TypeOK, BeginRollback, Begin
<1>2. ASSUME NEW next \in Command, RolledBack(next, K), next.snap \in Snapshot,
             next.at \in 1..n, K \in Key, Account, UNCHANGED <<moved, did>>
      PROVE  TypeOK'
  <2>1. next.at - 1 \in 0..n + 1
    BY <1>2
  <2>2. [next.snap EXCEPT ![K].state = "rolled_back"] \in Snapshot
    BY <1>2, SnapshotChanged DEF States
  <2>3. [next EXCEPT !.snap[K].state = "rolled_back", !.at = @ - 1, !.then = "back"]
          \in Command
    BY <1>2, <2>1, <2>2 DEF Command, Steps
  <2> QED
    BY <1>2, <2>3, SavingTyped DEF RolledBack
<1>3. ASSUME Back PROVE TypeOK'
  <2>1. run.snap \in Snapshot
    BY <1>3 DEF Back, Flow
  <2>2. run.at # n + 1
    BY <1>3, <1>0 DEF Back, Flow, Rolling, Stage, Command
  <2>3. run.at \in 1..n /\ K \in Key
    BY <1>3, <2>2, AtTyped DEF Back
  <2>4. CASE RolledBack(run, K)
    BY <1>0, <1>2, <1>3, <2>1, <2>3, <2>4 DEF Back
  <2>5. CASE run' = [run EXCEPT !.at = @ - 1] /\ UNCHANGED <<file, temp>>
    <3>1. run.at - 1 \in 0..n + 1
      BY <2>3
    <3>2. run' \in Command
      BY <1>0, <2>5, <3>1 DEF Command
    <3> QED
      BY <1>3, <2>5, <3>2, AccountTyped DEF Back, TypeOK
  <2>6. CASE Goto("undo") /\ UNCHANGED <<file, temp>>
    <3>1. run' \in Command
      BY <1>0, <2>6 DEF Goto, Command, Steps
    <3> QED
      BY <1>3, <2>6, <3>1, AccountTyped DEF Back, TypeOK
  <2> QED
    BY <1>3, <2>4, <2>5, <2>6 DEF Back
<1>4. ASSUME Undo PROVE TypeOK'
  <2>1. K \in Key /\ run.path \in Path /\ run.snap \in Snapshot
    BY <1>4, KeyTyped DEF Undo, Flow
  <2>2. run.snap[K].before \in Resource
    BY <2>1, RecordTypes
  <2>3. remote' \in Reading
    BY <1>4, <2>2 DEF Undo, Reading
  <2>4. did' \in [Path -> [Id -> {"nothing", "apply", "undo"}]]
    BY <1>4, <2>1 DEF Undo, TypeOK
  <2>5. run' \in Command
    BY <1>0, <1>4 DEF Undo, Command, Steps
  <2> QED
    BY <1>4, <2>3, <2>4, <2>5 DEF TypeOK, Undo
<1>5. ASSUME Recheck PROVE TypeOK'
  <2>1. run.at \in 1..n /\ K \in Key /\ run.snap \in Snapshot
    BY <1>5, KeyTyped DEF Recheck, Flow
  <2>2. [run EXCEPT !.state = seen] \in Command
    BY <1>0 DEF Command
  <2>3. /\ [run EXCEPT !.state = seen].snap = run.snap
        /\ [run EXCEPT !.state = seen].at = run.at
    BY <1>0 DEF Command
  <2> QED
    BY <1>2, <1>5, <2>1, <2>2, <2>3 DEF Recheck
<1>6. ASSUME Finished PROVE TypeOK'
  <2>1. run' \in Command
    BY <1>0, <1>6 DEF Finished, Goto, Command, Steps
  <2> QED
    BY <1>6, <2>1, AccountTyped DEF Finished, TypeOK
<1>7. ASSUME EndSave PROVE TypeOK'
  <2>1. run' \in Command /\ temp' \in [Path -> BOOLEAN]
    BY <1>0, <1>7 DEF EndSave, Command, TypeOK
  <2>2. file' \in [Path -> Snapshot \cup {NoSnapshot}]
    BY <1>0, <1>7 DEF EndSave, Command, TypeOK
  <2> QED
    BY <1>7, <2>1, <2>2, AccountTyped DEF EndSave
<1>8. ASSUME Stop PROVE TypeOK'
  BY <1>8, IdleTyped, AccountTyped DEF Stop, TypeOK
<1>9. ASSUME NEW i \in Id, Settle(i) PROVE TypeOK'
  <2>1. seen' \in Reading
    BY <1>9 DEF Settle, Reading
  <2> QED
    BY <1>9, <2>1 DEF Settle, TypeOK
<1> QED
  BY <1>1, <1>3, <1>4, <1>5, <1>6, <1>7, <1>8, <1>9

-----------------------------------------------------------------------------
(* Steps of an apply. *)

\* The tale of a resource is not changed by what happens to others, as long as
\* the files of its requests still tell it.
LEMMA TaleStays ==
  ASSUME NEW i \in Id, Tale(i), remote'.res[i] = remote.res[i],
         \A p \in Path : did'[p][i] = did[p][i],
         \A p \in Path : did[p][i] # "nothing" =>
           /\ Was(p, i)' = Was(p, i)
           /\ did[p][i] = "apply" /\ file'[p][Fits[i]].state = "applied" =>
                remote.res[i] = file'[p][Fits[i]].after
  PROVE  Tale(i)'
<1>1. Live(i)' = Live(i)
  BY DEF Live
<1>2. LastApplies(i)'
  BY DEF Tale, LastApplies
<1>3. \A p \in Path : Told(p, i)'
  <2> SUFFICES ASSUME NEW p \in Path PROVE Told(p, i)'
    OBVIOUS
  <2>1. Told(p, i)
    BY DEF Tale
  <2> QED
    BY <1>1, <2>1 DEF Told
<1>4. \A p, q \in Path : did[p][i] # "nothing" /\ did[q][i] # "nothing" => Was(p, i) = Was(q, i)
  BY DEF Tale
<1>5. \A p, q \in Path : (did[p][i] # "nothing" /\ did[q][i] # "nothing" => Was(p, i) = Was(q, i))'
  BY <1>4
<1>6. ((remote.res[i].body = "want") = Live(i))'
  BY <1>1 DEF Tale
<1> QED
  BY <1>1, <1>2, <1>3, <1>5, <1>6 DEF Tale

\* A step of the command that leaves account and files alone.
LEMMA QuietStep ==
  ASSUME Inv, UNCHANGED <<file, remote, touched, did>>
  PROVE  /\ UNCHANGED partial /\ run'.cmd = run.cmd /\ run'.path = run.path => Newest'
         /\ Story' /\ Ready'
         /\ \A p \in Path : \A i \in Id :
              (file[p] = NoSnapshot \/ Fits[i] = noKey => did[p][i] = "nothing")'
         /\ \A p \in Path : (file[p] # NoSnapshot => True(file[p], p))'
         /\ \A recs, p : True(recs, p)' <=> True(recs, p)
<1>1. \A recs, p : True(recs, p)' <=> True(recs, p)
  BY DEF True, TellsOf
<1>2. UNCHANGED partial /\ run'.cmd = run.cmd /\ run'.path = run.path => Newest'
  BY DEF Inv, Newest, Exists
<1>4. Story'
  <2> SUFFICES ASSUME NEW i \in Id \ touched PROVE Tale(i)'
    BY DEF Story
  <2>1. Tale(i) /\ \A p \in Path : Told(p, i)
    BY DEF Inv, Story, Tale
  <2> QED
    BY <2>1, TaleStays DEF Told, Was
<1>5. Ready'
  BY DEF Inv, Ready
<1>6. \A p \in Path : \A i \in Id :
        (file[p] = NoSnapshot \/ Fits[i] = noKey => did[p][i] = "nothing")'
  BY DEF Inv, Stored
<1>7. \A p \in Path : file[p] # NoSnapshot => True(file[p], p)
  BY DEF Inv, Stored
<1>8. \A p \in Path : (file[p] # NoSnapshot => True(file[p], p))'
  BY <1>7 DEF True, TellsOf
<1> QED
  BY <1>1, <1>2, <1>4, <1>5, <1>6, <1>8

\* Whatever answers to a key that is in place is applied or somebody else's.
LEMMA CurrentIsLive ==
  ASSUME Inv, run.cmd # "none", ~Refuses(run.state), run.step \notin {"verify", "recheck"},
         NEW k \in Key, PlanFor(run.state, k) = "current",
         NEW j \in Found(run.state, k)
  PROVE  j \in touched \/ Live(j)
<1>1. j \in Id
  BY DEF Found, Present
<1>2. IdOf(run.state, k) = j
  BY OnlyAnswer
<1>3. run.state.res[j].body = "want"
  BY <1>2, PayloadFacts, Typed DEF PlanFor, Inv
<1>4. ASSUME j \notin touched
      PROVE  run.state.res[j] = remote.res[j]
  BY <1>1, <1>4 DEF Inv, Fresh, InFlight
<1> QED
  BY <1>1, <1>3, <1>4 DEF Inv, Story, Tale

\* Choosing the next resource, and recording it as pending, keeps the invariant.
LEMMA ChooseKeeps ==
  ASSUME Inv, Choose
  PROVE  Inv'
<1> USE DEF Inv
<1>0. /\ run \in Command /\ run.snap \in Snapshot
      /\ run.cmd = "apply" /\ run.step = "choose" /\ Stage = "choose" /\ Applying
      /\ run.at \in 1..n /\ K \in Key /\ run.path \in Path
  <2>1. run \in Command /\ run.step = "choose" /\ run.at <= n
    BY DEF Choose, TypeOK
  <2>2. run.cmd = "apply" /\ Stage = "choose" /\ run.path \in Path /\ run.snap \in Snapshot
        /\ Applying /\ run.at # 0
    BY <2>1, Typed DEF Flow, Rolling, Stage, Command, Applying
  <2> QED
    BY <2>1, <2>2, Typed, AtTyped
<1>1. TypeOK'
  BY ApplyTyped
<1>2. CASE PlanFor(run.state, K) = "current" /\ run' = [run EXCEPT !.at = @ + 1]
           /\ UNCHANGED <<file, temp>>
  <2>1. /\ run'.at = run.at + 1
        /\ run'.cmd = run.cmd /\ run'.step = run.step /\ run'.path = run.path
        /\ run'.snap = run.snap /\ run'.state = run.state
        /\ Stage' = "choose" /\ Applying' /\ ~Rolling'
    BY <1>0, <1>2 DEF Stage, Applying, Rolling, Command
  <2>2. UNCHANGED <<remote, seen, touched, moved, did, file, partial>>
    BY <1>2 DEF Choose, Account
  <2>3. Flow'
    BY <1>0, <2>1, <2>2 DEF Flow, Applying
  <2>4. Newest' /\ Story' /\ Ready' /\ Stored'
    BY <1>0, <2>1, <2>2, QuietStep DEF Stored, Applying, SameBefore
  <2>5. Fresh'
    BY <1>0, <2>1, <2>2 DEF Fresh, InFlight
  <2>6. ApplyGoes'
    <3>1. \A a \in 1..n : run.snap[Order[a]].state \in ApplyStates(a)'
      BY <1>0, <2>1 DEF ApplyGoes, ApplyStates
    <3>2. \A j \in Found(run.state, K) : j \in touched \/ Live(j)
      BY <1>0, <1>2, CurrentIsLive DEF Choose
    <3>3. \A a \in 1..n : a < run'.at =>
            \A j \in Found(run.state, Order[a]) : j \in touched \/ Live(j)
      BY <1>0, <2>1, <3>2 DEF ApplyGoes, K
    <3> QED
      BY <1>0, <2>1, <2>2, <3>1, <3>3 DEF ApplyGoes, Live
  <2>7. RollbackGoes' /\ Kept'
    BY <1>0, <2>1, <2>2 DEF RollbackGoes, Kept
  <2> QED
    BY <1>1, <2>3, <2>4, <2>5, <2>6, <2>7
<1>3. CASE PlanFor(run.state, K) # "current" /\ StillAsRecorded(K)
           /\ BeginSave([run EXCEPT !.snap[K].state = "pending", !.then = "send"])
  <2>1. /\ run'.at = run.at /\ run'.cmd = run.cmd /\ run'.path = run.path
        /\ run'.step = "saving" /\ run'.then = "send" /\ run'.state = run.state
        /\ run'.snap = [run.snap EXCEPT ![K].state = "pending"]
        /\ Stage' = "send" /\ Applying' /\ ~Rolling'
    BY <1>0, <1>3 DEF BeginSave, Stage, Applying, Rolling, Command
  <2>2. UNCHANGED <<remote, seen, touched, moved, did, file, partial>> /\ K' = K
    BY <1>3, <2>1 DEF Choose, Account, BeginSave, K
  <2>3. \A k \in Key : /\ run'.snap[k].id = run.snap[k].id
                       /\ run'.snap[k].before = run.snap[k].before
                       /\ run'.snap[k].created = run.snap[k].created
                       /\ run'.snap[k].after = run.snap[k].after
                       /\ run'.snap[k].state = IF k = K THEN "pending" ELSE run.snap[k].state
    BY <1>0, <2>1, RecordTypes DEF Snapshot, Record
  <2>4. run.snap[K].state = "not_started"
    BY <1>0 DEF ApplyGoes, ApplyStates, K
  <2>5. Flow'
    <3>1. run'.snap # NoSnapshot
      BY <1>0, <2>1, SnapshotIsSome, SnapshotChanged DEF States
    <3> QED
      BY <1>0, <2>1, <2>2, <3>1 DEF Flow, Applying
  <2>6. Newest' /\ Story' /\ Ready'
    BY <2>1, <2>2, QuietStep
  <2>7. Stored'
    <3>1. True(run.snap, run.path) /\ file[run.path] = run.snap /\ file[run.path] # NoSnapshot
      BY <1>0 DEF Stored
    <3>2. Readable(run'.snap)
      BY <2>3, <2>4, <3>1 DEF True, Readable
    <3>3. ASSUME NEW i \in Id, Fits[i] # noKey
          PROVE  TellsOf(run'.snap[Fits[i]], did[run.path][i], i)
      <4>1. Fits[i] \in Key /\ TellsOf(run.snap[Fits[i]], did[run.path][i], i)
        BY <3>1, <3>3, InventoryAssumption DEF True
      <4> QED
        BY <2>3, <2>4, <4>1 DEF TellsOf, Target
    <3>4. True(run'.snap, run.path)
      BY <2>3, <3>1, <3>2, <3>3 DEF True
    <3>5. SameBefore(file[run.path], run'.snap)
      BY <2>3, <3>1 DEF SameBefore
    <3> QED
      BY <2>1, <2>2, <3>1, <3>4, <3>5, QuietStep DEF Stored
  <2>8. Fresh'
    BY <1>0, <2>1, <2>2 DEF Fresh, InFlight
  <2>11. \A i \in Id : Fits[i] = K => did[run.path][i] = "nothing"
    <3>1. True(run.snap, run.path)
      BY <1>0 DEF Stored
    <3> QED
      BY <1>0, <2>4, <3>1, InventoryAssumption DEF True, TellsOf
  <2>12. \A i \in Id \ touched :
          did[run.path][i] = "apply" /\ run'.snap[Fits[i]].state = "applied" =>
            remote.res[i] = run'.snap[Fits[i]].after
    <3>1. \A i \in Id : Fits[i] = noKey => did[run.path][i] # "apply"
      BY <1>0 DEF Stored
    <3> QED
      BY <1>0, <2>3, <3>1, InventoryAssumption DEF Kept
  <2>9. ApplyGoes'
    <3>1. \A a \in 1..n : run'.snap[Order[a]].state \in ApplyStates(a)'
      BY <1>0, <2>1, <2>3, OrderFacts DEF ApplyGoes, ApplyStates, K
    <3>3. ~Refuses(run.state)
      BY DEF Choose
    <3>4. StillAsRecorded(K)'
      BY <1>0, <1>3, <2>1, <2>2, <2>3 DEF StillAsRecorded
    <3> QED
      BY <1>0, <1>3, <2>1, <2>2, <2>11, <3>1, <3>3, <3>4 DEF ApplyGoes, Live
  <2>10. RollbackGoes' /\ Kept'
    BY <1>0, <2>1, <2>2, <2>12 DEF RollbackGoes, Kept
  <2> QED
    BY <1>1, <2>5, <2>6, <2>7, <2>8, <2>9, <2>10
<1> QED
  BY <1>2, <1>3 DEF Choose

-----------------------------------------------------------------------------
(* Beginning and ending. *)

\* The invariant holds initially: nothing has been asked for.
LEMMA InitInv == Init => Inv
<1> SUFFICES ASSUME Init PROVE Inv
  OBVIOUS
<1>1. TypeOK
  BY InitTypes
<1>2. /\ run.cmd = "none" /\ run.step = "idle" /\ Stage = "idle" /\ ~Applying /\ ~Rolling
      /\ moved = {} /\ touched = {}
  BY DEF Init, Idle, Stage, Applying, Rolling
<1>3. /\ \A p \in Path : file[p] = NoSnapshot
      /\ \A p \in Path, i \in Id : did[p][i] = "nothing"
      /\ partial = {}
  BY DEF Init
<1>4. \A i \in Id : remote.res[i].body # "want"
  BY DEF Init, Absent
<1>5. Flow /\ Newest /\ Stored /\ Kept /\ Fresh
  BY <1>2, <1>3 DEF Flow, Newest, Exists, Stored, Kept, Fresh
<1>6. Story /\ Ready /\ ApplyGoes /\ RollbackGoes
  BY <1>2, <1>3, <1>4 DEF Story, Tale, LastApplies, Told, Ready, Live, ApplyGoes, RollbackGoes
<1> QED
  BY <1>1, <1>5, <1>6 DEF Inv

\* A command may stop anywhere: the files and the account still tell the story.
LEMMA StopKeeps ==
  ASSUME Inv, Stop
  PROVE  Inv'
<1> USE DEF Inv
<1>1. TypeOK'
  BY RollbackTyped
<1>2. /\ run'.cmd = "none" /\ run'.step = "idle" /\ Stage' = "idle" /\ ~Applying' /\ ~Rolling'
  BY DEF Stop, Idle, Stage, Applying, Rolling
<1>3. UNCHANGED <<remote, seen, touched, moved, did, file, partial>>
  BY DEF Stop, Account
<1>4. Story' /\ Ready' /\ Stored'
  BY <1>2, <1>3, QuietStep DEF Stored
<1>5. Flow' /\ Newest' /\ Kept' /\ Fresh'
  BY <1>2, <1>3 DEF Flow, Newest, Exists, Kept, Fresh
<1>6. ApplyGoes' /\ RollbackGoes'
  BY <1>2 DEF ApplyGoes, RollbackGoes
<1> QED
  BY <1>1, <1>4, <1>5, <1>6

\* A late read only shows what is so.
LEMMA SettleKeeps ==
  ASSUME Inv, NEW x \in Id, Settle(x)
  PROVE  Inv'
<1> USE DEF Inv
<1>1. TypeOK'
  BY RollbackTyped
<1>2. UNCHANGED <<remote, run, touched, moved, did, file, partial>>
  BY DEF Settle
<1>3. \A i \in Id : seen'.res[i] = IF i = x THEN remote.res[i] ELSE seen.res[i]
  BY Typed DEF Settle, Reading
<1>4. Story' /\ Ready' /\ Newest'
  BY <1>2, QuietStep
<1>5. Fresh'
  BY <1>2, <1>3 DEF Fresh, InFlight, K
<1>6. Stored'
  BY <1>2, QuietStep DEF Stored, Applying, Rolling, SameBefore
<1>7. Flow' /\ Kept'
  BY <1>2 DEF Flow, Stage, Applying, Rolling, Kept
<1>8. /\ \A a : ApplyStates(a)' = ApplyStates(a) /\ RollbackStates(a)' = RollbackStates(a)
      /\ Applying' = Applying /\ Rolling' = Rolling /\ Stage' = Stage /\ K' = K
      /\ StillAsRecorded(K)' = StillAsRecorded(K) /\ Asked' = Asked
      /\ \A i : Live(i)' = Live(i)
  BY <1>2 DEF ApplyStates, RollbackStates, Applying, Rolling, Stage, K, StillAsRecorded,
              Asked, Live
<1>9. ApplyGoes' /\ RollbackGoes'
  BY <1>2, <1>8 DEF ApplyGoes, RollbackGoes
<1> QED
  BY <1>1, <1>4, <1>5, <1>6, <1>7, <1>9

\* Reporting success keeps the invariant.
LEMMA FinishedKeeps ==
  ASSUME Inv, Finished
  PROVE  Inv'
<1> USE DEF Inv
<1>1. TypeOK'
  BY RollbackTyped
<1>2. /\ run \in Command /\ run.cmd = "rollback" /\ run.at = 0 /\ Stage = "back"
      /\ run.step = "back"
  BY DEF Finished, TypeOK, Flow, Stage, Command, Rolling
<1>3. /\ run'.at = 0 /\ run'.cmd = "rollback" /\ run'.step = "done" /\ Stage' = "done"
      /\ run'.path = run.path /\ run'.snap = run.snap /\ run'.state = run.state
      /\ Rolling /\ Rolling' /\ ~Applying /\ ~Applying'
  BY <1>2 DEF Finished, Goto, Stage, Command, Rolling, Applying
<1>4. UNCHANGED <<remote, seen, touched, moved, did, file, partial>>
  BY DEF Finished, Account
<1>5. Story' /\ Ready' /\ Newest' /\ Stored'
  BY <1>2, <1>3, <1>4, QuietStep DEF Stored, SameBefore
<1>6. Flow' /\ Kept' /\ Fresh'
  BY <1>2, <1>3, <1>4, Typed DEF Flow, Kept, Fresh, InFlight
<1>7. ApplyGoes' /\ RollbackGoes'
  BY <1>2, <1>3, <1>4 DEF ApplyGoes, RollbackGoes, RollbackStates
<1> QED
  BY <1>1, <1>5, <1>6, <1>7

\* An apply begins with a reading of everything, and the next free file.
LEMMA BeginApplyKeeps ==
  ASSUME Inv, NEW r \in Path, BeginApply(r)
  PROVE  Inv'
<1> USE DEF Inv
<1>1. TypeOK'
  BY ApplyTyped
<1>2. /\ run'.cmd = "apply" /\ run'.step = "plan" /\ run'.path = r /\ Stage' = "plan"
      /\ run'.snap = NoSnapshot /\ run'.state = remote /\ seen' = remote /\ moved' = {}
      /\ ~Applying' /\ ~Rolling'
  BY DEF BeginApply, Begin, Idle, Stage, Applying, Rolling
<1>3. UNCHANGED <<remote, touched, did, file, partial>>
  BY DEF BeginApply, Begin
<1>4. Story' /\ Ready' /\ Stored'
  BY <1>2, <1>3, QuietStep DEF Stored
<1>5. Newest'
  <2>1. \A q \in Path : q < r => Exists(q)
    BY DEF BeginApply
  <2>2. \A q \in Path : q > r => ~Exists(q)
    BY DEF BeginApply, Newest
  <2>3. \A q : Exists(q)' <=> Exists(q)
    BY <1>3 DEF Exists
  <2> QED
    BY <1>2, <1>3, <2>1, <2>2, <2>3 DEF Newest
<1>6. Flow' /\ Kept' /\ Fresh'
  BY <1>2, <1>3 DEF Flow, Kept, Fresh, BeginApply, Exists
<1>7. ApplyGoes' /\ RollbackGoes'
  BY <1>2 DEF ApplyGoes, RollbackGoes
<1> QED
  BY <1>1, <1>4, <1>5, <1>6, <1>7

\* A file that was only created says nothing yet.
LEMMA OpenSnapshotKeeps ==
  ASSUME Inv, OpenSnapshot
  PROVE  Inv'
<1> USE DEF Inv
<1>1. TypeOK'
  BY ApplyTyped
<1>2. /\ run \in Command /\ run.cmd = "apply" /\ run.step = "plan" /\ run.path \in Path
      /\ ~Exists(run.path) /\ ~Applying /\ ~Rolling
  BY DEF OpenSnapshot, TypeOK, Flow, Rolling, Applying, Stage, Command
<1>3. /\ run'.cmd = "apply" /\ run'.step = "write" /\ Stage' = "write"
      /\ run'.path = run.path /\ run'.snap = run.snap /\ run'.state = run.state
      /\ ~Applying' /\ ~Rolling'
  BY <1>2 DEF OpenSnapshot, Goto, Stage, Applying, Rolling, Command
<1>4. UNCHANGED <<remote, seen, touched, moved, did, file>>
      /\ partial' = partial \cup {run.path}
  BY DEF OpenSnapshot
<1>5. Story' /\ Ready' /\ Stored'
  BY <1>3, <1>4, QuietStep DEF Stored
<1>6. Newest'
  <2>1. \A p \in Path : Exists(p)' <=> Exists(p) \/ p = run.path
    BY <1>4 DEF Exists
  <2>2. \A p \in Path : p \in Int
    BY DeploymentAssumption
  <2> QED
    BY <1>2, <1>3, <1>4, <2>1, <2>2 DEF Newest, Exists
<1>7. Flow' /\ Kept' /\ Fresh'
  BY <1>2, <1>3, <1>4 DEF Flow, Kept, Fresh, InFlight, Exists
<1>8. ApplyGoes' /\ RollbackGoes'
  BY <1>3 DEF ApplyGoes, RollbackGoes
<1> QED
  BY <1>1, <1>5, <1>6, <1>7, <1>8

\* A new file is true, because nothing was done under it.
LEMMA WriteSnapshotKeeps ==
  ASSUME Inv, WriteSnapshot
  PROVE  Inv'
<1> USE DEF Inv
<1> DEFINE new == NewSnapshot(run.state)
<1>1. TypeOK'
  BY ApplyTyped
<1>2. /\ run \in Command /\ run.cmd = "apply" /\ run.step = "write" /\ run.path \in Path
      /\ file[run.path] = NoSnapshot
  BY DEF WriteSnapshot, TypeOK, Flow, Rolling, Stage, Command
<1>3. /\ run'.cmd = "apply" /\ run'.step = "choose" /\ Stage' = "choose" /\ run'.at = 1
      /\ run'.path = run.path /\ run'.snap = new /\ run'.state = run.state
      /\ Applying' /\ ~Rolling'
  BY <1>2 DEF WriteSnapshot, Stage, Applying, Rolling, Command
<1>4. /\ UNCHANGED <<remote, seen, touched, moved, did>>
      /\ file' = [file EXCEPT ![run.path] = new]
      /\ partial' = partial \ {run.path}
  BY DEF WriteSnapshot
<1>5. \A p \in Path : file'[p] = IF p = run.path THEN new ELSE file[p]
  BY <1>4, Typed
<1>6. \A i \in Id : did[run.path][i] = "nothing"
  BY <1>2 DEF Stored
<1>7. new \in Snapshot /\ new # NoSnapshot
  BY NewSnapshotFacts, SnapshotIsSome, Typed
<1>8. True(new, run.path)
  <2>1. \A i \in Id : Fits[i] # noKey => TellsOf(new[Fits[i]], did[run.path][i], i)
    BY <1>6, NewSnapshotFacts, Typed, InventoryAssumption DEF TellsOf
  <2>2. /\ Readable(new)
        /\ \A k \in Key : /\ new[k].id # noId => Fits[new[k].id] = k
                          /\ new[k].created # noId => Fits[new[k].created] = k
    BY NewSnapshotFacts, Typed
  <2> QED
    BY <2>1, <2>2 DEF True
<1>9. \A recs, p : True(recs, p)' <=> True(recs, p)
  BY <1>4 DEF True, TellsOf
<1>10. Stored'
  <2>1. \A p \in Path : \A i \in Id :
          file'[p] = NoSnapshot \/ Fits[i] = noKey => did[p][i] = "nothing"
    BY <1>5, <1>6, <1>7 DEF Stored
  <2>2. \A p \in Path : file'[p] # NoSnapshot => True(file'[p], p)
    BY <1>5, <1>8 DEF Stored
  <2> QED
    BY <1>2, <1>3, <1>4, <1>5, <1>7, <1>8, <1>9, <2>1, <2>2 DEF Stored, SameBefore
<1>11. Newest'
  <2>1. \A q \in Path : q \in Int
    BY DeploymentAssumption
  <2>2. \A q \in Path : Exists(q)' <=> Exists(q) \/ q = run.path
    BY <1>4, <1>5, <1>7 DEF Exists
  <2> QED
    BY <1>2, <1>3, <1>4, <1>5, <1>7, <2>1, <2>2 DEF Newest
<1>12. Flow' /\ Kept' /\ Fresh'
  BY <1>2, <1>3, <1>4, <1>6, <1>7, Typed DEF Flow, Kept, Fresh, InFlight, Applying
<1>13. \A p \in Path : \A i \in Id : did[p][i] # "nothing" => file'[p] = file[p]
  BY <1>5, <1>6
<1>14. Story' /\ Ready'
  <2>1. \A i : Live(i)' <=> Live(i)
    BY <1>4 DEF Live
  <2>2. ASSUME NEW i \in Id \ touched, NEW p \in Path, did[p][i] # "nothing"
        PROVE  file'[p] = file[p]
    BY <1>13, <2>2
  <2>3. Story'
    <3> SUFFICES ASSUME NEW i \in Id \ touched
                 PROVE  Tale(i)'
      BY <1>4 DEF Story
    <3>1. Tale(i)
      BY DEF Story
    <3>2. \A p \in Path : did[p][i] # "nothing" => Was(p, i)' = Was(p, i)
      BY <2>2 DEF Was
    <3>3. \A p \in Path : Told(p, i)'
      BY <1>4, <2>1, <2>2, <3>1, <3>2 DEF Tale, Told
    <3>4. LastApplies(i)'
      BY <1>4, <3>1 DEF Tale, LastApplies
    <3> QED
      BY <1>4, <2>1, <3>1, <3>2, <3>3, <3>4 DEF Tale
  <2> QED
    BY <1>4, <2>3 DEF Ready
<1>15. ApplyGoes' /\ RollbackGoes'
  <2>1. \A a \in 1..n : new[Order[a]].state = "not_started"
    BY OrderFacts, NewSnapshotFacts, Typed
  <2>2. \A a \in 1..n : "not_started" \in ApplyStates(a)'
    BY <1>3 DEF ApplyStates
  <2> QED
    BY <1>3, <2>1, <2>2 DEF ApplyGoes, RollbackGoes
<1> QED
  BY <1>1, <1>10, <1>11, <1>12, <1>14, <1>15

-----------------------------------------------------------------------------
(* Saving, and what other people do. *)

\* A file that is replaced by what the command remembers stays true.
LEMMA EndSaveKeeps ==
  ASSUME Inv, EndSave
  PROVE  Inv'
<1> USE DEF Inv
<1>1. TypeOK'
  BY RollbackTyped
<1>2. /\ run \in Command /\ run.step = "saving" /\ Stage = run.then
      /\ run.path \in Path /\ (Applying \/ Rolling)
      /\ run.snap \in Snapshot /\ run.snap # NoSnapshot
      /\ run.then \in {"choose", "send", "done", "back"}
  <2>1. run \in Command /\ run.step = "saving" /\ Stage = run.then
    BY DEF EndSave, TypeOK, Stage
  <2>2. run.cmd # "none" /\ run.snap # NoSnapshot
    BY <2>1 DEF Flow
  <2>3. Applying \/ Rolling
    BY <2>1, <2>2 DEF Applying, Rolling, Command
  <2> QED
    BY <2>1, <2>2, <2>3, Typed DEF Flow
<1>3. /\ run' = [run EXCEPT !.step = run.then]
      /\ run'.cmd = run.cmd /\ run'.step = run.then /\ run'.path = run.path
      /\ run'.at = run.at /\ run'.snap = run.snap /\ run'.state = run.state
      /\ Stage' = Stage /\ Applying' = Applying /\ Rolling' = Rolling /\ K' = K
  BY <1>2 DEF EndSave, Stage, Applying, Rolling, K, Command
<1>4. /\ UNCHANGED <<remote, seen, touched, moved, did, partial>>
      /\ file' = [file EXCEPT ![run.path] = run.snap]
  BY DEF EndSave, Account
<1>5. \A p \in Path : file'[p] = IF p = run.path THEN run.snap ELSE file[p]
  BY <1>4, Typed
<1>6. \A recs, p : True(recs, p)' <=> True(recs, p)
  BY <1>4 DEF True, TellsOf
<1>7. /\ file[run.path] # NoSnapshot /\ True(run.snap, run.path)
      /\ SameBefore(file[run.path], run.snap)
  BY <1>2 DEF Stored
<1>8. \A p \in Path : (file'[p] = NoSnapshot) = (file[p] = NoSnapshot)
  BY <1>2, <1>5, <1>7
<1>9. Newest'
  <2>1. partial \subseteq Path
    BY DEF TypeOK
  <2>2. \A p \in Path : Exists(p)' <=> Exists(p)
    BY <1>4, <1>8 DEF Exists
  <2> QED
    BY <1>3, <1>4, <1>8, <2>1, <2>2 DEF Newest
<1>10. Stored'
  <2>1. \A p \in Path : \A i \in Id :
          file'[p] = NoSnapshot \/ Fits[i] = noKey => did[p][i] = "nothing"
    BY <1>8 DEF Stored
  <2>2. \A p \in Path : file'[p] # NoSnapshot => True(file'[p], p)
    BY <1>5, <1>7, <1>8 DEF Stored
  <2>3. file'[run'.path] = run'.snap /\ file'[run'.path] # NoSnapshot
    <3>1. file'[run.path] = run.snap
      BY <1>2, <1>5
    <3> QED
      BY <1>2, <1>3, <3>1, Zenon
  <2>4. SameBefore(file[run.path], run.snap)'
    BY <2>3 DEF SameBefore
  <2>5. True(run.snap, run.path)'
    BY <1>3, <1>7, <1>4 DEF True, TellsOf
  <2>6. \A p \in Path : (file[p] # NoSnapshot => True(file[p], p))'
    BY <1>6, <2>2
  <2> QED
    BY <1>3, <1>4, <2>1, <2>3, <2>4, <2>5, <2>6 DEF Stored
<1>11. Story'
  <2> SUFFICES ASSUME NEW i \in Id \ touched PROVE Tale(i)'
    BY <1>4 DEF Story
  <2>1. ASSUME NEW p \in Path, did[p][i] # "nothing"
        PROVE  /\ Was(p, i)' = Was(p, i)
               /\ did[p][i] = "apply" /\ file'[p][Fits[i]].state = "applied" =>
                    remote.res[i] = file'[p][Fits[i]].after
    <3>1. Fits[i] \in Key
      BY <2>1, InventoryAssumption DEF Stored
    <3>2. CASE p = run.path
      BY <1>2, <1>5, <1>7, <3>1, <3>2 DEF Was, SameBefore, Kept
    <3>3. CASE p # run.path
      <4>1. Told(p, i) /\ file'[p] = file[p]
        BY <1>5, <3>3 DEF Story, Tale
      <4> QED
        BY <4>1 DEF Was, Told
    <3> QED
      BY <3>2, <3>3
  <2>2. Tale(i)
    BY DEF Story
  <2> QED
    BY <1>4, <2>1, <2>2, TaleStays
<1>12. Ready'
  BY <1>4 DEF Ready
<1>13. Flow' /\ Kept' /\ Fresh'
  BY <1>2, <1>3, <1>4 DEF Flow, Kept, Fresh, InFlight
<1>14. /\ \A a : ApplyStates(a)' = ApplyStates(a) /\ RollbackStates(a)' = RollbackStates(a)
       /\ \A k : StillAsRecorded(k)' = StillAsRecorded(k)
       /\ \A i : Live(i)' = Live(i)
  BY <1>3, <1>4 DEF ApplyStates, RollbackStates, StillAsRecorded, Live
<1>15. ApplyGoes' /\ RollbackGoes'
  BY <1>2, <1>3, <1>4, <1>14 DEF ApplyGoes, RollbackGoes
<1> QED
  BY <1>1, <1>9, <1>10, <1>11, <1>12, <1>13, <1>15

\* What other people change is noted, and nothing else changes.
LEMMA OthersNoted ==
  ASSUME TypeOK, ChangeByOthers
  PROVE  /\ touched \subseteq touched' /\ moved \subseteq moved'
         /\ \A i \in Id : i \in moved' => i \in moved \/ i \in touched'
         /\ \A i \in Id : i \notin moved' => remote'.res[i] = remote.res[i]
<1>1. CASE remote' = [remote EXCEPT !.mfa = FALSE] /\ UNCHANGED <<touched, moved>>
  BY <1>1, Typed DEF Reading
<1>2. ASSUME NEW x \in Id, touched' = touched \cup {x}, moved' = moved \cup {x},
             \A i \in Id : i # x => remote'.res[i] = remote.res[i]
      PROVE  /\ touched \subseteq touched' /\ moved \subseteq moved'
             /\ \A i \in Id : i \in moved' => i \in moved \/ i \in touched'
             /\ \A i \in Id : i \notin moved' => remote'.res[i] = remote.res[i]
  BY <1>2
<1>4. \/ remote' = [remote EXCEPT !.mfa = FALSE] /\ UNCHANGED <<touched, moved>>
      \/ \E x \in Id :
           /\ touched' = touched \cup {x} /\ moved' = moved \cup {x}
           /\ \/ remote' = [remote EXCEPT !.res[x].body = "other"]
              \/ \E e \in Extra : remote' = [remote EXCEPT !.res[x].extra = e]
              \/ remote' = [remote EXCEPT !.res[x] = Absent]
              \/ \E j \in Id : remote' = [remote EXCEPT !.res[x].uses = @ \cup {j}]
              \/ \E j \in Id : remote' = [remote EXCEPT !.res[x] =
                   [body |-> "old", extra |-> DefaultExtra, uses |-> {j}]]
  BY DEF ChangeByOthers, Present, OfKind
<1>6. CASE \E x \in Id :
             /\ touched' = touched \cup {x} /\ moved' = moved \cup {x}
             /\ \A i \in Id : i # x => remote'.res[i] = remote.res[i]
  BY <1>2, <1>6
<1>7. ASSUME NEW x \in Id,
             \/ remote' = [remote EXCEPT !.res[x].body = "other"]
             \/ \E e \in Extra : remote' = [remote EXCEPT !.res[x].extra = e]
             \/ remote' = [remote EXCEPT !.res[x] = Absent]
             \/ \E j \in Id : remote' = [remote EXCEPT !.res[x].uses = @ \cup {j}]
             \/ \E j \in Id : remote' = [remote EXCEPT !.res[x] =
                   [body |-> "old", extra |-> DefaultExtra, uses |-> {j}]]
      PROVE  \A i \in Id : i # x => remote'.res[i] = remote.res[i]
  BY <1>7, Typed DEF Reading
<1> QED
  BY <1>1, <1>4, <1>6, <1>7

\* What other people do is noted, which is all the invariant asks of it.
LEMMA OthersKeep ==
  ASSUME Inv, ChangeByOthers
  PROVE  Inv'
<1> USE DEF Inv
<1>1. TypeOK'
  BY OthersTyped
<1>2. /\ UNCHANGED <<seen, run, did, file, partial>>
      /\ touched \subseteq touched' /\ moved \subseteq moved' /\ moved' \subseteq touched'
      /\ \A i \in Id \ touched' : i \notin touched /\ i \notin moved' /\ i \notin moved
      /\ \A i \in Id \ moved' : i \notin moved /\ remote'.res[i] = remote.res[i]
  <2>1. UNCHANGED <<seen, run, did, file, partial>>
    BY DEF ChangeByOthers, OthersSee
  <2>2. moved' \subseteq Id /\ moved \subseteq touched
    BY <1>1 DEF TypeOK, Fresh
  <2> QED
    BY <2>1, <2>2, OthersNoted
<1>3. /\ Stage' = Stage /\ Applying' = Applying /\ Rolling' = Rolling /\ K' = K
      /\ \A a : ApplyStates(a)' = ApplyStates(a) /\ RollbackStates(a)' = RollbackStates(a)
      /\ \A k : StillAsRecorded(k)' = StillAsRecorded(k)
      /\ \A i : Live(i)' = Live(i) /\ InFlight(i)' = InFlight(i)
      /\ \A p, i : Was(p, i)' = Was(p, i)
  BY <1>2 DEF Stage, Applying, Rolling, K, ApplyStates, RollbackStates, StillAsRecorded,
              Live, InFlight, Was
<1>4. Flow' /\ Newest'
  BY <1>2, <1>3 DEF Flow, Newest, Exists
<1>5. Stored'
  <2>1. \A recs, p : True(recs, p) => True(recs, p)'
    <3> SUFFICES ASSUME NEW recs, NEW p, True(recs, p) PROVE True(recs, p)'
      OBVIOUS
    <3> QED
      BY <1>2 DEF True, TellsOf
  <2>2. \A p \in Path : file'[p] # NoSnapshot => True(file[p], p)'
    BY <1>2, <2>1 DEF Stored
  <2> QED
    BY <1>2, <1>3, <2>1, <2>2 DEF Stored
<1>6. Kept' /\ Fresh'
  BY <1>2, <1>3 DEF Kept, Fresh
<1>7. Story'
  <2> SUFFICES ASSUME NEW i \in Id \ touched' PROVE Tale(i)'
    BY DEF Story
  <2>1. Tale(i)
    BY <1>2 DEF Story
  <2>2. \A p \in Path : Told(p, i)
    BY <2>1 DEF Tale
  <2> QED
    BY <1>2, <1>3, <2>1, <2>2, TaleStays DEF Told
<1>8. Ready'
  BY <1>2 DEF Ready
<1>9. ApplyGoes'
  <2>1. Asked => Asked'
    BY <1>2, <1>3 DEF Asked
  <2> QED
    BY <1>2, <1>3, <2>1 DEF ApplyGoes
<1>10. RollbackGoes'
  <2>1. Stage = "recheck" /\ Rolling => Target(run.snap[K]) \in Id
    <3> SUFFICES ASSUME Stage = "recheck", Rolling PROVE Target(run.snap[K]) \in Id
      OBVIOUS
    <3>1. run.at \in 1..n /\ K \in Key /\ run.snap \in Snapshot /\ True(run.snap, run.path)
      BY KeyTyped, Typed DEF Flow, Stored, Rolling, Stage
    <3>2. run.snap[K].state = "applied"
      BY <3>1 DEF RollbackGoes, RollbackStates, K
    <3> QED
      BY <3>1, <3>2, TargetFits
  <2> QED
    BY <1>2, <1>3, <2>1 DEF RollbackGoes
<1> QED
  BY <1>1, <1>4, <1>5, <1>6, <1>7, <1>8, <1>9, <1>10

-----------------------------------------------------------------------------
(* The request of an apply. *)

\* A reading that is not refused and shows an applied resource of a key whose
\* needs have answers has nothing to do for that key.
LEMMA DesiredIsCurrent ==
  ASSUME NEW s \in Reading, NEW k \in Key, ~Refuses(s), ~Unresolved(s, k),
         NEW i \in Found(s, k), s.res[i].body = "want",
         \A j \in s.res[i].uses : Fits[j] \in Needs[k],
         \A m \in Needs[k] : \E j \in s.res[i].uses : Fits[j] = m
  PROVE  PlanFor(s, k) = "current"
<1>1. i \in Id /\ Fits[i] = k /\ s.res[i] # Absent /\ i \in Present(s) /\ k # noKey
      /\ IdKind[i] = KindOf[k] /\ Needs[k] \subseteq Key
  BY InventoryAssumption DEF Found, Present, ValidConfig
<1>2. IdOf(s, k) = i
  BY OnlyAnswer
<1>3. s.res[i].uses \subseteq Present(s)
  <2>1. CASE KindOf[k] = "application"
    BY <1>1, <2>1 DEF Refuses, Unsafe, OfKind
  <2>2. CASE KindOf[k] # "application"
    <3>1. Needs[k] = {}
      BY <2>2, InventoryAssumption DEF ValidConfig
    <3> QED
      BY <3>1
  <2> QED
    BY <2>1, <2>2
<1>4. \A j \in s.res[i].uses : j \in Found(s, Fits[j])
  BY <1>3 DEF Found
<1>5. ASSUME NEW m \in Needs[k], NEW x \in Found(s, m)
      PROVE  x \in s.res[i].uses
  <2>1. PICK j \in s.res[i].uses : Fits[j] = m
    OBVIOUS
  <2>2. j \in Found(s, m) /\ m \in Key
    BY <1>1, <1>4, <2>1
  <2>3. x = j
    BY <1>5, <2>2 DEF Refuses, Ambiguous
  <2> QED
    BY <2>1, <2>3
<1>6. s.res[i].uses = UNION {Found(s, m) : m \in Needs[k]}
  BY <1>4, <1>5
<1>7. s.res[i] \in Resource
  BY <1>1 DEF Reading
<1>8. s.res[i] = Payload(s, k)
  BY <1>2, <1>6, <1>7 DEF Payload, Resource
<1> QED
  BY <1>2, <1>8 DEF PlanFor

\* A request of an apply keeps the invariant: it is pending in the file, it is for
\* a resource that is not applied, and what the payload uses is in place.
LEMMA SendKeeps ==
  ASSUME Inv, Send
  PROVE  Inv'
<1> USE DEF Inv
<1> DEFINE P == Payload(run.state, K)
<1>0. /\ run \in Command /\ run.snap \in Snapshot
      /\ run.cmd = "apply" /\ run.step = "send" /\ Stage = "send" /\ Applying /\ ~Rolling
      /\ run.at \in 1..n /\ K \in Key /\ K # noKey /\ run.path \in Path
  <2>1. run \in Command /\ run.step = "send" /\ Stage = "send"
    BY DEF Send, TypeOK, Stage
  <2>2. run.cmd = "apply" /\ run.path \in Path /\ run.snap \in Snapshot /\ Applying /\ ~Rolling
    BY <2>1, Typed DEF Flow, Rolling, Command, Applying
  <2> QED
    BY <2>1, <2>2, KeyTyped, InventoryAssumption
<1>1. TypeOK'
  BY ApplyTyped
<1>2. PICK i \in Id :
        /\ IF Found(run.state, K) = {}
           THEN Fits[i] = K /\ remote.res[i] = Absent /\ i \notin touched
           ELSE i = IdOf(run.state, K) /\ remote.res[i] # Absent
        /\ remote' = [remote EXCEPT !.res[i] = P]
        /\ run' = [run EXCEPT !.step = "verify", !.target = i, !.reads = 0]
        /\ did' = [did EXCEPT ![run.path][i] = "apply"]
  BY DEF Send
<1>3. Fits[i] = K
  BY <1>2, AnswerIsFound
<1>4. /\ UNCHANGED <<seen, file, partial, touched, moved>>
      /\ \A x \in Id : remote'.res[x] = IF x = i THEN P ELSE remote.res[x]
      /\ \A p \in Path, x \in Id :
           did'[p][x] = IF p = run.path /\ x = i THEN "apply" ELSE did[p][x]
  BY <1>0, <1>2, Typed DEF Send, Reading, TypeOK
<1>5. /\ run'.cmd = run.cmd /\ run'.step = "verify" /\ Stage' = "verify" /\ run'.target = i
      /\ run'.at = run.at /\ run'.path = run.path /\ run'.snap = run.snap
      /\ run'.state = run.state /\ K' = K /\ Applying' /\ ~Rolling'
  BY <1>0, <1>2 DEF Stage, Applying, Rolling, K, Command
<1>6. /\ ~Refuses(run.state) /\ StillAsRecorded(K) /\ PlanFor(run.state, K) # "current"
      /\ ~Unresolved(run.state, K)
      /\ \A x \in Id : Fits[x] = K => did[run.path][x] = "nothing"
      /\ run.snap[K].state = "pending"
  BY <1>0 DEF ApplyGoes, ApplyStates, Send, K
<1>7. /\ file[run.path] # NoSnapshot /\ file[run.path] = run.snap
      /\ True(run.snap, run.path)
  BY <1>0 DEF Stored
<1>8. P \in Resource /\ P.body = "want" /\ P # Absent
  BY <1>0, PayloadFacts, Typed
<1>9. ASSUME i \notin touched
      PROVE  run.state.res[i] = remote.res[i]
  BY <1>0, <1>9 DEF Fresh, InFlight
\* Nobody else's resource has not been applied before.
<1>10. ASSUME i \notin touched
       PROVE  ~Live(i)
  <2> SUFFICES ASSUME Live(i) PROVE FALSE
    OBVIOUS
  <2>1. remote.res[i].body = "want"
    BY <1>10 DEF Story, Tale
  <2>2. Found(run.state, K) # {} /\ i = IdOf(run.state, K) /\ i \in Found(run.state, K)
    BY <1>2, <2>1, AnswerIsFound DEF Absent
  <2>3. PICK r \in Path : did[r][i] = "apply"
    BY DEF Live
  <2>4. /\ \A j \in remote.res[i].uses : Fits[j] \in Needs[K]
        /\ \A m \in Needs[K] : \E j \in remote.res[i].uses : Fits[j] = m
    BY <1>3, <1>10, <2>3 DEF Ready
  <2> QED
    BY <1>0, <1>6, <1>9, <1>10, <2>1, <2>2, <2>4, DesiredIsCurrent, Typed
\* The record has what is overwritten.
<1>11. ASSUME i \notin touched
       PROVE  run.snap[K].before = remote.res[i]
  <2>1. CASE Found(run.state, K) = {}
    BY <1>2, <1>6, <2>1 DEF StillAsRecorded
  <2>2. CASE Found(run.state, K) # {}
    <3>1. run.snap[K].id \in Found(run.state, K)
          /\ run.state.res[run.snap[K].id] = run.snap[K].before
      BY <1>6, <2>2 DEF StillAsRecorded
    <3>2. run.snap[K].id = i
      BY <1>0, <1>2, <1>6, <2>2, <3>1, OnlyAnswer
    <3> QED
      BY <1>9, <1>11, <3>1, <3>2
  <2> QED
    BY <2>1, <2>2
<1>12. Flow' /\ Newest'
  BY <1>0, <1>4, <1>5 DEF Flow, Newest, Exists
<1>13. Stored'
  <2>1. ASSUME NEW x \in Id, Fits[x] # noKey
        PROVE  TellsOf(run.snap[Fits[x]], did'[run.path][x], x)
    <3>1. TellsOf(run.snap[Fits[x]], did[run.path][x], x)
      BY <1>7, <2>1 DEF True
    <3>2. CASE x = i
      BY <1>0, <1>3, <1>4, <1>6, <3>2 DEF TellsOf
    <3>3. CASE x # i
      BY <1>0, <1>4, <3>1, <3>3
    <3> QED
      BY <3>2, <3>3
  <2>2. True(run.snap, run.path)'
    BY <1>4, <1>5, <1>7, <2>1 DEF True, TellsOf
  <2>3. ASSUME NEW p \in Path, file[p] # NoSnapshot
        PROVE  True(file[p], p)'
    <3>1. CASE p = run.path
      BY <1>4, <1>5, <1>7, <2>2, <3>1
    <3>2. CASE p # run.path
      <4>1. True(file[p], p)
        BY <2>3 DEF Stored
      <4> QED
        BY <1>4, <3>2, <4>1 DEF True, TellsOf
    <3> QED
      BY <3>1, <3>2
  <2>4. \A p \in Path : \A x \in Id :
          (file[p] = NoSnapshot \/ Fits[x] = noKey => did[p][x] = "nothing")'
    BY <1>0, <1>3, <1>4, <1>7 DEF Stored
  <2>5. SameBefore(file[run.path], run.snap)'
    BY <1>4, <1>5, <1>7 DEF SameBefore
  <2> QED
    BY <1>4, <1>5, <1>7, <2>2, <2>3, <2>4, <2>5 DEF Stored
<1>14. Kept'
  BY <1>0, <1>3, <1>4, <1>5, <1>6 DEF Kept
<1>15. Fresh'
  BY <1>0, <1>4, <1>5 DEF Fresh, InFlight
\* No later file knows the resource.
<1>16. \A q \in Path : \A x \in Id : did[q][x] # "nothing" => q <= run.path
  <2>1. \A q \in Path : q \in Nat
    BY DeploymentAssumption
  <2> QED
    BY <1>0, <2>1 DEF Newest, Exists, Stored
<1>17. Story'
  <2> SUFFICES ASSUME NEW x \in Id \ touched PROVE Tale(x)'
    BY <1>4 DEF Story
  <2>1. Tale(x) /\ \A p \in Path : Told(p, x)
    BY DEF Story, Tale
  <2>2. CASE x # i
    BY <1>4, <2>1, <2>2, TaleStays DEF Was, Told
  <2>3. CASE x = i
    <3>1. /\ ~Live(i) /\ \A p \in Path : did[p][i] # "apply"
          /\ remote.res[i].body # "want"
      BY <1>10, <2>1, <2>3 DEF Live, Tale
    <3>2. \A p \in Path : did'[p][i] = "apply" => p = run.path
      BY <1>4, <3>1
    <3>3. Live(i)' /\ remote'.res[i].body = "want"
      BY <1>0, <1>4, <1>8 DEF Live
    <3>4. LastApplies(i)'
      <4>1. \A q \in Path : did'[q][i] # "nothing" => q <= run.path
        BY <1>4, <1>16, DeploymentAssumption
      <4> QED
        BY <3>2, <4>1 DEF LastApplies
    <3>5. /\ \A p \in Path : Was(p, i)' = Was(p, i)
          /\ Was(run.path, i) = remote.res[i]
      BY <1>3, <1>4, <1>7, <1>11, <2>3 DEF Was
    <3>6. \A p \in Path : did[p][i] # "nothing" => Was(p, i) = remote.res[i]
      BY <2>1, <2>3, <3>1 DEF Told
    <3>7. \A p \in Path : did'[p][i] # "nothing" => Was(p, i) = remote.res[i]
      BY <1>4, <3>5, <3>6
    <3>8. \A p \in Path : Told(p, i)'
      <4> SUFFICES ASSUME NEW p \in Path PROVE Told(p, i)'
        OBVIOUS
      <4>1. ~(did'[p][i] = "apply" /\ file'[p][Fits[i]].state = "applied")
        BY <1>3, <1>4, <1>6, <1>7, <3>2
      <4> QED
        BY <3>1, <3>3, <3>5, <3>7, <4>1 DEF Told
    <3>9. \A p, q \in Path :
            (did[p][i] # "nothing" /\ did[q][i] # "nothing" => Was(p, i) = Was(q, i))'
      BY <3>5, <3>7
    <3>10. ((remote.res[i].body = "want") = Live(i))'
      BY <3>3 DEF Live
    <3> QED
      BY <2>3, <3>4, <3>8, <3>9, <3>10 DEF Tale
  <2> QED
    BY <2>2, <2>3
<1>18. Ready'
  <2> SUFFICES ASSUME NEW x \in Id \ touched, NEW r \in Path, did'[r][x] = "apply"
               PROVE  /\ \A j \in remote'.res[x].uses : Fits[j] \in Needs[Fits[x]]
                      /\ \A m \in Needs[Fits[x]] :
                           \E j \in remote'.res[x].uses :
                             Fits[j] = m /\ (j \in touched
                                             \/ \E p \in Path : p <= r /\ did'[p][j] = "apply")
    BY <1>4 DEF Ready
  <2>1. CASE x # i
    <3>1. did[r][x] = "apply" /\ remote'.res[x] = remote.res[x]
      BY <1>4, <2>1
    <3>2. \A p \in Path, j \in Id : did[p][j] = "apply" => did'[p][j] = "apply"
      BY <1>4
    <3>3. remote.res[x].uses \subseteq Id
      BY Typed DEF Resource
    <3> QED
      BY <3>1, <3>2, <3>3 DEF Ready
  <2>2. CASE x = i
    <3>1. r = run.path
      BY <1>4, <1>10, <2>2 DEF Live
    <3>2. remote'.res[x].uses = UNION {Found(run.state, m) : m \in Needs[K]}
      <4>1. P.uses = UNION {Found(run.state, m) : m \in Needs[K]}
        BY DEF Payload
      <4> QED
        BY <1>4, <2>2, <4>1
    <3>3. \A j \in remote'.res[x].uses : Fits[j] \in Needs[K]
      BY <3>2 DEF Found
    <3>4. ASSUME NEW m \in Needs[K]
          PROVE  \E j \in remote'.res[x].uses :
                   Fits[j] = m /\ (j \in touched
                                   \/ \E p \in Path : p <= r /\ did'[p][j] = "apply")
      <4>1. PICK j \in Found(run.state, m) : TRUE
        BY <1>6 DEF Unresolved
      <4>2. j \in Id /\ Fits[j] = m /\ j \in remote'.res[x].uses
        BY <3>2 DEF Found, Present
      <4>3. m \in Key
        BY <1>0, InventoryAssumption DEF ValidConfig
      <4>4. PICK b \in 1..n : Order[b] = m
        BY <4>3, OrderFacts
      <4>5. b < run.at
        BY <1>0, <4>4, OrderFacts DEF K
      <4>6. j \in touched \/ Live(j)
        BY <1>0, <4>4, <4>5 DEF ApplyGoes
      <4>7. Live(j) => \E p \in Path : p <= r /\ did'[p][j] = "apply"
        BY <1>4, <1>16, <3>1, <4>2 DEF Live
      <4> QED
        BY <4>2, <4>6, <4>7
    <3> QED
      BY <1>3, <2>2, <3>3, <3>4
  <2> QED
    BY <2>1, <2>2
<1>19. ApplyGoes'
  <2>1. \A a \in 1..n : run.snap[Order[a]].state \in ApplyStates(a)'
    BY <1>0, <1>5 DEF ApplyGoes, ApplyStates
  <2>2. \A j \in Id : Live(j) => Live(j)'
    BY <1>4 DEF Live
  <2>3. \A a \in 1..n : a < run.at =>
          \A j \in Found(run.state, Order[a]) : j \in touched \/ Live(j)'
    <3>1. \A k : Found(run.state, k) \subseteq Id
      BY DEF Found, Present
    <3> QED
      BY <1>0, <2>2, <3>1 DEF ApplyGoes
  <2>4. StillAsRecorded(K)'
    BY <1>5, <1>6 DEF StillAsRecorded
  <2>5. Asked'
    BY <1>0, <1>2, <1>3, <1>4, <1>5, <1>6 DEF Asked
  <2> QED
    BY <1>4, <1>5, <1>6, <2>1, <2>3, <2>4, <2>5 DEF ApplyGoes
<1>20. RollbackGoes'
  BY <1>5 DEF RollbackGoes
<1> QED
  BY <1>1, <1>12, <1>13, <1>14, <1>15, <1>17, <1>18, <1>19, <1>20

-----------------------------------------------------------------------------
(* What an apply sees and writes down. *)

\* What is recorded as applied has been seen.
LEMMA VerifyKeeps ==
  ASSUME Inv, Verify
  PROVE  Inv'
<1> USE DEF Inv
<1> DEFINE P == Payload(run.state, K)
           t == run.target
           c == IF Found(run.state, K) = {} THEN t ELSE noId
<1>0. /\ run \in Command /\ run.snap \in Snapshot
      /\ run.cmd = "apply" /\ run.step = "verify" /\ Stage = "verify" /\ Applying /\ ~Rolling
      /\ run.at \in 1..n /\ K \in Key /\ K # noKey /\ run.path \in Path
  <2>1. run \in Command /\ run.step = "verify" /\ Stage = "verify"
    BY DEF Verify, TypeOK, Stage
  <2>2. run.cmd = "apply" /\ run.path \in Path /\ run.snap \in Snapshot /\ Applying /\ ~Rolling
    BY <2>1, Typed DEF Flow, Rolling, Command, Applying
  <2> QED
    BY <2>1, <2>2, KeyTyped, InventoryAssumption
<1>1. TypeOK'
  BY ApplyTyped
<1>2. UNCHANGED <<remote, seen, touched, moved, did, file, partial>>
  BY DEF Verify, Account, BeginSave
<1>3. CASE run' = [run EXCEPT !.reads = @ + 1] /\ UNCHANGED <<file, temp>>
  <2>1. /\ run'.at = run.at /\ run'.cmd = run.cmd /\ run'.step = run.step
        /\ run'.path = run.path /\ run'.snap = run.snap /\ run'.state = run.state
        /\ run'.target = run.target /\ run'.then = run.then
    BY <1>0, <1>3 DEF Command
  <2>2. /\ Stage' = Stage /\ Applying' = Applying /\ Rolling' = Rolling /\ K' = K
        /\ \A a : ApplyStates(a)' = ApplyStates(a)
        /\ StillAsRecorded(K)' = StillAsRecorded(K)
        /\ \A i : Live(i)' = Live(i) /\ InFlight(i)' = InFlight(i)
    BY <1>2, <2>1 DEF Stage, Applying, Rolling, K, ApplyStates, StillAsRecorded, Live, InFlight
  <2>3. Newest' /\ Story' /\ Ready' /\ Stored'
    BY <1>0, <1>2, <2>1, <2>2, QuietStep DEF Stored, SameBefore
  <2>4. Flow' /\ Kept' /\ Fresh'
    BY <1>0, <1>2, <2>1, <2>2 DEF Flow, Kept, Fresh
  <2>5. Asked'
    BY <1>0, <1>2, <2>1, <2>2 DEF Asked, ApplyGoes
  <2>6. ApplyGoes' /\ RollbackGoes'
    BY <1>0, <1>2, <2>1, <2>2, <2>5 DEF ApplyGoes, RollbackGoes
  <2> QED
    BY <1>1, <2>3, <2>4, <2>6
<1>4. CASE /\ seen.res[t] = P
           /\ BeginSave([run EXCEPT !.state = seen, !.at = @ + 1, !.then = "choose",
                !.snap[K] = [@ EXCEPT !.created = c, !.after = seen.res[t],
                                      !.state = "applied"]])
  <2>1. /\ run'.at = run.at + 1 /\ run'.cmd = run.cmd /\ run'.path = run.path
        /\ run'.step = "saving" /\ run'.then = "choose" /\ run'.state = seen
        /\ run'.snap = [run.snap EXCEPT ![K] = [@ EXCEPT !.created = c,
                                          !.after = seen.res[t], !.state = "applied"]]
        /\ Stage' = "choose" /\ Applying' /\ ~Rolling'
    BY <1>0, <1>4 DEF BeginSave, Stage, Applying, Rolling, Command
  <2>2. \A k \in Key : k # K => run'.snap[k] = run.snap[k]
    BY <1>0, <2>1 DEF Snapshot
  <2>3. /\ run'.snap[K].id = run.snap[K].id /\ run'.snap[K].before = run.snap[K].before
        /\ run'.snap[K].created = c /\ run'.snap[K].after = P
        /\ run'.snap[K].state = "applied"
    BY <1>0, <1>4, <2>1, RecordTypes DEF Snapshot, Record
  <2>4. /\ t \in Id /\ Fits[t] = K
        /\ Found(run.state, K) = {} \/ t = IdOf(run.state, K)
        /\ \A i \in Id : Fits[i] = K =>
             (did[run.path][i] = IF i = t THEN "apply" ELSE "nothing")
        /\ t \in moved \/ remote.res[t] = P
        /\ ~Refuses(run.state) /\ StillAsRecorded(K)
    BY <1>0 DEF ApplyGoes, Asked
  <2>5. P \in Resource /\ P # Absent
    BY <1>0, PayloadFacts, Typed
  <2>6. /\ True(run.snap, run.path) /\ file[run.path] = run.snap
        /\ file[run.path] # NoSnapshot
    BY <1>0 DEF Stored
  <2>7. /\ (run.snap[K].before = Absent) = (Found(run.state, K) = {})
        /\ run.snap[K].before # Absent => run.snap[K].id = t
    <3>1. CASE Found(run.state, K) = {}
      BY <2>4, <3>1 DEF StillAsRecorded
    <3>2. CASE Found(run.state, K) # {}
      BY <1>0, <2>4, <3>2, OnlyAnswer DEF StillAsRecorded
    <3> QED
      BY <3>1, <3>2
  <2>8. Target(run'.snap[K]) = t
    BY <2>3, <2>4, <2>7, DeploymentAssumption DEF Target
  <2>9. Readable(run'.snap)
    <3> SUFFICES ASSUME NEW k \in Key PROVE Readable(run'.snap)!(k)
      BY DEF Readable
    <3>1. Readable(run.snap)!(k)
      BY <2>6 DEF True, Readable
    <3>2. CASE k # K
      BY <2>2, <3>1, <3>2
    <3>3. CASE k = K
      BY <2>3, <2>4, <2>5, <2>7, <3>1, <3>3, DeploymentAssumption
    <3> QED
      BY <3>2, <3>3
  <2>10. True(run'.snap, run.path)
    <3>1. ASSUME NEW i \in Id, Fits[i] # noKey
          PROVE  TellsOf(run'.snap[Fits[i]], did[run.path][i], i)
      <4>1. Fits[i] \in Key /\ TellsOf(run.snap[Fits[i]], did[run.path][i], i)
        BY <2>6, <3>1, InventoryAssumption DEF True
      <4>2. CASE Fits[i] # K
        BY <2>2, <4>1, <4>2
      <4>3. CASE Fits[i] = K
        BY <2>3, <2>4, <2>8, <4>3 DEF TellsOf
      <4> QED
        BY <4>2, <4>3
    <3>2. \A k \in Key : /\ run'.snap[k].id # noId => Fits[run'.snap[k].id] = k
                         /\ run'.snap[k].created # noId => Fits[run'.snap[k].created] = k
      BY <2>2, <2>3, <2>4, <2>6 DEF True
    <3> QED
      BY <2>9, <3>1, <3>2 DEF True
  <2>11. Stored'
    <3>1. SameBefore(file[run.path], run.snap)'
      BY <1>2, <2>1, <2>2, <2>3, <2>6 DEF SameBefore
    <3>2. True(run.snap, run.path)'
      <4>1. run'.path = run.path
        BY <2>1
      <4> QED
        BY <1>2, <2>10, <4>1, QuietStep
    <3> QED
      BY <1>2, <2>1, <2>6, <3>1, <3>2, QuietStep DEF Stored
  <2>12. Newest' /\ Story' /\ Ready'
    BY <1>2, <2>1, QuietStep
  <2>13. Kept'
    <3> SUFFICES ASSUME NEW i \in Id \ touched, did[run.path][i] = "apply",
                        run'.snap[Fits[i]].state = "applied"
                 PROVE  remote.res[i] = run'.snap[Fits[i]].after
      BY <1>2, <2>1 DEF Kept
    <3>1. CASE Fits[i] = K
      BY <2>3, <2>4, <3>1 DEF Fresh
    <3>2. CASE Fits[i] # K
      <4>1. Fits[i] \in Key
        BY <1>0, InventoryAssumption DEF Stored
      <4> QED
        BY <1>0, <2>2, <3>2, <4>1 DEF Kept
    <3> QED
      BY <3>1, <3>2
  <2>14. Fresh'
    <3> SUFFICES ASSUME NEW i \in Id \ moved PROVE seen.res[i] = remote.res[i]
      BY <1>2, <2>1 DEF Fresh
    <3>1. CASE i = t
      BY <1>4, <2>4, <3>1
    <3>2. CASE i # t
      BY <1>0, <3>2 DEF Fresh, InFlight
    <3> QED
      BY <3>1, <3>2
  <2>15. Flow'
    <3>1. c \in Id \cup {noId} /\ seen.res[t] \in Resource
      BY <2>4, Typed
    <3>2. run'.snap # NoSnapshot
      <4>1. [run.snap EXCEPT ![K] = [@ EXCEPT !.created = c, !.after = seen.res[t],
                                              !.state = "applied"]] \in Snapshot
        BY <1>0, <3>1, SnapshotApplied DEF States
      <4> QED
        BY <2>1, <4>1, SnapshotIsSome
    <3>3. run'.at # 0
      BY <1>0, <2>1
    <3> QED
      BY <1>0, <1>2, <2>1, <3>2, <3>3 DEF Flow
  <2>16. ApplyGoes'
    <3>1. \A a \in 1..n : run'.snap[Order[a]].state \in ApplyStates(a)'
      <4> SUFFICES ASSUME NEW a \in 1..n
                   PROVE  run'.snap[Order[a]].state \in ApplyStates(a)'
        OBVIOUS
      <4>1. CASE a = run.at
        BY <1>0, <2>1, <2>3, <4>1 DEF ApplyStates, K
      <4>2. CASE a # run.at
        <5>1. Order[a] # K /\ Order[a] \in Key
          BY <1>0, <4>2, OrderFacts DEF K
        <5>2. run.snap[Order[a]].state \in ApplyStates(a)
          BY <1>0 DEF ApplyGoes
        <5> QED
          BY <1>0, <2>1, <2>2, <4>2, <5>1, <5>2 DEF ApplyStates
      <4> QED
        BY <4>1, <4>2
    <3>2. ASSUME NEW a \in 1..n, a < run'.at, NEW j \in Found(seen, Order[a]), j \notin touched
          PROVE  Live(j)
      <4>1. j \in Id /\ Fits[j] = Order[a] /\ seen.res[j] # Absent /\ j \notin moved
        BY <3>2 DEF Found, Present, Fresh
      <4>2. CASE j = t
        BY <1>0, <2>4, <4>2 DEF Live
      <4>3. CASE j # t
        <5>1. run.state.res[j] = seen.res[j]
          BY <1>0, <4>1, <4>3 DEF Fresh, InFlight
        <5>2. j \in Found(run.state, Order[a])
          BY <4>1, <5>1, FoundFacts
        <5>3. a # run.at
          BY <1>0, <2>4, <4>3, <5>2, OnlyAnswer DEF K
        <5> QED
          BY <1>0, <2>1, <3>2, <5>2, <5>3 DEF ApplyGoes
      <4> QED
        BY <4>2, <4>3
    <3> QED
      BY <1>2, <2>1, <3>1, <3>2 DEF ApplyGoes, Live
  <2>17. RollbackGoes'
    BY <2>1 DEF RollbackGoes
  <2> QED
    BY <1>1, <2>11, <2>12, <2>13, <2>14, <2>15, <2>16, <2>17
<1> QED
  BY <1>3, <1>4 DEF Verify

\* The digests taken at the end are those of what was applied.
LEMMA ConcludeKeeps ==
  ASSUME Inv, Conclude
  PROVE  Inv'
<1> USE DEF Inv
<1> DEFINE new == [k \in Key |->
                     IF run.snap[k].state # "applied" THEN run.snap[k]
                     ELSE [run.snap[k] EXCEPT !.after = run.state.res[IdOf(run.state, k)]]]
<1>0. /\ run \in Command /\ run.snap \in Snapshot
      /\ run.cmd = "apply" /\ run.step = "choose" /\ Stage = "choose" /\ Applying /\ ~Rolling
      /\ run.at = n + 1 /\ run.path \in Path
      /\ ~Refuses(run.state) /\ InPlace(run.state)
  <2>1. run \in Command /\ run.step = "choose" /\ Stage = "choose" /\ run.at = n + 1
        /\ ~Refuses(run.state) /\ InPlace(run.state)
    BY DEF Conclude, TypeOK, Stage
  <2>2. run.cmd = "apply" /\ run.path \in Path /\ run.snap \in Snapshot /\ Applying /\ ~Rolling
    BY <2>1, Typed DEF Flow, Rolling, Command, Applying
  <2> QED
    BY <2>1, <2>2
<1>1. TypeOK'
  BY ApplyTyped
<1>2. UNCHANGED <<remote, seen, touched, moved, did, file, partial>>
  BY DEF Conclude, Account, BeginSave
<1>3. /\ run'.at = run.at /\ run'.cmd = run.cmd /\ run'.path = run.path
      /\ run'.step = "saving" /\ run'.then = "done" /\ run'.state = run.state
      /\ run'.snap = new
      /\ Stage' = "done" /\ Applying' /\ ~Rolling'
  BY <1>0 DEF Conclude, BeginSave, Stage, Applying, Rolling, Command
<1>4. \A k \in Key : Found(run.state, k) # {}
  BY <1>0 DEF InPlace, PlanFor
<1>5. ASSUME NEW k \in Key
      PROVE  /\ new[k].id = run.snap[k].id /\ new[k].before = run.snap[k].before
             /\ new[k].created = run.snap[k].created /\ new[k].state = run.snap[k].state
             /\ new[k].state # "applied" => new[k].after = run.snap[k].after
             /\ new[k].state = "applied" => /\ new[k].after = run.state.res[IdOf(run.state, k)]
                                            /\ new[k].after # Absent
  <2>1. run.snap[k] \in Record
    BY <1>0, RecordTypes
  <2>2. run.state.res[IdOf(run.state, k)] # Absent
    BY <1>4, AnswerIsFound
  <2> QED
    BY <2>1, <2>2 DEF Record
<1>6. /\ True(run.snap, run.path) /\ file[run.path] = run.snap /\ file[run.path] # NoSnapshot
  BY <1>0 DEF Stored
<1>7. Stored'
  <2>1. Readable(new)
    <3> SUFFICES ASSUME NEW k \in Key PROVE Readable(new)!(k)
      BY DEF Readable
    <3>1. Readable(run.snap)!(k)
      BY <1>6 DEF True, Readable
    <3> QED
      BY <1>5, <3>1
  <2>2. ASSUME NEW i \in Id, Fits[i] # noKey
        PROVE  TellsOf(new[Fits[i]], did[run.path][i], i)
    <3>1. Fits[i] \in Key /\ TellsOf(run.snap[Fits[i]], did[run.path][i], i)
      BY <1>6, <2>2, InventoryAssumption DEF True
    <3> QED
      BY <1>5, <3>1 DEF TellsOf, Target
  <2>3. True(new, run.path)
    BY <1>5, <1>6, <2>1, <2>2 DEF True
  <2>4. True(run.snap, run.path)'
    <3>1. run'.path = run.path /\ run'.snap = new
      BY <1>3
    <3>2. True(run'.snap, run'.path)
      BY <2>3, <3>1
    <3> QED
      BY <1>2, <3>2, QuietStep
  <2>5. SameBefore(file[run.path], run.snap)'
    BY <1>2, <1>3, <1>5, <1>6 DEF SameBefore
  <2> QED
    BY <1>2, <1>3, <1>6, <2>4, <2>5, QuietStep DEF Stored
<1>8. Newest' /\ Story' /\ Ready'
  BY <1>2, <1>3, QuietStep
<1>9. Kept'
  <2> SUFFICES ASSUME NEW i \in Id \ touched, did[run.path][i] = "apply",
                      new[Fits[i]].state = "applied"
               PROVE  remote.res[i] = new[Fits[i]].after
    BY <1>2, <1>3 DEF Kept
  <2>1. Fits[i] \in Key
    BY <1>0, InventoryAssumption DEF Stored
  <2>2. remote.res[i] = run.snap[Fits[i]].after
    BY <1>0, <1>5, <2>1 DEF Kept
  <2>3. remote.res[i] # Absent
    BY <1>5, <1>6, <2>1, <2>2 DEF True, Readable
  <2>4. run.state.res[i] = remote.res[i]
    BY <1>0 DEF Fresh, InFlight
  <2>5. i \in Found(run.state, Fits[i])
    BY <2>3, <2>4, FoundFacts
  <2> QED
    BY <1>0, <1>5, <2>1, <2>4, <2>5, OnlyAnswer
<1>10. Fresh'
  BY <1>0, <1>2, <1>3 DEF Fresh, InFlight
<1>11. Flow'
  <2>1. run'.snap # NoSnapshot
    <3>1. \A k \in Key : IdOf(run.state, k) \in Id
      BY <1>4, AnswerIsFound
    <3> QED
      BY <1>0, <1>3, <3>1, SnapshotRefreshed, SnapshotIsSome, Typed
  <2>2. run'.at # 0
    BY <1>0, <1>3, OrderFacts
  <2> QED
    BY <1>0, <1>2, <1>3, <2>1, <2>2 DEF Flow
<1>12. ApplyGoes'
  <2>1. \A a \in 1..n : new[Order[a]].state \in ApplyStates(a)'
    BY <1>0, <1>3, <1>5, OrderFacts DEF ApplyGoes, ApplyStates
  <2> QED
    BY <1>0, <1>2, <1>3, <2>1 DEF ApplyGoes, Live
<1>13. RollbackGoes'
  BY <1>3 DEF RollbackGoes
<1> QED
  BY <1>1, <1>7, <1>8, <1>9, <1>10, <1>11, <1>12, <1>13

-----------------------------------------------------------------------------
(* Steps of a rollback. *)

\* What the verdict on a record means.
LEMMA StatusFacts ==
  ASSUME NEW s, NEW rec, rec.state \in States \ {"pending"}
  PROVE  /\ StatusOf(s, rec) = "skip" => rec.state \in {"not_started", "rolled_back"}
         /\ StatusOf(s, rec) = "already" =>
              /\ rec.state = "applied" /\ s.res[Target(rec)] = rec.before
              /\ rec.after # Absent => s.res[Target(rec)] # rec.after
         /\ StatusOf(s, rec) = "needs" =>
              rec.state = "applied" /\ s.res[Target(rec)] = rec.after
<1> DEFINE now == s.res[Target(rec)]
<1>1. CASE rec.state \in {"not_started", "rolled_back"}
  BY <1>1 DEF StatusOf
<1>2. CASE rec.state = "applied"
  <2>1. CASE now = Absent /\ rec.before = Absent
    BY <1>2, <2>1 DEF StatusOf
  <2>2. CASE now = Absent /\ rec.before # Absent
    BY <1>2, <2>2 DEF StatusOf
  <2>3. CASE now # Absent /\ now = rec.after
    BY <1>2, <2>3 DEF StatusOf
  <2>4. CASE now # Absent /\ now # rec.after
    BY <1>2, <2>4 DEF StatusOf
  <2> QED
    BY <2>1, <2>2, <2>3, <2>4
<1> QED
  BY <1>1, <1>2 DEF States

\* A rollback begins when nothing later is unfinished, so nothing later is applied.
LEMMA BeginRollbackKeeps ==
  ASSUME Inv, NEW r \in Path, BeginRollback(r)
  PROVE  Inv'
<1> USE DEF Inv
<1>1. TypeOK'
  BY RollbackTyped
<1>2. /\ run'.cmd = "rollback" /\ run'.step = "back" /\ run'.path = r /\ Stage' = "back"
      /\ run'.at = n /\ run'.snap = file[r] /\ run'.state = remote
      /\ seen' = remote /\ moved' = {} /\ ~Applying' /\ Rolling'
  BY DEF BeginRollback, Begin, Idle, Stage, Applying, Rolling
<1>3. UNCHANGED <<remote, touched, did, file, partial>>
  BY DEF BeginRollback, Begin
<1>4. /\ file[r] # NoSnapshot /\ file[r] \in Snapshot /\ True(file[r], r)
      /\ \A k \in Key : file[r][k].state # "pending"
      /\ \A q \in Path : q > r /\ file[q] # NoSnapshot => ~Unfinished(file[q])
  <2>1. file[r] # NoSnapshot
    BY DEF BeginRollback
  <2> QED
    BY <2>1, Typed DEF BeginRollback, Stored
<1>5. Story' /\ Ready'
  BY <1>3, QuietStep
<1>6. Stored'
  <2>1. True(run.snap, run.path)'
    BY <1>2, <1>3, <1>4 DEF True, TellsOf
  <2>2. SameBefore(file[run.path], run.snap)'
    BY <1>2, <1>3 DEF SameBefore
  <2> QED
    BY <1>2, <1>3, <1>4, <2>1, <2>2, QuietStep DEF Stored
<1>7. Newest' /\ Fresh'
  BY <1>2, <1>3 DEF Newest, Exists, Fresh
<1>8. Kept'
  <2>1. \A i \in Id \ touched : Told(r, i)
    BY DEF Story, Tale
  <2> QED
    BY <1>2, <1>3, <2>1 DEF Kept, Told
<1>9. Flow'
  BY <1>2, <1>3, <1>4, OrderFacts DEF Flow
<1>10. RollbackGoes'
  <2>1. ASSUME NEW q \in Path, q > r, NEW i \in Id \ touched, did[q][i] = "apply"
        PROVE  FALSE
    <3>1. file[q] # NoSnapshot /\ Fits[i] \in Key
      BY <2>1, InventoryAssumption DEF Stored
    <3>2. file[q][Fits[i]].state \in {"not_started", "rolled_back"}
      BY <1>4, <2>1, <3>1, RecordTypes, Typed DEF Unfinished, States
    <3>3. TellsOf(file[q][Fits[i]], did[q][i], i)
      BY <3>1, InventoryAssumption DEF Stored, True
    <3> QED
      BY <2>1, <3>2, <3>3 DEF TellsOf
  <2>2. \A a \in 1..n : file[r][Order[a]].state \in RollbackStates(a)'
    <3> SUFFICES ASSUME NEW a \in 1..n
                 PROVE  file[r][Order[a]].state \in RollbackStates(a)'
      OBVIOUS
    <3>1. file[r][Order[a]].state \in {"not_started", "applied", "rolled_back"}
      BY <1>4, OrderFacts, RecordTypes DEF States
    <3> QED
      BY <1>2, <3>1, OrderFacts DEF RollbackStates
  <2> QED
    BY <1>2, <1>3, <2>1, <2>2 DEF RollbackGoes
<1>11. ApplyGoes'
  BY <1>2 DEF ApplyGoes
<1> QED
  BY <1>1, <1>5, <1>6, <1>7, <1>8, <1>9, <1>10, <1>11

\* A record is taken for rolled back when the resource no longer is as applied.
LEMMA RolledBackKeeps ==
  ASSUME Inv, Rolling, Stage \in {"back", "recheck"}, run.at \in 1..n,
         run.snap[K].state = "applied",
         \/ did[run.path][Target(run.snap[K])] # "apply"
         \/ Target(run.snap[K]) \in touched,
         NEW s \in Reading,
         \A i \in Id \ moved : s.res[i] = remote.res[i] /\ seen.res[i] = remote.res[i],
         TypeOK', UNCHANGED <<remote, seen, touched, moved, did, file, partial>>,
         run' = [run EXCEPT !.state = s, !.snap[K].state = "rolled_back", !.at = @ - 1,
                            !.then = "back", !.step = "saving"]
  PROVE  Inv'
<1> USE DEF Inv
<1>1. /\ run \in Command /\ run.snap \in Snapshot /\ run.cmd = "rollback"
      /\ K \in Key /\ run.path \in Path /\ ~Applying
  <2>1. run \in Command /\ run.cmd = "rollback" /\ ~Applying
    BY DEF TypeOK, Rolling, Applying
  <2>2. run.step \notin {"plan", "write"}
    BY DEF Stage
  <2> QED
    BY <2>1, <2>2, Typed, OrderFacts DEF Flow, K
<1>2. /\ run'.at = run.at - 1 /\ run'.cmd = run.cmd /\ run'.path = run.path
      /\ run'.step = "saving" /\ run'.then = "back" /\ run'.state = s
      /\ run'.snap = [run.snap EXCEPT ![K].state = "rolled_back"]
      /\ Stage' = "back" /\ ~Applying' /\ Rolling'
  BY <1>1 DEF Stage, Applying, Rolling, Command
<1>3. \A k \in Key : /\ run'.snap[k].id = run.snap[k].id
                     /\ run'.snap[k].before = run.snap[k].before
                     /\ run'.snap[k].created = run.snap[k].created
                     /\ run'.snap[k].after = run.snap[k].after
                     /\ run'.snap[k].state =
                          IF k = K THEN "rolled_back" ELSE run.snap[k].state
  BY <1>1, <1>2, RecordTypes DEF Snapshot, Record
<1>4. /\ True(run.snap, run.path) /\ SameBefore(file[run.path], run.snap)
      /\ file[run.path] # NoSnapshot
  BY <1>1 DEF Stored
<1>5. True(run'.snap, run.path)
  <2>1. Readable(run'.snap)
    <3> SUFFICES ASSUME NEW k \in Key PROVE Readable(run'.snap)!(k)
      BY DEF Readable
    <3>1. Readable(run.snap)!(k)
      BY <1>4 DEF True, Readable
    <3> QED
      BY <1>3, <3>1
  <2>2. ASSUME NEW i \in Id, Fits[i] # noKey
        PROVE  TellsOf(run'.snap[Fits[i]], did[run.path][i], i)
    <3>1. /\ Fits[i] \in Key /\ TellsOf(run.snap[Fits[i]], did[run.path][i], i)
          /\ did[run.path][i] \in {"nothing", "apply", "undo"}
      BY <1>1, <1>4, <2>2, InventoryAssumption DEF True, TypeOK
    <3>2. Target(run'.snap[Fits[i]]) = Target(run.snap[Fits[i]])
      BY <1>3, <3>1 DEF Target
    <3>3. CASE Fits[i] # K
      <4>1. run'.snap[Fits[i]].state = run.snap[Fits[i]].state
        BY <1>3, <3>1, <3>3
      <4> QED
        BY <3>1, <3>2, <4>1 DEF TellsOf
    <3>4. CASE Fits[i] = K
      <4>1. run'.snap[Fits[i]].state = "rolled_back"
        BY <1>3, <3>1, <3>4
      <4> QED
        BY <3>1, <3>2, <3>4, <4>1 DEF TellsOf
    <3> QED
      BY <3>3, <3>4
  <2> QED
    BY <1>3, <1>4, <2>1, <2>2 DEF True
<1>6. Stored'
  <2>1. True(run.snap, run.path)'
    <3>1. run'.path = run.path
      BY <1>2
    <3> QED
      BY <1>5, <3>1, QuietStep
  <2>2. SameBefore(file[run.path], run.snap)'
    BY <1>2, <1>3, <1>4 DEF SameBefore
  <2> QED
    BY <1>2, <1>4, <2>1, <2>2, QuietStep DEF Stored
<1>7. Newest' /\ Story' /\ Ready'
  BY <1>2, QuietStep
<1>8. Kept'
  <2> SUFFICES ASSUME NEW i \in Id \ touched, did[run.path][i] = "apply",
                      run'.snap[Fits[i]].state = "applied"
               PROVE  remote.res[i] = run'.snap[Fits[i]].after
    BY <1>2 DEF Kept
  <2>1. Fits[i] \in Key
    BY <1>1, InventoryAssumption DEF Stored
  <2> QED
    BY <1>3, <2>1 DEF Kept
<1>9. Fresh'
  BY <1>2 DEF Fresh
<1>10. Flow'
  <2>1. run'.snap # NoSnapshot
    BY <1>1, <1>2, SnapshotChanged, SnapshotIsSome DEF States
  <2>2. run'.at # n + 1
    BY <1>2, OrderFacts
  <2> QED
    BY <1>1, <1>2, <2>1, <2>2 DEF Flow
<1>11. RollbackGoes'
  <2>1. ASSUME NEW a \in 1..n
        PROVE  run'.snap[Order[a]].state \in RollbackStates(a)'
    <3>1. run.snap[Order[a]].state \in RollbackStates(a) /\ Order[a] \in Key
      BY OrderFacts DEF RollbackGoes
    <3>2. CASE a = run.at
      <4>1. run'.snap[Order[a]].state = "rolled_back"
        BY <1>3, <3>1, <3>2 DEF K
      <4>2. a > run'.at
        BY <1>2, <3>2
      <4> QED
        BY <4>1, <4>2 DEF RollbackStates
    <3>3. CASE a # run.at
      <4>1. Order[a] # K
        BY <3>3, OrderFacts DEF K
      <4> QED
        BY <1>2, <1>3, <3>1, <3>3, <4>1 DEF RollbackStates
    <3> QED
      BY <3>2, <3>3
  <2> QED
    BY <1>2, <2>1 DEF RollbackGoes
<1>12. ApplyGoes'
  BY <1>2 DEF ApplyGoes
<1> QED
  BY <1>6, <1>7, <1>8, <1>9, <1>10, <1>11, <1>12

\* Passing over, or finding undone, what is not as applied keeps the invariant.
LEMMA BackKeeps ==
  ASSUME Inv, Back
  PROVE  Inv'
<1> USE DEF Inv
<1>0. /\ run \in Command /\ run.snap \in Snapshot
      /\ run.cmd = "rollback" /\ run.step = "back" /\ Stage = "back" /\ Rolling /\ ~Applying
      /\ run.at \in 1..n /\ K \in Key /\ run.path \in Path
  <2>1. run \in Command /\ run.step = "back" /\ Stage = "back" /\ run.at >= 1
    BY DEF Back, TypeOK, Stage
  <2>2. run.cmd = "rollback" /\ run.path \in Path /\ run.snap \in Snapshot /\ Rolling
        /\ ~Applying /\ run.at # n + 1
    BY <2>1, Typed DEF Flow, Rolling, Command, Applying
  <2> QED
    BY <2>1, <2>2, Typed, AtTyped
<1>1. TypeOK'
  BY RollbackTyped
<1>2. UNCHANGED <<remote, seen, touched, moved, did, partial>>
  BY DEF Back, Account
<1>3. /\ run.snap[K].state \in States \ {"pending"}
      /\ run.snap[K].state \in {"not_started", "applied", "rolled_back"}
  BY <1>0 DEF RollbackGoes, RollbackStates, K, States
<1>4. True(run.snap, run.path) /\ file[run.path] = run.snap
  BY <1>0 DEF Stored
<1>5. CASE StatusOf(run.state, run.snap[K]) = "skip"
           /\ run' = [run EXCEPT !.at = @ - 1] /\ UNCHANGED <<file, temp>>
  <2>1. /\ run'.at = run.at - 1 /\ run'.cmd = run.cmd /\ run'.path = run.path
        /\ run'.step = run.step /\ run'.snap = run.snap /\ run'.state = run.state
        /\ Stage' = "back" /\ ~Applying' /\ Rolling'
    BY <1>0, <1>5 DEF Stage, Applying, Rolling, Command
  <2>2. run.snap[K].state \in {"not_started", "rolled_back"}
    BY <1>3, <1>5, StatusFacts
  <2>3. Newest' /\ Story' /\ Ready' /\ Stored'
    BY <1>0, <1>2, <1>5, <2>1, QuietStep DEF Stored, SameBefore
  <2>4. Kept' /\ Fresh'
    BY <1>0, <1>2, <2>1 DEF Kept, Fresh, InFlight
  <2>5. run'.at # n + 1
    BY <1>0, <2>1, OrderFacts
  <2>6. Flow'
    BY <1>0, <1>2, <1>5, <2>1, <2>5 DEF Flow
  <2>7. ASSUME NEW a \in 1..n
        PROVE  run.snap[Order[a]].state \in RollbackStates(a)'
    <3>1. run.snap[Order[a]].state \in RollbackStates(a)
      BY <1>0 DEF RollbackGoes
    <3>2. CASE a = run.at
      BY <2>1, <2>2, <3>2 DEF RollbackStates, K
    <3>3. CASE a # run.at
      BY <1>0, <2>1, <3>1, <3>3 DEF RollbackStates
    <3> QED
      BY <3>2, <3>3
  <2>8. ApplyGoes' /\ RollbackGoes'
    BY <1>0, <1>2, <2>1, <2>7 DEF ApplyGoes, RollbackGoes
  <2> QED
    BY <1>1, <2>3, <2>4, <2>6, <2>8
<1>6. CASE StatusOf(run.state, run.snap[K]) = "already" /\ RolledBack(run, K)
  <2> DEFINE i == Target(run.snap[K])
  <2>1. /\ run.snap[K].state = "applied"
        /\ run.snap[K].after # Absent /\ run.state.res[i] # run.snap[K].after
    <3>1. run.snap[K].state = "applied"
      BY <1>3, <1>6, StatusFacts
    <3>2. run.snap[K].after # Absent
      BY <1>0, <1>4, <3>1 DEF True, Readable
    <3> QED
      BY <1>3, <1>6, <3>1, <3>2, StatusFacts
  <2>2. i \in Id /\ Fits[i] = K
    BY <1>0, <1>4, <2>1, TargetFits
  <2>3. did[run.path][i] # "apply" \/ i \in touched
    <3> SUFFICES ASSUME did[run.path][i] = "apply", i \notin touched PROVE FALSE
      OBVIOUS
    <3>1. remote.res[i] = run.snap[K].after
      BY <1>0, <2>1, <2>2 DEF Kept
    <3>2. run.state.res[i] = remote.res[i]
      BY <1>0, <2>2 DEF Fresh, InFlight
    <3> QED
      BY <2>1, <3>1, <3>2
  <2>4. run' = [run EXCEPT !.state = run.state, !.snap[K].state = "rolled_back",
                           !.at = @ - 1, !.then = "back", !.step = "saving"]
    BY <1>0, <1>6 DEF RolledBack, BeginSave, Command
  <2>5. UNCHANGED file
    BY <1>6 DEF RolledBack, BeginSave
  <2>6. \A x \in Id \ moved : run.state.res[x] = remote.res[x] /\ seen.res[x] = remote.res[x]
    BY <1>0 DEF Fresh, InFlight
  <2> QED
    BY <1>0, <1>1, <1>2, <2>1, <2>3, <2>4, <2>5, <2>6, Typed, RolledBackKeeps
<1>7. CASE StatusOf(run.state, run.snap[K]) = "needs"
           /\ Goto("undo") /\ UNCHANGED <<file, temp>>
  <2>1. /\ run'.at = run.at /\ run'.cmd = run.cmd /\ run'.path = run.path
        /\ run'.step = "undo" /\ run'.snap = run.snap /\ run'.state = run.state
        /\ Stage' = "undo" /\ ~Applying' /\ Rolling' /\ K' = K
    BY <1>0, <1>7 DEF Goto, Stage, Applying, Rolling, K, Command
  <2>2. /\ run.snap[K].state = "applied"
        /\ run.state.res[Target(run.snap[K])] = run.snap[K].after
    BY <1>3, <1>7, StatusFacts
  <2>3. Newest' /\ Story' /\ Ready' /\ Stored'
    BY <1>0, <1>2, <1>7, <2>1, QuietStep DEF Stored, SameBefore
  <2>4. Kept' /\ Fresh'
    BY <1>0, <1>2, <2>1 DEF Kept, Fresh, InFlight
  <2>5. Flow'
    BY <1>0, <1>2, <1>7, <2>1 DEF Flow
  <2>6. \A a \in 1..n : run.snap[Order[a]].state \in RollbackStates(a)'
    BY <1>0, <2>1, <2>2 DEF RollbackGoes, RollbackStates, K
  <2>7. ApplyGoes' /\ RollbackGoes'
    BY <1>0, <1>2, <2>1, <2>2, <2>6 DEF ApplyGoes, RollbackGoes, Target
  <2> QED
    BY <1>1, <2>3, <2>4, <2>5, <2>7
<1> QED
  BY <1>5, <1>6, <1>7 DEF Back

\* What is recorded as rolled back has been seen to be as before.
LEMMA RecheckKeeps ==
  ASSUME Inv, Recheck
  PROVE  Inv'
<1> USE DEF Inv
<1> DEFINE i == Target(run.snap[K])
<1>0. /\ run \in Command /\ run.snap \in Snapshot
      /\ run.step = "recheck" /\ Stage = "recheck" /\ Rolling
      /\ run.at \in 1..n /\ K \in Key /\ run.path \in Path
  <2>1. run \in Command /\ run.step = "recheck" /\ Stage = "recheck"
    BY DEF Recheck, TypeOK, Stage
  <2>2. run.path \in Path /\ run.snap \in Snapshot /\ Rolling
    BY <2>1, Typed DEF Flow, Rolling, Command
  <2> QED
    BY <2>1, <2>2, KeyTyped
<1>1. TypeOK'
  BY RollbackTyped
<1>2. UNCHANGED <<remote, seen, touched, moved, did, file, partial>>
  BY DEF Recheck, Account, RolledBack, BeginSave
<1>3. /\ run.snap[K].state = "applied"
      /\ did[run.path][i] = "undo"
      /\ i \in moved \/ remote.res[i] = run.snap[K].before
  BY <1>0 DEF RollbackGoes, RollbackStates, K
<1>4. seen.res[i] = run.snap[K].before
  BY <1>3, StatusFacts DEF Recheck, States
<1>5. \A x \in Id \ moved : seen.res[x] = remote.res[x]
  <2> SUFFICES ASSUME NEW x \in Id \ moved PROVE seen.res[x] = remote.res[x]
    OBVIOUS
  <2>1. CASE x = i
    BY <1>3, <1>4, <2>1
  <2>2. CASE x # i
    BY <1>0, <2>2 DEF Fresh, InFlight, Rolling
  <2> QED
    BY <2>1, <2>2
<1>6. run' = [run EXCEPT !.state = seen, !.snap[K].state = "rolled_back",
                         !.at = @ - 1, !.then = "back", !.step = "saving"]
  BY <1>0 DEF Recheck, RolledBack, BeginSave, Command
<1> QED
  BY <1>0, <1>1, <1>2, <1>3, <1>5, <1>6, Typed, RolledBackKeeps

\* A request of a rollback keeps the invariant: it undoes the only request that may
\* be applied, and nothing that is still applied needs the resource.
LEMMA UndoKeeps ==
  ASSUME Inv, Undo
  PROVE  Inv'
<1> USE DEF Inv
<1> DEFINE B == run.snap[K].before
<1>0. /\ run \in Command /\ run.snap \in Snapshot
      /\ run.cmd = "rollback" /\ run.step = "undo" /\ Stage = "undo" /\ Rolling /\ ~Applying
      /\ run.at \in 1..n /\ K \in Key /\ K # noKey /\ run.path \in Path
  <2>1. run \in Command /\ run.step = "undo" /\ Stage = "undo"
    BY DEF Undo, TypeOK, Stage
  <2>2. run.cmd = "rollback" /\ run.path \in Path /\ run.snap \in Snapshot /\ Rolling
        /\ ~Applying
    BY <2>1, Typed DEF Flow, Rolling, Command, Applying
  <2> QED
    BY <2>1, <2>2, KeyTyped, InventoryAssumption
<1>1. TypeOK'
  BY RollbackTyped
<1>2. /\ True(run.snap, run.path) /\ file[run.path] = run.snap
      /\ file[run.path] # NoSnapshot
      /\ run.snap[K].state = "applied"
  BY <1>0 DEF Stored, RollbackGoes, RollbackStates, K
<1>3. PICK i \in Id : i = Target(run.snap[K]) /\ Fits[i] = K
  BY <1>0, <1>2, TargetFits
<1>4. /\ UNCHANGED <<seen, file, partial, touched, moved>>
      /\ \A x \in Id : remote'.res[x] = IF x = i THEN B ELSE remote.res[x]
      /\ \A p \in Path, x \in Id :
           did'[p][x] = IF p = run.path /\ x = i THEN "undo" ELSE did[p][x]
  BY <1>0, <1>3, Typed DEF Undo, Reading, TypeOK
<1>5. /\ run'.cmd = run.cmd /\ run'.step = "recheck" /\ Stage' = "recheck"
      /\ run'.at = run.at /\ run'.path = run.path /\ run'.snap = run.snap
      /\ run'.state = run.state /\ K' = K /\ ~Applying' /\ Rolling'
  BY <1>0 DEF Undo, Stage, Applying, Rolling, K, Command
<1>6. did[run.path][i] # "nothing"
  BY <1>0, <1>2, <1>3 DEF True, TellsOf
<1>7. \A q \in Path : q > run.path => \A x \in Id \ touched : did[q][x] # "apply"
  BY <1>0 DEF RollbackGoes
<1>8. \A q \in Path : q \in Nat
  BY DeploymentAssumption
\* What is applied under a file is not earlier than this one.
<1>9. ASSUME i \notin touched, NEW p \in Path, did[p][i] = "apply"
      PROVE  p = run.path
  <2>1. run.path <= p
    BY <1>0, <1>3, <1>6, <1>9 DEF Story, Tale, LastApplies
  <2>2. ~(p > run.path)
    BY <1>3, <1>7, <1>9
  <2> QED
    BY <1>0, <1>8, <2>1, <2>2
<1>10. Flow' /\ Newest'
  BY <1>0, <1>4, <1>5 DEF Flow, Newest, Exists
<1>11. Stored'
  <2>1. ASSUME NEW x \in Id, Fits[x] # noKey
        PROVE  TellsOf(run.snap[Fits[x]], did'[run.path][x], x)
    <3>1. TellsOf(run.snap[Fits[x]], did[run.path][x], x)
      BY <1>2, <2>1 DEF True
    <3>2. CASE x = i
      BY <1>0, <1>2, <1>3, <1>4, <3>2 DEF TellsOf
    <3>3. CASE x # i
      BY <1>0, <1>4, <3>1, <3>3
    <3> QED
      BY <3>2, <3>3
  <2>2. True(run.snap, run.path)'
    BY <1>2, <1>4, <1>5, <2>1 DEF True, TellsOf
  <2>3. ASSUME NEW p \in Path, file[p] # NoSnapshot
        PROVE  True(file[p], p)'
    <3>1. CASE p = run.path
      BY <1>2, <1>4, <1>5, <2>2, <3>1
    <3>2. CASE p # run.path
      <4>1. True(file[p], p)
        BY <2>3 DEF Stored
      <4> QED
        BY <1>4, <3>2, <4>1 DEF True, TellsOf
    <3> QED
      BY <3>1, <3>2
  <2>4. \A p \in Path : \A x \in Id :
          (file[p] = NoSnapshot \/ Fits[x] = noKey => did[p][x] = "nothing")'
    BY <1>0, <1>2, <1>3, <1>4 DEF Stored
  <2>5. SameBefore(file[run.path], run.snap)'
    BY <1>2, <1>4, <1>5 DEF SameBefore
  <2> QED
    BY <1>2, <1>4, <1>5, <2>2, <2>3, <2>4, <2>5 DEF Stored
<1>12. Kept'
  BY <1>0, <1>4, <1>5 DEF Kept
<1>13. Fresh'
  BY <1>0, <1>3, <1>4, <1>5 DEF Fresh, InFlight
<1>14. Story'
  <2> SUFFICES ASSUME NEW x \in Id \ touched PROVE Tale(x)'
    BY <1>4 DEF Story
  <2>1. Tale(x) /\ \A p \in Path : Told(p, x)
    BY DEF Story, Tale
  <2>2. CASE x # i
    BY <1>4, <2>1, <2>2, TaleStays DEF Was, Told
  <2>3. CASE x = i
    <3>1. \A p \in Path : did'[p][i] # "apply"
      BY <1>0, <1>4, <1>9, <2>3
    <3>2. ~Live(i)'
      BY <3>1 DEF Live
    <3>3. /\ \A p \in Path : Was(p, i)' = Was(p, i)
          /\ Was(run.path, i) = B /\ remote'.res[i] = B
      BY <1>2, <1>3, <1>4 DEF Was
    <3>4. \A p \in Path : did'[p][i] # "nothing" => did[p][i] # "nothing"
      BY <1>4, <1>6
    <3>5. \A p \in Path : did'[p][i] # "nothing" =>
            Was(p, i).body # "want" /\ Was(p, i) = B
      BY <1>0, <1>6, <2>1, <2>3, <3>3, <3>4 DEF Told, Tale
    <3>6. B.body # "want"
      BY <1>0, <1>6, <2>1, <2>3, <3>3 DEF Told
    <3>7. \A p \in Path : Told(p, i)'
      BY <3>1, <3>3, <3>5 DEF Told
    <3>8. LastApplies(i)'
      BY <3>1 DEF LastApplies
    <3>9. ((remote.res[i].body = "want") = Live(i))'
      BY <3>2, <3>3, <3>6 DEF Live
    <3>10. \A p, q \in Path :
             (did[p][i] # "nothing" /\ did[q][i] # "nothing" => Was(p, i) = Was(q, i))'
      BY <3>3, <3>5
    <3> QED
      BY <2>3, <3>7, <3>8, <3>9, <3>10 DEF Tale
  <2> QED
    BY <2>2, <2>3
<1>15. Ready'
  <2> SUFFICES ASSUME NEW x \in Id \ touched, NEW r \in Path, did'[r][x] = "apply"
               PROVE  /\ \A j \in remote'.res[x].uses : Fits[j] \in Needs[Fits[x]]
                      /\ \A m \in Needs[Fits[x]] :
                           \E j \in remote'.res[x].uses :
                             Fits[j] = m /\ (j \in touched
                                             \/ \E p \in Path : p <= r /\ did'[p][j] = "apply")
    BY <1>4 DEF Ready
  <2>1. did[r][x] = "apply"
    BY <1>4
  <2>2. x # i
    <3> SUFFICES ASSUME x = i PROVE FALSE
      OBVIOUS
    <3>1. r = run.path
      BY <1>9, <2>1
    <3> QED
      BY <1>4, <3>1
  <2>3. remote'.res[x] = remote.res[x] /\ remote.res[x].uses \subseteq Id
    BY <1>4, <2>2, Typed DEF Resource
  <2>4. ASSUME NEW m \in Needs[Fits[x]]
        PROVE  \E j \in remote.res[x].uses :
                 Fits[j] = m /\ (j \in touched
                                 \/ \E p \in Path : p <= r /\ did'[p][j] = "apply")
    <3>1. PICK j \in remote.res[x].uses :
            Fits[j] = m /\ (j \in touched \/ \E p \in Path : p <= r /\ did[p][j] = "apply")
      BY <2>1 DEF Ready
    <3>2. CASE j # i \/ j \in touched
      BY <1>4, <2>3, <3>1, <3>2
    <3>3. CASE j = i /\ i \notin touched
      <4>1. PICK p \in Path : p <= r /\ did[p][i] = "apply"
        BY <3>1, <3>3
      <4>2. p = run.path
        BY <1>9, <3>3, <4>1
      <4>3. r = run.path
        BY <1>0, <1>7, <1>8, <2>1, <4>1, <4>2
      <4>4. Fits[x] \in Key /\ Fits[x] # noKey
        BY <2>1, InventoryAssumption DEF Stored
      <4>5. PICK b \in 1..n : Order[b] = Fits[x]
        BY <4>4, OrderFacts
      <4>6. run.at < b
        BY <1>0, <1>3, <3>1, <3>3, <4>5, OrderFacts DEF K
      <4>7. run.snap[Fits[x]].state \in {"not_started", "rolled_back"}
        BY <1>0, <4>5, <4>6 DEF RollbackGoes, RollbackStates
      <4>8. TellsOf(run.snap[Fits[x]], did[run.path][x], x)
        BY <1>2, <4>4 DEF True
      <4> QED
        BY <2>1, <4>3, <4>7, <4>8 DEF TellsOf
    <3> QED
      BY <3>2, <3>3
  <2> QED
    BY <2>1, <2>3, <2>4 DEF Ready
<1>16. RollbackGoes'
  <2>1. \A a \in 1..n : run.snap[Order[a]].state \in RollbackStates(a)'
    BY <1>0, <1>5 DEF RollbackGoes, RollbackStates
  <2>2. \A q \in Path : q > run.path => \A x \in Id \ touched : did'[q][x] # "apply"
    BY <1>4, <1>7
  <2> QED
    BY <1>0, <1>3, <1>4, <1>5, <2>1, <2>2 DEF RollbackGoes
<1>17. ApplyGoes'
  BY <1>5 DEF ApplyGoes
<1> QED
  BY <1>1, <1>10, <1>11, <1>12, <1>13, <1>14, <1>15, <1>16, <1>17

-----------------------------------------------------------------------------
(* The invariant holds throughout. *)

\* Every step keeps the invariant.
LEMMA NextKeeps ==
  ASSUME Inv, [Next]_vars
  PROVE  Inv'
<1>1. CASE ChangeByOthers
  BY <1>1, OthersKeep
<1>2. CASE \E i \in Id : Settle(i)
  BY <1>2, SettleKeeps
<1>3. CASE \E p \in Path : BeginApply(p) \/ BeginRollback(p)
  BY <1>3, BeginApplyKeeps, BeginRollbackKeeps
<1>4. CASE OpenSnapshot \/ WriteSnapshot \/ Choose \/ Send \/ Verify \/ Conclude
  BY <1>4, OpenSnapshotKeeps, WriteSnapshotKeeps, ChooseKeeps, SendKeeps, VerifyKeeps, ConcludeKeeps
<1>5. CASE Back \/ Undo \/ Recheck \/ Finished
  BY <1>5, BackKeeps, UndoKeeps, RecheckKeeps, FinishedKeeps
<1>6. CASE EndSave \/ Stop
  BY <1>6, EndSaveKeeps, StopKeeps
<1>7. CASE UNCHANGED vars
  <2>1. UNCHANGED <<remote, seen, file, partial, temp, run, touched, moved, did>>
    BY <1>7 DEF vars
  <2>2. TypeOK' /\ Newest' /\ Story' /\ Ready'
    BY <2>1, QuietStep DEF Inv, TypeOK
  <2>3. Flow' /\ Kept' /\ Fresh'
    BY <2>1 DEF Inv, Flow, Kept, Fresh, Stage, Applying, Rolling, InFlight, K
  <2>4. Stored'
    BY <2>1, QuietStep DEF Inv, Stored, SameBefore, Applying, Rolling
  <2>5. ApplyGoes' /\ RollbackGoes'
    <3>1. /\ Stage' = Stage /\ Applying' = Applying /\ Rolling' = Rolling /\ K' = K
          /\ \A a : ApplyStates(a)' = ApplyStates(a) /\ RollbackStates(a)' = RollbackStates(a)
          /\ StillAsRecorded(K)' = StillAsRecorded(K) /\ Asked' = Asked
          /\ \A i : Live(i)' = Live(i)
      BY <2>1 DEF Stage, Applying, Rolling, K, ApplyStates, RollbackStates, StillAsRecorded,
                  Asked, Live
    <3> QED
      BY <2>1, <3>1 DEF Inv, ApplyGoes, RollbackGoes
  <2> QED
    BY <2>2, <2>3, <2>4, <2>5 DEF Inv
<1> QED
  BY <1>1, <1>2, <1>3, <1>4, <1>5, <1>6, <1>7 DEF Next

\* However the commands, their failures and other people's changes interleave, the
\* account, its readings and the snapshot files are related as the invariant says.
THEOREM DeploymentInvariant == Spec => []Inv
  BY InitInv, NextKeeps, PTL DEF Spec

\* The variables have their types.
THEOREM DeploymentTypes == Spec => []TypeOK
  <1>1. Inv => TypeOK
    BY DEF Inv
  <1> QED
    BY <1>1, DeploymentInvariant, PTL

\* A file tells what its run did to the account, wherever a run was interrupted,
\* in a form rollback can read; one that was cut short when it was created is of a
\* run that did nothing.
THEOREM FilesTell == Spec => []FilesAreTrue
  <1>1. Inv => FilesAreTrue
    BY DEF Inv, Newest, Stored, True, FilesAreTrue
  <1> QED
    BY <1>1, DeploymentInvariant, PTL

\* In every interrupted state an application as desired has what guards it, in its
\* desired form, unless somebody else changed that.
THEOREM CutoverIsGuarded == Spec => []CutoverIsReady
  <1>1. Inv => CutoverIsReady
    <2> SUFFICES ASSUME Inv, NEW i \in OfKind(remote, "application"),
                        remote.res[i].body = "want", i \notin touched,
                        NEW m \in Needs[Fits[i]]
                 PROVE  \E j \in remote.res[i].uses :
                          Fits[j] = m /\ (remote.res[j].body = "want" \/ j \in touched)
      BY DEF CutoverIsReady
    <2>1. i \in Id /\ remote.res[i].uses \subseteq Id
      BY Typed DEF OfKind, Present, Inv, Resource
    <2>2. PICK r \in Path : did[r][i] = "apply"
      BY <2>1 DEF Inv, Story, Tale, Live
    <2>3. PICK j \in remote.res[i].uses :
            Fits[j] = m /\ (j \in touched \/ \E p \in Path : p <= r /\ did[p][j] = "apply")
      BY <2>1, <2>2 DEF Inv, Ready
    <2>4. j \notin touched => remote.res[j].body = "want"
      BY <2>1, <2>3 DEF Inv, Story, Tale, Live
    <2> QED
      BY <2>3, <2>4
  <1> QED
    BY <1>1, DeploymentInvariant, PTL

\* A rollback that reports success left what its apply had changed as it was
\* before, unless somebody changed it meanwhile.
THEOREM RollbackIsComplete == Spec => []RollbackRestores
  <1>1. Inv => RollbackRestores
    <2> SUFFICES ASSUME Inv, run.cmd = "rollback", run.step = "done", NEW i \in Id,
                        did[run.path][i] # "nothing", i \notin touched
                 PROVE  remote.res[i] = run.snap[Fits[i]].before
      BY DEF RollbackRestores
    <2>1. /\ Rolling /\ Stage = "done" /\ run.at = 0 /\ run.path \in Path
          /\ file[run.path] = run.snap /\ True(run.snap, run.path)
      BY DEF Inv, Flow, Rolling, Stage, Stored
    <2>2. Fits[i] \in Key /\ Fits[i] # noKey
      BY <2>1, InventoryAssumption DEF Inv, Stored
    <2>3. PICK a \in 1..n : Order[a] = Fits[i]
      BY <2>2, OrderFacts
    <2>4. run.snap[Fits[i]].state \in {"not_started", "rolled_back"}
      BY <2>1, <2>3 DEF Inv, RollbackGoes, RollbackStates
    <2>5. did[run.path][i] = "undo"
      BY <2>1, <2>2, <2>4 DEF True, TellsOf
    <2>6. Tale(i)
      BY DEF Inv, Story
    <2>7. \A p \in Path : did[p][i] # "apply"
      <3> SUFFICES ASSUME NEW p \in Path, did[p][i] = "apply" PROVE FALSE
        OBVIOUS
      <3>1. run.path <= p /\ p # run.path
        BY <2>1, <2>5, <2>6 DEF Tale, LastApplies
      <3>2. p > run.path
        <4>1. \A q \in Path : q \in Nat
          BY DeploymentAssumption
        <4> QED
          BY <2>1, <3>1, <4>1
      <3> QED
        BY <2>1, <3>2 DEF Inv, RollbackGoes
    <2> QED
      BY <2>1, <2>6, <2>7 DEF Tale, Told, Live, Was
  <1> QED
    BY <1>1, DeploymentInvariant, PTL

\* No request overwrites what its snapshot cannot bring back or what the run of
\* that snapshot had not put there, unless it was changed after the command read.
THEOREM OverwritesAreKnown == Spec => OverwritesOnlyKnown
  <1>1. ASSUME Inv, Send, NEW i \in Id, remote'.res[i] # remote.res[i], i \notin moved
        PROVE  remote.res[i] = Known(K)
    <2>1. /\ run.cmd = "apply" /\ run.step = "send" /\ Stage = "send" /\ Applying /\ K \in Key
      <3>1. run.step = "send" /\ Stage = "send"
        BY <1>1 DEF Send, Stage
      <3> QED
        BY <1>1, <3>1, KeyTyped DEF Inv, TypeOK, Flow, Rolling, Applying, Command
    <2>2. IF Found(run.state, K) = {} THEN remote.res[i] = Absent
                                      ELSE i = IdOf(run.state, K)
      BY <1>1, Typed DEF Send, Inv, Reading
    <2>3. ~Refuses(run.state) /\ StillAsRecorded(K)
      BY <1>1, <2>1 DEF Inv, ApplyGoes
    <2>4. run.state.res[i] = remote.res[i]
      BY <1>1, <2>1 DEF Inv, Fresh, InFlight
    <2>5. run.snap[K].before = remote.res[i]
      <3>1. CASE Found(run.state, K) = {}
        BY <2>2, <2>3, <3>1 DEF StillAsRecorded
      <3>2. CASE Found(run.state, K) # {}
        BY <2>1, <2>2, <2>3, <2>4, <3>2, OnlyAnswer DEF StillAsRecorded
      <3> QED
        BY <3>1, <3>2
    <2> QED
      BY <2>1, <2>5 DEF Known
  <1>2. ASSUME Inv, Undo, NEW i \in Id, remote'.res[i] # remote.res[i], i \notin moved
        PROVE  remote.res[i] = Known(K)
    <2>1. run.cmd = "rollback" /\ run.step = "undo" /\ Stage = "undo" /\ Rolling
      <3>1. run.step = "undo" /\ Stage = "undo"
        BY <1>2 DEF Undo, Stage
      <3> QED
        BY <1>2, <3>1 DEF Inv, TypeOK, Flow, Rolling, Command
    <2>2. i = Target(run.snap[K])
      BY <1>2, Typed DEF Undo, Inv, Reading
    <2>3. run.state.res[i] = run.snap[K].after
      BY <1>2, <2>1, <2>2 DEF Inv, RollbackGoes
    <2>4. run.state.res[i] = remote.res[i]
      BY <1>2, <2>1 DEF Inv, Fresh, InFlight
    <2> QED
      BY <2>1, <2>3, <2>4 DEF Known
  <1>3. Inv /\ [Next]_vars =>
          [\A i \in Id :
             (Send \/ Undo) /\ remote'.res[i] # remote.res[i] =>
               \/ remote.res[i] = Known(K)
               \/ i \in moved]_vars
    BY <1>1, <1>2
  <1> QED
    BY <1>3, DeploymentInvariant, PTL DEF Spec, OverwritesOnlyKnown
=============================================================================
