----------------------------- MODULE DeviceProofs -----------------------------
(***************************************************************************)
(* What DeviceSync keeps true for every set of devices, tabs, accounts,    *)
(* edits and fields and every bound: an edit that a device accepted is in  *)
(* its outbox or in the server's history until the user gives it up, what  *)
(* waits is in what the device shows, and a device that was told of the    *)
(* deletion of the workspace is read-only ever after.                      *)
(*                                                                         *)
(* The first needs that a receipt and a remembered id are true of the      *)
(* server's history (Recorded), the third that no grant of access which is *)
(* still under way is as new as the deletion (Heard).                      *)
(***************************************************************************)
EXTENDS DeviceSync, PickingProofs, SequenceTheorems

(* What relates the variables. *)

\* The ids in a log.
Logged(log) == {log[i].id : i \in DOMAIN log}

\* A snapshot remembers nothing but ids.
Remembers(s, ids) == \A i \in DOMAIN s.ledger : s.ledger[i] \in ids

\* Receipts acknowledge nothing but ids.
Acknowledges(receipts, ids) ==
  \A i \in DOMAIN receipts :
    receipts[i].status \in {"applied", "duplicate"} => receipts[i].id \in ids

\* What snapshots remember and receipts acknowledge is in the server's history.
Recorded ==
  /\ Remembers(store, Logged(store.log))
  /\ \A t \in Tab : /\ Acknowledges(flight[t].receipts, Logged(store.log))
                    /\ Remembers(review[t].server, Logged(store.log))

\* A command with an id in use that sets something.
Sane(c, ids) == c.id \in ids /\ DOMAIN c.sets # {}
SaneQueue(outbox, ids) == \A i \in DOMAIN outbox : Sane(outbox[i].env, ids)

\* So is every command of a device.
Named ==
  /\ \A t \in Tab : /\ \A i \in DOMAIN todo[t] : /\ Sane(todo[t][i].env, DOMAIN origin)
                                                /\ todo[t][i].env.id = todo[t][i].id
                    /\ SaneQueue(review[t].rep.outbox, DOMAIN origin)
  /\ \A d \in Device : SaneQueue(rep[d].outbox, DOMAIN origin)

\* The accesses that device d remembers or may still be told of.
HeardIn(t) == {flight[t].auth, flight[t].known, catalog[t].auth, review[t].auth}
Heard(d) == {rep[d].auth} \cup UNION {HeardIn(t) : t \in {x \in Tab : DeviceOf[x] = d}}

\* H may be heard of an account with counter m and role r: none is newer than
\* the rows, those that grant something are older than the removal of the
\* account, and older than any deletion.
MayHear(H, m, r, gone) ==
  \A acc \in H :
    /\ acc.write => acc.status = "active"
    /\ acc.m <= m
    /\ (acc.status = "active" /\ acc.m = m) => r # "none"
    /\ acc.status = "deleted" =>
         gone /\ \A p \in H : p.status = "active" => p.m < acc.m

\* A device that was told is closed for good.
Shut(outbox) == \A i \in DOMAIN outbox : outbox[i].status = "blocked"
Closed(d) ==
  /\ deleted /\ rep[d].auth.status # "active" /\ Shut(rep[d].outbox)
  /\ \A p \in Heard(d) : p.status = "active" => p.m < rep[d].auth.m

Informed ==
  /\ deleted => \A a \in Account : role[a] = "none"
  /\ \A d \in Device : /\ MayHear(Heard(d), mrev[AccountOf[d]], role[AccountOf[d]], deleted)
                       /\ rep[d].auth.status = "deleted" => d \in told
  /\ \A d \in told : Closed(d)
  /\ \A t \in Tab : /\ review[t].open => /\ review[t].rep.auth.write
                                        /\ review[t].auth.status = "active"
                    /\ catalog[t].auth.status # "deleted"

\* TypeOK, NothingDropped and QueueIsVisible are parts of it.
Inv == TypeOK /\ Recorded /\ NothingDropped /\ Named /\ QueueIsVisible /\ Informed

-----------------------------------------------------------------------------
(* Snapshots and commands. *)

\* Some fields with values, and one more written over all.
LEMMA FieldsOf ==
  ASSUME NEW p \in Partial
  PROVE  /\ DOMAIN p \in SUBSET Field /\ \A f \in DOMAIN p : p[f] \in Value
         /\ \A val \in [Field -> Value] : Overwrite(val, p) \in [Field -> Value]
<1>1. PICK D \in SUBSET Field : p \in [D -> Value]
  BY DEF Partial
<1> QED
  BY <1>1 DEF Overwrite

\* Values of some fields are Partial.
LEMMA SomeFields ==
  ASSUME NEW F \in SUBSET Field, NEW p \in [F -> Value]
  PROVE  p \in Partial
BY DEF Partial

\* The parts of a snapshot.
LEMMA SnapshotIs ==
  ASSUME NEW s \in Snapshot
  PROVE  /\ s.rev \in Nat /\ s.val \in [Field -> Value]
         /\ s.ledger \in Seq(Edit) /\ s.log \in Seq(Entry)
BY DEF Snapshot

\* applyCommand remembers the command and logs it.
LEMMA ApplyIs ==
  ASSUME NEW s \in Snapshot, NEW c \in Envelope, NEW who \in Account
  PROVE  LET r == ApplyCommand(s, c, who)
         IN /\ r \in Snapshot
            /\ \A id : WasApplied(r, id) <=> WasApplied(s, id) \/ id = c.id
            /\ Logged(r.log) = Logged(s.log) \cup {c.id}
<1> DEFINE r == ApplyCommand(s, c, who)
           e == [id |-> c.id, by |-> who, sets |-> c.sets, expect |-> c.expect]
<1>1. /\ c.id \in Edit /\ c.sets \in Partial /\ c.expect \in Partial
      /\ s.rev \in Nat /\ s.val \in [Field -> Value]
      /\ s.ledger \in Seq(Edit) /\ s.log \in Seq(Entry)
  BY SnapshotIs DEF Envelope
<1>2. e \in Entry
  BY <1>1 DEF Entry
<1>3. Overwrite(s.val, c.sets) \in [Field -> Value]
  BY <1>1, FieldsOf
<1>4. /\ r.rev = s.rev + 1 /\ r.val = Overwrite(s.val, c.sets)
      /\ r.ledger = Append(s.ledger, c.id) /\ r.log = Append(s.log, e)
  BY DEF ApplyCommand
<1>5. r \in Snapshot
  <2>1. Append(s.ledger, c.id) \in Seq(Edit) /\ Append(s.log, e) \in Seq(Entry) /\ s.rev + 1 \in Nat
    BY <1>1, <1>2
  <2> QED
    BY <1>3, <2>1 DEF ApplyCommand, Snapshot
<1> HIDE DEF r
<1>6. ASSUME NEW id
      PROVE  WasApplied(r, id) <=> WasApplied(s, id) \/ id = c.id
  <2>1. DOMAIN r.ledger = DOMAIN s.ledger \cup {Len(s.ledger) + 1}
    BY <1>1, <1>4
  <2>2. \A i \in DOMAIN s.ledger : r.ledger[i] = s.ledger[i]
    BY <1>1, <1>4
  <2>3. r.ledger[Len(s.ledger) + 1] = c.id
    BY <1>1, <1>4
  <2> QED
    BY <2>1, <2>2, <2>3 DEF WasApplied
<1>7. Logged(r.log) = Logged(s.log) \cup {c.id}
  <2>1. DOMAIN r.log = DOMAIN s.log \cup {Len(s.log) + 1}
    BY <1>1, <1>2, <1>4
  <2>2. \A i \in DOMAIN s.log : r.log[i] = s.log[i]
    BY <1>1, <1>2, <1>4
  <2>3. r.log[Len(s.log) + 1].id = c.id
    BY <1>1, <1>2, <1>4
  <2> QED
    BY <2>1, <2>2, <2>3 DEF Logged
<1> QED
  BY <1>5, <1>6, <1>7 DEF r

\* Compaction forgets ids and logs nothing.
LEMMA CompactIs ==
  ASSUME NEW s \in Snapshot
  PROVE  /\ Compact(s) \in Snapshot /\ Compact(s).log = s.log
         /\ \A id : WasApplied(Compact(s), id) => WasApplied(s, id)
<1>1. LedgerLimit \in Nat \ {0}
  BY CommandAssumption
<1>2. s.ledger \in Seq(Edit)
  BY SnapshotIs
<1>3. /\ Newest(s.ledger) \in Seq(Edit)
      /\ \A i \in DOMAIN Newest(s.ledger) :
           \E j \in DOMAIN s.ledger : Newest(s.ledger)[i] = s.ledger[j]
  <2>1. CASE Len(s.ledger) <= LedgerLimit
    BY <1>2, <2>1 DEF Newest
  <2>2. CASE ~(Len(s.ledger) <= LedgerLimit)
    <3> DEFINE ids == s.ledger
               m == Len(ids) - LedgerLimit + 1
    <3>1. /\ Len(ids) \in Nat /\ m \in 1..Len(ids) /\ m \in Nat
          /\ Newest(ids) = SubSeq(ids, m, Len(ids))
      BY <1>1, <1>2, <2>2 DEF Newest
    <3> HIDE DEF m, ids
    <3>2. ids \in Seq(Edit)
      BY <1>2 DEF ids
    <3>3. /\ SubSeq(ids, m, Len(ids)) \in Seq(Edit)
          /\ DOMAIN SubSeq(ids, m, Len(ids)) = 1..(Len(ids) - m + 1)
          /\ \A i \in 1..(Len(ids) - m + 1) :
               SubSeq(ids, m, Len(ids))[i] = ids[m + i - 1] /\ m + i - 1 \in DOMAIN ids
      BY <3>1, <3>2
    <3> QED
      BY <3>1, <3>3 DEF ids
  <2> QED
    BY <2>1, <2>2
<1>4. Compact(s) \in Snapshot /\ Compact(s).log = s.log /\ Compact(s).ledger = Newest(s.ledger)
  BY <1>3 DEF Compact, Snapshot
<1> QED
  BY <1>3, <1>4 DEF WasApplied

\* One command of a batch: what comes out remembers and acknowledges only what is
\* logged, and nothing leaves the log.
LEMMA VerdictIs ==
  ASSUME NEW s \in Snapshot, NEW c \in Envelope, NEW who \in Account, NEW start, NEW done,
         Remembers(s, Logged(s.log))
  PROVE  LET verdict == Verdict(s, c, start, done, who)
             after == AfterVerdict(s, c, verdict, who)
             receipt == ReceiptOf(c, verdict, after)
         IN /\ after \in Snapshot /\ receipt \in Receipt
            /\ Remembers(after, Logged(after.log)) /\ Logged(s.log) \subseteq Logged(after.log)
            /\ receipt.status \in {"applied", "duplicate"} => receipt.id \in Logged(after.log)
<1> DEFINE verdict == Verdict(s, c, start, done, who)
           after == AfterVerdict(s, c, verdict, who)
           next == ApplyCommand(s, c, who)
<1>1. /\ verdict \in {"applied", "duplicate", "rejected"}
      /\ verdict = "duplicate" => WasApplied(s, c.id)
  <2>1. verdict = "duplicate" => WasApplied(s, c.id)
    BY DEF Verdict
  <2>2. verdict \in {"applied", "duplicate", "rejected"}
    BY DEF Verdict
  <2> QED
    BY <2>1, <2>2
<1>2. after = IF verdict = "applied" THEN Compact(next) ELSE s
  BY DEF AfterVerdict
<1> HIDE DEF verdict, after
<1>3. /\ next \in Snapshot /\ \A id : WasApplied(next, id) <=> WasApplied(s, id) \/ id = c.id
      /\ Logged(next.log) = Logged(s.log) \cup {c.id}
  BY ApplyIs
<1> HIDE DEF next
<1>4. \A id : WasApplied(s, id) => id \in Logged(s.log)
  BY DEF Remembers, WasApplied
<1>5. /\ after \in Snapshot /\ Logged(s.log) \subseteq Logged(after.log)
      /\ \A id : WasApplied(after, id) => id \in Logged(after.log)
      /\ verdict = "applied" => c.id \in Logged(after.log)
  <2>1. CASE verdict = "applied"
    BY <1>2, <1>3, <1>4, <2>1, CompactIs
  <2>2. CASE verdict # "applied"
    BY <1>2, <1>4, <2>2
  <2> QED
    BY <2>1, <2>2
<1>6. Remembers(after, Logged(after.log))
  BY <1>5 DEF Remembers, WasApplied
<1>7. ReceiptOf(c, verdict, after) \in Receipt
  BY <1>1, <1>5, SnapshotIs DEF ReceiptOf, Receipt, Envelope
<1>8. \/ ReceiptOf(c, verdict, after).status \notin {"applied", "duplicate"}
      \/ ReceiptOf(c, verdict, after).id \in Logged(after.log)
  BY <1>1, <1>4, <1>5 DEF ReceiptOf
<1> QED
  BY <1>5, <1>6, <1>7, <1>8 DEF verdict, after

\* More ids are no less.
LEMMA IdsGrow ==
  ASSUME NEW ids, NEW more, ids \subseteq more
  PROVE  /\ \A s : Remembers(s, ids) => Remembers(s, more)
         /\ \A receipts : Acknowledges(receipts, ids) => Acknowledges(receipts, more)
BY DEF Remembers, Acknowledges

\* An envelope made here is one, and sets the one field.
LEMMA EnvelopeIs ==
  ASSUME NEW s \in Snapshot, NEW id \in Edit, NEW f \in Field, NEW v \in Value, NEW basis \in Basis
  PROVE  LET c == MakeEnvelope(s, id, f, v, basis)
         IN c \in Envelope /\ c.id = id /\ DOMAIN c.sets # {}
<1> DEFINE sets == [x \in {f} |-> v]
           expect == Expectations(s, {f})
<1>1. sets \in [{f} -> Value] /\ expect \in [{f} -> Value] /\ {f} \in SUBSET Field
  BY SnapshotIs DEF Expectations
<1>2. sets \in Partial /\ expect \in Partial
  BY <1>1, SomeFields
<1>3. DOMAIN sets # {}
  OBVIOUS
<1> HIDE DEF sets, expect
<1>4. MakeEnvelope(s, id, f, v, basis) =
        [id |-> id, sets |-> sets, expect |-> expect, base |-> s.rev, basis |-> basis]
  BY DEF MakeEnvelope, sets, expect
<1> QED
  BY <1>2, <1>3, <1>4, SnapshotIs DEF Envelope

-----------------------------------------------------------------------------
(* Running over a sequence. *)

\* The outbox applied again on a snapshot: when nothing throws all of it is
\* remembered.
LEMMA ReplayIs ==
  ASSUME NEW s \in Snapshot, NEW outbox \in Seq(OutboxEntry), NEW who \in Account
  PROVE  LET r == Replay(s, outbox, who)
         IN /\ r.ok \in BOOLEAN /\ r.s \in Snapshot
            /\ r.ok => \A i \in DOMAIN outbox : WasApplied(r.s, outbox[i].env.id)
<1> DEFINE N == Len(outbox)
           S == [ok : BOOLEAN, s : Snapshot]
           start == [ok |-> TRUE, s |-> s]
           After(x, k) == IF x.ok /\ ~Throws(x.s, outbox[k].env)
                          THEN [ok |-> TRUE, s |-> ApplyCommand(x.s, outbox[k].env, who)]
                          ELSE [ok |-> FALSE, s |-> x.s]
           Runs(f) == f = [n \in 0..N |-> IF n = 0 THEN start ELSE After(f[n - 1], n)]
           run == CHOOSE f : Runs(f)
           g == [k \in 1..N |-> [x \in S |-> After(x, k)]]
<1>1. N \in Nat /\ DOMAIN outbox = 1..N /\ \A k \in 1..N : outbox[k].env \in Envelope
  <2>1. N \in Nat /\ DOMAIN outbox = 1..N /\ \A k \in 1..N : outbox[k] \in OutboxEntry
    OBVIOUS
  <2> QED
    BY <2>1 DEF OutboxEntry
<1>2. \A k \in 1..N, x \in S : After(x, k) \in S
  <2>1. ASSUME NEW k \in 1..N, NEW x \in S
        PROVE  ApplyCommand(x.s, outbox[k].env, who) \in Snapshot
    BY <1>1, ApplyIs
  <2> QED
    BY <2>1
<1>3. start \in S
  OBVIOUS
<1>4. Replay(s, outbox, who) = run[N]
  BY Zenon DEF Replay
<1> HIDE DEF N, S, start, After
<1>5. g \in [1..N -> [S -> S]]
  BY <1>2
<1> HIDE DEF g
<1> DEFINE f == RunOf(N, S, start, g)
<1>6. f \in [0..N -> S] /\ f[0] = start /\ \A k \in 1..N : f[k] = g[k][f[k - 1]]
  BY <1>1, <1>3, <1>5, RunIs
<1> HIDE DEF f
<1>7. Runs(f)
  <2>1. \A n \in 0..N : n # 0 => n \in 1..N /\ n - 1 \in 0..N
    BY <1>1
  <2>2. \A n \in 0..N : f[n] = IF n = 0 THEN start ELSE After(f[n - 1], n)
    BY <1>6, <2>1 DEF g
  <2>3. f = [n \in 0..N |-> f[n]]
    BY <1>6
  <2> QED
    BY <2>2, <2>3
<1>8. Runs(run)
  BY <1>7
<1> HIDE DEF run
<1>9. run[0] = start /\ \A k \in 1..N : run[k] = After(run[k - 1], k)
  <2>1. 0 \in 0..N /\ \A k \in 1..N : k \in 0..N /\ k # 0
    BY <1>1
  <2> QED
    BY <1>8, <2>1
<1> HIDE DEF Runs
<1> DEFINE Good(k) == /\ run[k] \in S
                      /\ run[k].ok => \A i \in 1..k : WasApplied(run[k].s, outbox[i].env.id)
           P == {k \in 0..N : Good(k)}
<1>10. 0 \in P
  BY <1>1, <1>3, <1>9
<1>11. ASSUME NEW k \in 1..N, k - 1 \in P
       PROVE  k \in P
  <2>1. k \in 0..N /\ \A i \in 1..k : i = k \/ i \in 1..(k - 1)
    BY <1>1
  <2>2. run[k - 1] \in S /\ run[k] = After(run[k - 1], k) /\ Good(k - 1)
    BY <1>9, <1>11
  <2> DEFINE x == run[k - 1]
             next == ApplyCommand(x.s, outbox[k].env, who)
  <2>3. run[k] \in S
    BY <1>2, <2>2
  <2>4. CASE run[k].ok
    <3>1. x.ok /\ run[k].s = next
      BY <2>2, <2>4 DEF After
    <3>2. x.s \in Snapshot /\ outbox[k].env \in Envelope
      BY <1>1, <2>2 DEF S
    <3>3. \A id : WasApplied(next, id) <=> WasApplied(x.s, id) \/ id = outbox[k].env.id
      BY <3>2, ApplyIs
    <3> HIDE DEF next
    <3> QED
      BY <2>1, <2>2, <2>3, <3>1, <3>3
  <2> QED
    BY <2>1, <2>3, <2>4
<1>12. P = 0..N
  <2> HIDE DEF P
  <2>1. P \in SUBSET (0..N)
    BY DEF P
  <2> QED
    BY <1>1, <1>10, <1>11, <2>1, Induction
<1>13. Good(N)
  <2>1. N \in P
    BY <1>1, <1>12
  <2> QED
    BY <2>1
<1> QED
  BY <1>1, <1>4, <1>13 DEF S

\* A batch run by the server: all it acknowledges is then in the history, where
\* everything stays that was there.
LEMMA RunBatchIs ==
  ASSUME NEW batch \in Seq(Envelope), NEW who \in Account,
         store \in Snapshot, Remembers(store, Logged(store.log))
  PROVE  LET run == RunBatch(batch, who)
         IN /\ run.s \in Snapshot /\ run.receipts \in Seq(Receipt)
            /\ Remembers(run.s, Logged(run.s.log))
            /\ Logged(store.log) \subseteq Logged(run.s.log)
            /\ Acknowledges(run.receipts, Logged(run.s.log))
<1> DEFINE N == Len(batch)
           S == [s : Snapshot, receipts : Seq(Receipt)]
           start == [s |-> store, receipts |-> << >>]
           After(x, k) ==
             LET verdict == Verdict(x.s, batch[k], store.rev, k - 1, who)
                 after == AfterVerdict(x.s, batch[k], verdict, who)
             IN [s |-> after, receipts |-> Append(x.receipts, ReceiptOf(batch[k], verdict, after))]
           Runs(f) == f = [n \in 0..N |-> IF n = 0 THEN start ELSE After(f[n - 1], n)]
           run == CHOOSE f : Runs(f)
           Good(x) == /\ x \in S /\ Remembers(x.s, Logged(x.s.log))
                      /\ Logged(store.log) \subseteq Logged(x.s.log)
                      /\ Acknowledges(x.receipts, Logged(x.s.log))
           G == {x \in S : Good(x)}
           g == [k \in 1..N |-> [x \in G |-> After(x, k)]]
<1>1. N \in Nat /\ DOMAIN batch = 1..N /\ \A k \in 1..N : batch[k] \in Envelope
  OBVIOUS
<1>2. ASSUME NEW k \in 1..N, NEW x \in G
      PROVE  After(x, k) \in G
  <2> DEFINE c == batch[k]
             verdict == Verdict(x.s, c, store.rev, k - 1, who)
             after == AfterVerdict(x.s, c, verdict, who)
             receipt == ReceiptOf(c, verdict, after)
             next == Append(x.receipts, receipt)
  <2>1. x.s \in Snapshot /\ x.receipts \in Seq(Receipt) /\ c \in Envelope /\ Good(x)
    BY <1>1
  <2>2. /\ after \in Snapshot /\ receipt \in Receipt
        /\ Remembers(after, Logged(after.log)) /\ Logged(x.s.log) \subseteq Logged(after.log)
        /\ receipt.status \in {"applied", "duplicate"} => receipt.id \in Logged(after.log)
    BY <2>1, VerdictIs
  <2>3. After(x, k) = [s |-> after, receipts |-> next]
    OBVIOUS
  <2> HIDE DEF after, receipt, After
  <2>4. /\ next \in Seq(Receipt) /\ DOMAIN next = DOMAIN x.receipts \cup {Len(x.receipts) + 1}
        /\ \A i \in DOMAIN x.receipts : next[i] = x.receipts[i]
        /\ next[Len(x.receipts) + 1] = receipt
    BY <2>1, <2>2
  <2> HIDE DEF next
  <2>5. Acknowledges(next, Logged(after.log))
    BY <2>1, <2>2, <2>4 DEF Acknowledges
  <2>6. /\ After(x, k) \in S /\ After(x, k).s = after /\ After(x, k).receipts = next
    BY <2>2, <2>3, <2>4
  <2> QED
    BY <2>1, <2>2, <2>5, <2>6
<1>3. start \in G
  <2>1. start \in S /\ start.s = store /\ start.receipts = << >>
    OBVIOUS
  <2>2. Acknowledges(<< >>, Logged(store.log))
    BY DEF Acknowledges
  <2> HIDE DEF start
  <2> QED
    BY <2>1, <2>2
<1>4. RunBatch(batch, who) = run[N]
  BY Zenon DEF RunBatch
<1> HIDE DEF N, G, start, After
<1>5. g \in [1..N -> [G -> G]]
  BY <1>2
<1> HIDE DEF g
<1> DEFINE f == RunOf(N, G, start, g)
<1>6. f \in [0..N -> G] /\ f[0] = start /\ \A k \in 1..N : f[k] = g[k][f[k - 1]]
  BY <1>1, <1>3, <1>5, RunIs
<1> HIDE DEF f
<1>7. Runs(f)
  <2>1. \A n \in 0..N : n # 0 => n \in 1..N /\ n - 1 \in 0..N
    BY <1>1
  <2>2. \A n \in 0..N : f[n] = IF n = 0 THEN start ELSE After(f[n - 1], n)
    BY <1>6, <2>1 DEF g
  <2>3. f = [n \in 0..N |-> f[n]]
    BY <1>6
  <2> QED
    BY <2>2, <2>3
<1>8. Runs(run)
  BY <1>7
<1> HIDE DEF run
<1>9. run[0] = start /\ \A k \in 1..N : run[k] = After(run[k - 1], k)
  <2>1. 0 \in 0..N /\ \A k \in 1..N : k \in 0..N /\ k # 0
    BY <1>1
  <2> QED
    BY <1>8, <2>1
<1> HIDE DEF Runs
<1> DEFINE P == {k \in 0..N : run[k] \in G}
<1>10. 0 \in P
  BY <1>1, <1>3, <1>9
<1>11. ASSUME NEW k \in 1..N, k - 1 \in P
       PROVE  k \in P
  <2>1. k \in 0..N /\ run[k - 1] \in G /\ run[k] = After(run[k - 1], k)
    BY <1>1, <1>9, <1>11
  <2> QED
    BY <1>2, <2>1
<1>12. P = 0..N
  <2> HIDE DEF P
  <2>1. P \in SUBSET (0..N)
    BY DEF P
  <2> QED
    BY <1>1, <1>10, <1>11, <2>1, Induction
<1>13. run[N] \in G
  <2>1. N \in P
    BY <1>1, <1>12
  <2> QED
    BY <2>1
<1> QED
  BY <1>4, <1>13 DEF G

\* One element more.
LEMMA AppendIs ==
  ASSUME NEW T, NEW s \in Seq(T), NEW x \in T
  PROVE  /\ Append(s, x) \in Seq(T) /\ DOMAIN Append(s, x) = DOMAIN s \cup {Len(s) + 1}
         /\ \A i \in DOMAIN s : Append(s, x)[i] = s[i]
         /\ Append(s, x)[Len(s) + 1] = x
OBVIOUS

\* Edits made again in recovery: what results is queued under fresh ids, and is
\* remembered by the copy they were made on.
LEMMA RemadeIs ==
  ASSUME NEW r, r.server \in Snapshot, r.auth \in LocalAccess,
         NEW open \in Seq(OutboxEntry), \A i \in DOMAIN open : DOMAIN open[i].env.sets # {},
         NEW fresh \in [1..Len(open) -> Edit], NEW who \in Account, NEW decided
  PROVE  LET made == Remade(r, open, fresh, who, decided)
             ids == {fresh[n] : n \in 1..Len(open)}
         IN /\ made.s \in Snapshot /\ made.outbox \in Seq(OutboxEntry)
            /\ SaneQueue(made.outbox, ids)
            /\ \A i \in DOMAIN made.outbox : WasApplied(made.s, made.outbox[i].env.id)
<1> DEFINE N == Len(open)
           S == [ok : BOOLEAN, s : Snapshot, outbox : Seq(OutboxEntry)]
           ids == {fresh[n] : n \in 1..N}
           start == [ok |-> TRUE, s |-> r.server, outbox |-> << >>]
           Again(x, k) == LET old == open[k].env
                          IN MakeEnvelope(x.s, fresh[k], FieldIn(old), old.sets[FieldIn(old)],
                                          BasisKnown(r.auth))
           After(x, k) ==
             LET old == open[k].env
                 c == MakeEnvelope(x.s, fresh[k], FieldIn(old), old.sets[FieldIn(old)],
                                   BasisKnown(r.auth))
                 Skipped == \E D \in decided : k \notin D \/ Chosen(x.s, old) = {}
             IN IF x.ok /\ Skipped THEN x
                ELSE IF x.ok /\ CanApply(x.s, c)
                THEN [ok |-> TRUE, s |-> ApplyCommand(x.s, c, who),
                      outbox |-> Append(x.outbox, [env |-> c, status |-> "pending"])]
                ELSE [x EXCEPT !.ok = FALSE]
           Runs(f) == f = [n \in 0..N |-> IF n = 0 THEN start ELSE After(f[n - 1], n)]
           run == CHOOSE f : Runs(f)
           Good(x) == /\ SaneQueue(x.outbox, ids)
                      /\ \A i \in DOMAIN x.outbox : WasApplied(x.s, x.outbox[i].env.id)
           G == {x \in S : Good(x)}
           g == [k \in 1..N |-> [x \in G |-> After(x, k)]]
<1>1. N \in Nat /\ DOMAIN open = 1..N /\ \A k \in 1..N : open[k].env \in Envelope
  <2>1. N \in Nat /\ DOMAIN open = 1..N /\ \A k \in 1..N : open[k] \in OutboxEntry
    OBVIOUS
  <2> QED
    BY <2>1 DEF OutboxEntry
<1>0. BasisKnown(r.auth) \in Basis
  BY DEF BasisKnown, LocalAccess, Basis
<1>2. ASSUME NEW k \in 1..N, NEW x \in G
      PROVE  After(x, k) \in G
  <2> DEFINE c == Again(x, k)
             next == ApplyCommand(x.s, c, who)
             queued == [env |-> c, status |-> "pending"]
             more == Append(x.outbox, queued)
             made == [ok |-> TRUE, s |-> next, outbox |-> more]
             old == open[k].env
  <2>1. /\ x \in S /\ x.s \in Snapshot /\ x.outbox \in Seq(OutboxEntry) /\ Good(x)
        /\ old \in Envelope /\ DOMAIN old.sets # {} /\ fresh[k] \in Edit /\ fresh[k] \in ids
    BY <1>1
  <2>2. \/ After(x, k) = x \/ After(x, k) = [x EXCEPT !.ok = FALSE]
        \/ After(x, k) = made
    OBVIOUS
  <2> HIDE DEF After
  <2>3. c \in Envelope /\ c.id = fresh[k] /\ DOMAIN c.sets # {}
    <3>1. old.sets \in Partial /\ FieldIn(old) \in DOMAIN old.sets
      BY <2>1 DEF Envelope, FieldIn
    <3>2. FieldIn(old) \in Field /\ old.sets[FieldIn(old)] \in Value
      BY <3>1, FieldsOf
    <3> HIDE DEF old
    <3>3. c = MakeEnvelope(x.s, fresh[k], FieldIn(old), old.sets[FieldIn(old)], BasisKnown(r.auth))
      BY DEF old
    <3> QED
      BY <1>0, <2>1, <3>2, <3>3, EnvelopeIs
  <2> HIDE DEF c
  <2>4. /\ next \in Snapshot /\ \A id : WasApplied(next, id) <=> WasApplied(x.s, id) \/ id = c.id
    BY <2>1, <2>3, ApplyIs
  <2> HIDE DEF next
  <2>5. queued \in OutboxEntry /\ queued.env = c
    BY <2>3 DEF OutboxEntry
  <2> HIDE DEF queued
  <2>6. /\ more \in Seq(OutboxEntry) /\ DOMAIN more = DOMAIN x.outbox \cup {Len(x.outbox) + 1}
        /\ \A i \in DOMAIN x.outbox : more[i] = x.outbox[i]
        /\ more[Len(x.outbox) + 1] = queued
    BY <2>1, <2>5, AppendIs
  <2> HIDE DEF more
  <2>7. made \in S /\ made.s = next /\ made.outbox = more
    BY <2>4, <2>6
  <2> HIDE DEF made
  <2>8. SaneQueue(more, ids)
    BY <2>1, <2>3, <2>5, <2>6 DEF SaneQueue, Sane
  <2>9. \A i \in DOMAIN more : WasApplied(next, more[i].env.id)
    BY <2>1, <2>4, <2>5, <2>6
  <2>10. made \in G
    BY <2>7, <2>8, <2>9
  <2>11. [x EXCEPT !.ok = FALSE] \in G
    <3> DEFINE y == [x EXCEPT !.ok = FALSE]
    <3>1. y \in S /\ y.s = x.s /\ y.outbox = x.outbox
      BY <2>1
    <3> HIDE DEF y
    <3>2. y \in G
      BY <2>1, <3>1
    <3> QED
      BY <3>2 DEF y
  <2> QED
    BY <2>2, <2>10, <2>11
<1>3. start \in G
  <2>1. start \in S /\ start.outbox = << >> /\ start.s = r.server
    OBVIOUS
  <2>2. SaneQueue(<< >>, ids) /\ \A i \in DOMAIN << >> : FALSE
    BY DEF SaneQueue
  <2> HIDE DEF start
  <2> QED
    BY <2>1, <2>2
<1>4. Remade(r, open, fresh, who, decided) = run[N]
  BY Zenon DEF Remade
<1> HIDE DEF N, G, start, After
<1>5. g \in [1..N -> [G -> G]]
  BY <1>2
<1> HIDE DEF g
<1> DEFINE f == RunOf(N, G, start, g)
<1>6. f \in [0..N -> G] /\ f[0] = start /\ \A k \in 1..N : f[k] = g[k][f[k - 1]]
  BY <1>1, <1>3, <1>5, RunIs
<1> HIDE DEF f
<1>7. Runs(f)
  <2>1. \A n \in 0..N : n # 0 => n \in 1..N /\ n - 1 \in 0..N
    BY <1>1
  <2>2. \A n \in 0..N : f[n] = IF n = 0 THEN start ELSE After(f[n - 1], n)
    BY <1>6, <2>1 DEF g
  <2>3. f = [n \in 0..N |-> f[n]]
    BY <1>6
  <2> QED
    BY <2>2, <2>3
<1>8. Runs(run)
  BY <1>7
<1> HIDE DEF run
<1>9. run[0] = start /\ \A k \in 1..N : run[k] = After(run[k - 1], k)
  <2>1. 0 \in 0..N /\ \A k \in 1..N : k \in 0..N /\ k # 0
    BY <1>1
  <2> QED
    BY <1>8, <2>1
<1> HIDE DEF Runs
<1> DEFINE P == {k \in 0..N : run[k] \in G}
<1>10. 0 \in P
  BY <1>1, <1>3, <1>9
<1>11. ASSUME NEW k \in 1..N, k - 1 \in P
       PROVE  k \in P
  <2>1. k \in 0..N /\ run[k - 1] \in G /\ run[k] = After(run[k - 1], k)
    BY <1>1, <1>9, <1>11
  <2> QED
    BY <1>2, <2>1
<1>12. P = 0..N
  <2> HIDE DEF P
  <2>1. P \in SUBSET (0..N)
    BY DEF P
  <2> QED
    BY <1>1, <1>10, <1>11, <2>1, Induction
<1>13. run[N] \in G
  <2>1. N \in P
    BY <1>1, <1>12
  <2> QED
    BY <2>1
<1> QED
  BY <1>4, <1>13 DEF G, N

-----------------------------------------------------------------------------
(* Outboxes. *)

\* new holds nothing but entries of old, some of them blocked meanwhile; and all
\* of them.
From(new, old) ==
  \A i \in DOMAIN new : \E j \in DOMAIN old :
    /\ new[i].env = old[j].env
    /\ old[j].status = "blocked" => new[i].status = "blocked"

Covers(new, old) == \A j \in DOMAIN old : \E i \in DOMAIN new : new[i].env = old[j].env

\* A block keeps the command.
LEMMA BlockIs ==
  ASSUME NEW e \in OutboxEntry
  PROVE  Block(e) \in OutboxEntry /\ Block(e).env = e.env /\ Block(e).status = "blocked"
BY DEF Block, OutboxEntry

\* Whatever is said of every command, and that all are blocked, is kept by From.
LEMMA FromKeeps ==
  ASSUME NEW new, NEW old, From(new, old)
  PROVE  /\ Shut(old) => Shut(new)
         /\ \A ids : SaneQueue(old, ids) => SaneQueue(new, ids)
         /\ \A s : (\A j \in DOMAIN old : WasApplied(s, old[j].env.id))
                     => \A i \in DOMAIN new : WasApplied(s, new[i].env.id)
         /\ OutboxIds(new) \subseteq OutboxIds(old)
BY DEF From, Shut, SaneQueue, OutboxIds

\* Nor does Covers lose an id.
LEMMA CoversKeeps ==
  ASSUME NEW new, NEW old, Covers(new, old)
  PROVE  OutboxIds(old) \subseteq OutboxIds(new)
BY DEF Covers, OutboxIds

\* One change after another.
LEMMA FromFrom ==
  ASSUME NEW a, NEW b, NEW c
  PROVE  /\ From(a, b) /\ From(b, c) => From(a, c)
         /\ Covers(a, b) /\ Covers(b, c) => Covers(a, c)
         /\ From(a, a) /\ Covers(a, a)
<1>1. From(a, b) /\ From(b, c) => From(a, c)
  BY DEF From
<1>2. Covers(a, b) /\ Covers(b, c) => Covers(a, c)
  BY DEF Covers
<1>3. From(a, a) /\ Covers(a, a)
  BY DEF From, Covers
<1> QED
  BY <1>1, <1>2, <1>3

\* Blocking some entries of an outbox.
LEMMA BlockedIs ==
  ASSUME NEW outbox \in Seq(OutboxEntry), NEW K
  PROVE  LET next == [i \in DOMAIN outbox |-> IF i \in K THEN Block(outbox[i]) ELSE outbox[i]]
         IN next \in Seq(OutboxEntry) /\ From(next, outbox) /\ Covers(next, outbox)
<1> DEFINE next == [i \in DOMAIN outbox |-> IF i \in K THEN Block(outbox[i]) ELSE outbox[i]]
<1>1. Len(outbox) \in Nat /\ DOMAIN outbox = 1..Len(outbox) /\ \A i \in DOMAIN outbox : outbox[i] \in OutboxEntry
  OBVIOUS
<1>2. \A i \in DOMAIN outbox :
        /\ next[i] \in OutboxEntry /\ next[i].env = outbox[i].env
        /\ outbox[i].status = "blocked" => next[i].status = "blocked"
  BY <1>1, BlockIs
<1>3. DOMAIN next = DOMAIN outbox /\ next \in [1..Len(outbox) -> OutboxEntry]
  BY <1>1, <1>2
<1> HIDE DEF next
<1>4. next \in Seq(OutboxEntry)
  BY <1>1, <1>3
<1>5. From(next, outbox)
  BY <1>2, <1>3 DEF From
<1>6. Covers(next, outbox)
  BY <1>2, <1>3 DEF Covers
<1> QED
  BY <1>4, <1>5, <1>6 DEF next

\* A deletion blocks all of it.
LEMMA ScopeIs ==
  ASSUME NEW outbox \in Seq(OutboxEntry), NEW auth
  PROVE  LET next == ScopeOutbox(outbox, auth)
         IN /\ next \in Seq(OutboxEntry) /\ From(next, outbox) /\ Covers(next, outbox)
            /\ auth.status = "deleted" => Shut(next)
<1> DEFINE K == IF auth.status = "deleted" THEN DOMAIN outbox ELSE {}
           next == [i \in DOMAIN outbox |-> IF i \in K THEN Block(outbox[i]) ELSE outbox[i]]
<1>1. ScopeOutbox(outbox, auth) = next
  BY DEF ScopeOutbox
<1>2. next \in Seq(OutboxEntry) /\ From(next, outbox) /\ Covers(next, outbox)
  <2> HIDE DEF K
  <2> QED
    BY BlockedIs
<1>3. ASSUME auth.status = "deleted"
      PROVE  Shut(next)
  <2>1. \A i \in DOMAIN outbox : outbox[i] \in OutboxEntry
    OBVIOUS
  <2>2. DOMAIN next = DOMAIN outbox /\ \A i \in DOMAIN outbox : next[i] = Block(outbox[i])
    BY <1>3
  <2> HIDE DEF next
  <2> QED
    BY <2>1, <2>2, BlockIs DEF Shut
<1> QED
  BY <1>1, <1>2, <1>3

\* What waits to be sent, and none of it in an outbox where all is blocked.
LEMMA PendingIs ==
  ASSUME NEW outbox \in Seq(OutboxEntry)
  PROVE  /\ Pending(outbox) \in Seq(OutboxEntry)
         /\ Shut(outbox) => Pending(outbox) = << >>
<1> DEFINE K == {i \in DOMAIN outbox : outbox[i].status = "pending"}
<1>1. Pending(outbox) = Picked(outbox, K)
  BY DEF Pending
<1>2. K \in SUBSET DOMAIN outbox
  OBVIOUS
<1>3. Picked(outbox, K) \in Seq(OutboxEntry)
  BY <1>2, PickedIs
<1>4. ASSUME Shut(outbox)
      PROVE  Picked(outbox, K) = << >>
  <2>1. K = {}
    BY <1>4 DEF Shut
  <2>2. Cardinality(K) = 0
    BY <2>1, FS_EmptySet
  <2> HIDE DEF K
  <2> QED
    BY <2>2 DEF Picked
<1> QED
  BY <1>1, <1>3, <1>4

\* What is sent.
LEMMA SelectIs ==
  ASSUME NEW outbox \in Seq(OutboxEntry)
  PROVE  SelectBatch(outbox) \in Seq(Envelope)
<1> DEFINE p == Pending(outbox)
           OneBasis(n) == \A i \in 1..n : p[i].env.basis = p[1].env.basis
           Fits(k) == /\ k <= BatchLimit /\ OneBasis(k)
                      /\ \/ k = Len(p) \/ k = BatchLimit \/ ~OneBasis(k + 1)
           n == CHOOSE k \in 0..Len(p) : Fits(k)
           batch == [i \in 1..n |-> p[i].env]
<1>1. SelectBatch(outbox) = batch
  BY DEF SelectBatch
<1>2. p \in Seq(OutboxEntry) /\ BatchLimit \in Nat
  BY PendingIs, DeviceAssumption
<1> HIDE DEF p
<1>3. Len(p) \in Nat /\ DOMAIN p = 1..Len(p) /\ \A i \in 1..Len(p) : p[i] \in OutboxEntry
  BY <1>2
<1>4. \E k \in 0..Len(p) : Fits(k)
  <2> DEFINE K == {k \in 0..Len(p) : k <= BatchLimit /\ OneBasis(k)}
  <2>1. 0 \in K /\ K \in SUBSET (0..Len(p))
    BY <1>2, <1>3
  <2>2. PICK k \in K : \A j \in K : k >= j
    BY <1>3, <2>1, HasLargest
  <2>3. ASSUME k # Len(p), k # BatchLimit
        PROVE  ~OneBasis(k + 1)
    <3>0. k \in 0..Len(p) /\ k <= BatchLimit /\ Len(p) \in Nat /\ BatchLimit \in Nat
      BY <1>2, <1>3
    <3>1. k + 1 \in 0..Len(p) /\ k + 1 <= BatchLimit /\ ~(k >= k + 1)
      <4> HIDE DEF K, OneBasis, Fits
      <4> QED
        BY <2>3, <3>0
    <3> HIDE DEF OneBasis
    <3> QED
      BY <2>2, <3>1
  <2> QED
    BY <2>2, <2>3
<1>5. n \in 0..Len(p)
  BY <1>4
<1> HIDE DEF n
<1>6. n \in Nat /\ \A i \in 1..n : p[i] \in OutboxEntry
  BY <1>3, <1>5
<1>7. batch \in [1..n -> Envelope]
  BY <1>6 DEF OutboxEntry
<1> QED
  BY <1>1, <1>6, <1>7

\* After an answer, what left was acknowledged.
LEMMA SettleIs ==
  ASSUME NEW outbox \in Seq(OutboxEntry), NEW batch, NEW receipts
  PROVE  LET left == Settle(outbox, batch, receipts)
         IN /\ left \in Seq(OutboxEntry) /\ From(left, outbox)
            /\ \A ids : Acknowledges(receipts, ids) => OutboxIds(outbox) \subseteq OutboxIds(left) \cup ids
<1> DEFINE Acked(e) == /\ e.env.id \in IdsOf(batch)
                       /\ StatusIn(receipts, e.env.id) \in {"applied", "duplicate"}
           K == {i \in DOMAIN outbox : ~Acked(outbox[i])}
           rest == Picked(outbox, K)
           J == {i \in DOMAIN rest : rest[i].env.id \in IdsOf(batch)}
           left == [i \in DOMAIN rest |-> IF i \in J THEN Block(rest[i]) ELSE rest[i]]
<1>1. Settle(outbox, batch, receipts) = left
  BY DEF Settle
<1>2. /\ rest \in Seq(OutboxEntry)
      /\ \A i \in DOMAIN rest : \E k \in K : rest[i] = outbox[k]
      /\ \A k \in K : \E i \in DOMAIN rest : rest[i] = outbox[k]
  <2> HIDE DEF Acked
  <2>1. K \in SUBSET DOMAIN outbox
    OBVIOUS
  <2> HIDE DEF K
  <2> QED
    BY <2>1, PickedIs
<1> HIDE DEF rest, J
<1>3. left \in Seq(OutboxEntry) /\ From(left, rest) /\ Covers(left, rest)
  BY <1>2, BlockedIs
<1> HIDE DEF left, Acked
<1>4. From(rest, outbox)
  BY <1>2 DEF From
<1>5. From(left, outbox)
  BY <1>3, <1>4, FromFrom
<1>6. ASSUME NEW ids, Acknowledges(receipts, ids), NEW k \in DOMAIN outbox, Acked(outbox[k])
      PROVE  outbox[k].env.id \in ids
  <2> DEFINE id == outbox[k].env.id
             I == {i \in DOMAIN receipts : receipts[i].id = id}
  <2>1. StatusIn(receipts, id) \in {"applied", "duplicate"}
    BY <1>6 DEF Acked
  <2>2. StatusIn(receipts, id) = IF I = {} THEN "missing" ELSE receipts[CHOOSE i \in I : TRUE].status
    BY DEF StatusIn
  <2>3. PICK i \in I : receipts[i].status \in {"applied", "duplicate"}
    BY <2>1, <2>2
  <2> QED
    BY <1>6, <2>3 DEF Acknowledges
<1>7. ASSUME NEW ids, Acknowledges(receipts, ids), NEW k \in DOMAIN outbox
      PROVE  outbox[k].env.id \in OutboxIds(left) \cup ids
  <2>1. CASE Acked(outbox[k])
    BY <1>6, <1>7, <2>1
  <2>2. CASE ~Acked(outbox[k])
    <3>1. k \in K
      BY <2>2
    <3>2. outbox[k].env.id \in OutboxIds(rest)
      BY <1>2, <3>1 DEF OutboxIds
    <3> QED
      BY <1>3, <3>2, CoversKeeps
  <2> QED
    BY <2>1, <2>2
<1>8. \A ids : Acknowledges(receipts, ids) => OutboxIds(outbox) \subseteq OutboxIds(left) \cup ids
  BY <1>7 DEF OutboxIds
<1> QED
  BY <1>1, <1>3, <1>5, <1>8

\* What recovery finds unapplied, the rest being remembered by the server's copy.
LEMMA UnappliedIs ==
  ASSUME NEW server, NEW outbox \in Seq(OutboxEntry)
  PROVE  LET open == Unapplied(server, outbox)
         IN /\ open \in Seq(OutboxEntry) /\ From(open, outbox)
            /\ \A id \in OutboxIds(outbox) : id \in OutboxIds(open) \/ WasApplied(server, id)
<1> DEFINE K == {i \in DOMAIN outbox : ~WasApplied(server, outbox[i].env.id)}
           open == Picked(outbox, K)
<1>1. Unapplied(server, outbox) = open
  BY DEF Unapplied
<1>2. /\ open \in Seq(OutboxEntry)
      /\ \A i \in DOMAIN open : \E k \in K : open[i] = outbox[k]
      /\ \A k \in K : \E i \in DOMAIN open : open[i] = outbox[k]
  <2>1. K \in SUBSET DOMAIN outbox
    OBVIOUS
  <2> HIDE DEF K
  <2> QED
    BY <2>1, PickedIs
<1> HIDE DEF open
<1>3. From(open, outbox)
  BY <1>2 DEF From
<1>4. \A id \in OutboxIds(outbox) : id \in OutboxIds(open) \/ WasApplied(server, id)
  BY <1>2 DEF OutboxIds
<1> QED
  BY <1>1, <1>2, <1>3, <1>4

-----------------------------------------------------------------------------
(* Replicas. *)

\* The parts of a replica.
LEMMA ReplicaIs ==
  ASSUME NEW r \in Replica
  PROVE  /\ r.state \in Snapshot /\ r.outbox \in Seq(OutboxEntry) /\ r.auth \in LocalAccess
         /\ r.auth.m \in Nat /\ r.auth.a \in Nat /\ r.auth.status \in Statuses
         /\ r.auth.role \in Roles /\ r.auth.write \in BOOLEAN
BY DEF Replica, LocalAccess

\* What an access does to a replica.
LEMMA WithIs ==
  ASSUME NEW r \in Replica, NEW auth \in LocalAccess
  PROVE  LET next == WithAccess(r, auth)
         IN /\ next \in Replica /\ next.state = r.state
            /\ next.auth = Newer(r.auth, auth)
            /\ From(next.outbox, r.outbox) /\ Covers(next.outbox, r.outbox)
            /\ next.auth.status = "deleted" => Shut(next.outbox)
<1> DEFINE new == Newer(r.auth, auth)
           box == ScopeOutbox(r.outbox, new)
           next == WithAccess(r, auth)
<1>1. /\ r.state \in Snapshot /\ r.outbox \in Seq(OutboxEntry) /\ r.auth \in LocalAccess
      /\ r = [state |-> r.state, outbox |-> r.outbox, auth |-> r.auth]
  BY DEF Replica
<1>2. new \in LocalAccess
  BY <1>1 DEF Newer
<1>3. next = [r EXCEPT !.auth = new, !.outbox = ScopeOutbox(@, new)]
  BY DEF WithAccess
<1> HIDE DEF new, next
<1>4. /\ box \in Seq(OutboxEntry) /\ From(box, r.outbox) /\ Covers(box, r.outbox)
      /\ new.status = "deleted" => Shut(box)
  BY <1>1, ScopeIs
<1>5. next = [state |-> r.state, outbox |-> box, auth |-> new]
  BY <1>1, <1>3
<1> HIDE DEF box
<1>6. next \in Replica /\ next.state = r.state /\ next.auth = new /\ next.outbox = box
  BY <1>1, <1>2, <1>4, <1>5 DEF Replica
<1> QED
  BY <1>4, <1>6 DEF next, new

\* What a refusal does to a replica.
LEMMA RefusalIs ==
  ASSUME NEW r \in Replica, NEW batch, NEW auth \in LocalAccess
  PROVE  LET next == AfterRefusal(r, batch, auth)
         IN /\ next \in Replica /\ next.state = r.state
            /\ next.auth = Newer(r.auth, auth)
            /\ From(next.outbox, r.outbox) /\ Covers(next.outbox, r.outbox)
            /\ next.auth.status = "deleted" => Shut(next.outbox)
<1> DEFINE with == WithAccess(r, auth)
           K == {i \in DOMAIN with.outbox : with.outbox[i].env.id \in IdsOf(batch)}
           box == [i \in DOMAIN with.outbox |->
                     IF i \in K THEN Block(with.outbox[i]) ELSE with.outbox[i]]
           next == AfterRefusal(r, batch, auth)
<1>1. /\ with \in Replica /\ with.state = r.state /\ with.auth = Newer(r.auth, auth)
      /\ From(with.outbox, r.outbox) /\ Covers(with.outbox, r.outbox)
      /\ with.auth.status = "deleted" => Shut(with.outbox)
  BY WithIs
<1>2. next = [with EXCEPT !.outbox = box]
  BY DEF AfterRefusal
<1> HIDE DEF with, next, K
<1>3. with.outbox \in Seq(OutboxEntry)
  BY <1>1, ReplicaIs
<1>4. box \in Seq(OutboxEntry) /\ From(box, with.outbox) /\ Covers(box, with.outbox)
  BY <1>3, BlockedIs
<1> HIDE DEF box
<1>5. next \in Replica /\ next.state = r.state /\ next.auth = with.auth /\ next.outbox = box
  BY <1>1, <1>2, <1>4 DEF Replica
<1>6. From(box, r.outbox) /\ Covers(box, r.outbox)
  BY <1>1, <1>4, FromFrom
<1>7. next.auth.status = "deleted" => Shut(box)
  BY <1>1, <1>4, <1>5, FromKeeps
<1> QED
  BY <1>1, <1>5, <1>6, <1>7 DEF next

-----------------------------------------------------------------------------
(* Access. *)

\* What the rows may tell an account.
News(a) ==
  {acc \in LocalAccess :
     /\ acc.write => acc.status = "active"
     /\ acc.m <= mrev[a]
     /\ acc.status = "active" => ~deleted /\ role[a] # "none"
     /\ acc.status = "deleted" => deleted /\ acc.m = mrev[a]}

May(d) == Heard(d) \cup News(AccountOf[d])

\* Every answer of the server is news, and so is none.
LEMMA NewsIs ==
  ASSUME AccessTypeOK, NEW a \in Account
  PROVE  /\ CanRead(a) => Granted(AccessOf(a)) \in News(a)
         /\ Refused(AccessOf(a)) \in News(a)
         /\ NoKnowledge \in News(a)
         /\ \A known \in LocalAccess : known.m <= mrev[a] => Inaccessible(known) \in News(a)
<1>1. /\ role[a] \in Roles /\ active[a] \in BOOLEAN /\ deleted \in BOOLEAN
      /\ mrev[a] \in Nat /\ arev \in Nat /\ (IF deleted THEN 0 ELSE arev) \in Nat
  BY DEF AccessTypeOK
<1>2. CanRead(a) => Granted(AccessOf(a)) \in News(a)
  BY <1>1 DEF CanRead, Granted, AccessOf, News, LocalAccess, Statuses, Roles, Writers
<1>3. Refused(AccessOf(a)) \in News(a)
  <2>1. /\ Refused(AccessOf(a)).status \in Statuses
        /\ Refused(AccessOf(a)).status = "active" => ~deleted /\ role[a] # "none"
        /\ Refused(AccessOf(a)).status = "deleted" => deleted
    BY <1>1 DEF Refused, AccessOf, Statuses
  <2> QED
    BY <1>1, <2>1 DEF Refused, AccessOf, News, LocalAccess
<1>4. NoKnowledge \in News(a)
  BY <1>1 DEF NoKnowledge, News, LocalAccess, Statuses, Roles
<1>5. \A known \in LocalAccess : known.m <= mrev[a] => Inaccessible(known) \in News(a)
  BY <1>1 DEF Inaccessible, News, LocalAccess, Statuses, Roles
<1> QED
  BY <1>2, <1>3, <1>4, <1>5

\* What a device may hear is what it remembers and what travels.
LEMMA HeardIs ==
  ASSUME NEW d \in Device
  PROVE  /\ rep[d].auth \in Heard(d)
         /\ \A t \in Tab : DeviceOf[t] = d =>
              /\ flight[t].auth \in Heard(d) /\ flight[t].known \in Heard(d)
              /\ catalog[t].auth \in Heard(d) /\ review[t].auth \in Heard(d)
         /\ \A S : (/\ rep[d].auth \in S
                    /\ \A t \in Tab : DeviceOf[t] = d =>
                         /\ flight[t].auth \in S /\ flight[t].known \in S
                         /\ catalog[t].auth \in S /\ review[t].auth \in S)
                   => Heard(d) \subseteq S
<1>1. rep[d].auth \in Heard(d)
  BY DEF Heard
<1>2. \A t \in Tab : DeviceOf[t] = d => HeardIn(t) \subseteq Heard(d)
  BY DEF Heard
<1>3. \A t \in Tab : /\ flight[t].auth \in HeardIn(t) /\ flight[t].known \in HeardIn(t)
                     /\ catalog[t].auth \in HeardIn(t) /\ review[t].auth \in HeardIn(t)
  BY DEF HeardIn
<1>4. ASSUME NEW S, rep[d].auth \in S,
             \A t \in Tab : DeviceOf[t] = d =>
               /\ flight[t].auth \in S /\ flight[t].known \in S
               /\ catalog[t].auth \in S /\ review[t].auth \in S
      PROVE  Heard(d) \subseteq S
  BY <1>4 DEF Heard, HeardIn
<1> QED
  BY <1>1, <1>2, <1>3, <1>4

\* All of it is an access.
LEMMA HeardTypes ==
  ASSUME TypeOK, NEW d \in Device
  PROVE  /\ Heard(d) \subseteq LocalAccess /\ May(d) \subseteq LocalAccess
         /\ \A acc \in LocalAccess : acc.m \in Nat
<1>1. rep[d].auth \in LocalAccess
  BY DEF TypeOK, Replica
<1>2. \A t \in Tab : /\ flight[t].auth \in LocalAccess /\ flight[t].known \in LocalAccess
                     /\ catalog[t].auth \in LocalAccess /\ review[t].auth \in LocalAccess
  BY DEF TypeOK, Flight, Page, Review
<1>3. Heard(d) \subseteq LocalAccess
  BY <1>1, <1>2, HeardIs
<1>4. News(AccountOf[d]) \subseteq LocalAccess
  BY DEF News
<1>5. \A acc \in LocalAccess : acc.m \in Nat
  BY DEF LocalAccess
<1> QED
  BY <1>3, <1>4, <1>5 DEF May

\* A step of the devices: nobody hears anything but what was under way and news,
\* a replica takes what is newer or is replaced while it may write, and those
\* that are told now are told of the deletion and closed.
HearsOnly ==
  /\ UNCHANGED access
  /\ \A t \in Tab : /\ flight'[t].auth \in May(DeviceOf[t])
                    /\ flight'[t].known \in May(DeviceOf[t])
                    /\ catalog'[t].auth \in May(DeviceOf[t])
                    /\ review'[t].auth \in May(DeviceOf[t])
  /\ \A d \in Device :
       \/ /\ \/ rep'[d].auth = rep[d].auth
             \/ \E new \in May(d) : rep'[d].auth = Newer(rep[d].auth, new)
          /\ From(rep'[d].outbox, rep[d].outbox)
       \/ rep[d].auth.write /\ rep'[d].auth \in May(d)
  /\ told \subseteq told' /\ told' \subseteq Device
  /\ \A d \in Device : rep'[d].auth.status = "deleted" => d \in told'
  /\ \A d \in told' \ told : rep'[d].auth.status = "deleted" /\ Shut(rep'[d].outbox)

\* Then what each device hears stays as MayHear says.
LEMMA HearsMay ==
  ASSUME TypeOK, Informed, HearsOnly, NEW d \in Device
  PROVE  /\ Heard(d)' \subseteq May(d)
         /\ MayHear(Heard(d), mrev[AccountOf[d]], role[AccountOf[d]], deleted)'
<1> DEFINE a == AccountOf[d]
<1>1. Heard(d)' \subseteq May(d)
  <2>1. rep'[d].auth \in May(d)
    BY HeardIs DEF HearsOnly, May, Newer
  <2>2. \A S : (/\ rep'[d].auth \in S
                /\ \A t \in Tab : DeviceOf[t] = d =>
                     /\ flight'[t].auth \in S /\ flight'[t].known \in S
                     /\ catalog'[t].auth \in S /\ review'[t].auth \in S)
               => Heard(d)' \subseteq S
    BY DEF Heard, HeardIn
  <2>3. \A t \in Tab : DeviceOf[t] = d =>
          /\ flight'[t].auth \in May(d) /\ flight'[t].known \in May(d)
          /\ catalog'[t].auth \in May(d) /\ review'[t].auth \in May(d)
    BY DEF HearsOnly
  <2> QED
    BY <2>1, <2>2, <2>3
<1>2. /\ a \in Account /\ mrev[a] \in Nat /\ mrev' = mrev /\ role' = role /\ deleted' = deleted
      /\ deleted => role[a] = "none"
  BY DeviceAssumption DEF HearsOnly, access, TypeOK, AccessTypeOK, Informed
<1>3. \A acc \in May(d) : acc.m \in Nat
  BY HeardTypes
<1>4. MayHear(Heard(d), mrev[a], role[a], deleted)
  BY DEF Informed
<1>5. ASSUME NEW acc \in May(d)
      PROVE  /\ acc.write => acc.status = "active"
             /\ acc.m <= mrev[a]
             /\ (acc.status = "active" /\ acc.m = mrev[a]) => role[a] # "none"
  BY <1>4 DEF MayHear, May, News
<1>6. ASSUME NEW acc \in May(d), acc.status = "deleted", NEW p \in May(d), p.status = "active"
      PROVE  deleted /\ p.m < acc.m
  <2>1. deleted
    BY <1>4, <1>6 DEF MayHear, May, News
  <2>2. p \in Heard(d)
    BY <1>6, <2>1 DEF May, News
  <2>3. CASE acc \in Heard(d)
    BY <1>4, <1>6, <2>1, <2>2, <2>3 DEF MayHear
  <2>4. CASE acc \in News(a)
    <3>1. acc.m = mrev[a]
      BY <1>6, <2>4 DEF News
    <3>2. p.m <= mrev[a] /\ p.m # mrev[a]
      BY <1>2, <1>5, <1>6, <2>1
    <3> QED
      BY <1>2, <1>3, <2>1, <3>1, <3>2
  <2> QED
    BY <2>3, <2>4 DEF May
<1>8. \A acc \in May(d) : acc.status = "deleted" => deleted
  BY <1>4 DEF MayHear, May, News
<1>7. MayHear(May(d), mrev[a], role[a], deleted)
  <2> HIDE DEF a
  <2> QED
    BY <1>5, <1>6, <1>8 DEF MayHear
<1>9. MayHear(Heard(d)', mrev[a], role[a], deleted)
  <2> HIDE DEF a
  <2>1. \A H, G : H \subseteq G /\ MayHear(G, mrev[a], role[a], deleted) => MayHear(H, mrev[a], role[a], deleted)
    BY DEF MayHear
  <2> QED
    BY <1>1, <1>7, <2>1
<1> QED
  BY <1>1, <1>2, <1>9 DEF MayHear

\* And who is told stays closed.
LEMMA HearsClosed ==
  ASSUME TypeOK, Informed, HearsOnly, NEW d \in told'
  PROVE  Closed(d)'
<1>0. d \in Device /\ AccountOf[d] \in Account
  BY DeviceAssumption DEF HearsOnly
<1>1. /\ Heard(d)' \subseteq May(d) /\ deleted' = deleted
      /\ MayHear(Heard(d), mrev[AccountOf[d]], role[AccountOf[d]], deleted)'
  BY <1>0, HearsMay DEF HearsOnly, access
<1>2. /\ rep[d].auth \in Heard(d) /\ rep'[d].auth \in Heard(d)'
  BY <1>0, HeardIs DEF Heard
<1>3. \A acc \in May(d) : acc.m \in Nat
  BY <1>0, HeardTypes
<1>4. CASE d \notin told
  <2>1. rep'[d].auth.status = "deleted" /\ Shut(rep'[d].outbox)
    BY <1>4 DEF HearsOnly
  <2>2. deleted' /\ \A p \in Heard(d)' : p.status = "active" => p.m < rep'[d].auth.m
    BY <1>1, <1>2, <2>1 DEF MayHear
  <2>3. rep'[d].auth.status # "active"
    BY <2>1
  <2> QED
    BY <2>1, <2>2, <2>3 DEF Closed
<1>5. CASE d \in told
  <2> DEFINE old == rep[d].auth
             new == rep'[d].auth
  <2>1. /\ deleted /\ old.status # "active" /\ Shut(rep[d].outbox)
        /\ \A p \in Heard(d) : p.status = "active" => p.m < old.m
    BY <1>5 DEF Informed, Closed
  <2>2. ~old.write
    BY <1>0, <1>2, <2>1 DEF Informed, MayHear
  <2>3. /\ new = old \/ \E x \in May(d) : new = Newer(old, x)
        /\ From(rep'[d].outbox, rep[d].outbox)
    BY <1>0, <2>2 DEF HearsOnly
  <2>4. Shut(rep'[d].outbox)
    BY <2>1, <2>3, FromKeeps
  <2>5. \A p \in May(d) : p.status = "active" => p \in Heard(d) /\ p.m < old.m
    BY <2>1 DEF May, News
  <2>6. old \in May(d) /\ old.m \in Nat
    BY <1>2, <1>3 DEF May
  <2>7. new.status # "active" /\ new.m >= old.m /\ new.m \in Nat
    <3>1. CASE new = old
      BY <2>1, <2>6, <3>1
    <3>2. CASE new # old
      <4>1. PICK x \in May(d) : new = Newer(old, x)
        BY <2>3, <3>2
      <4>2. new = x /\ ShouldApply(old, x) /\ x.m \in Nat
        BY <1>3, <3>2, <4>1 DEF Newer
      <4>3. x.m # old.m => x.m > old.m
        BY <4>2 DEF ShouldApply
      <4> QED
        BY <2>5, <2>6, <4>2, <4>3
    <3> QED
      BY <3>1, <3>2
  <2>8. \A p \in Heard(d)' : p.status = "active" => p.m < new.m
    <3>1. \A p \in May(d) : p.status = "active" => p.m < new.m
      BY <1>3, <2>5, <2>6, <2>7
    <3> QED
      BY <1>1, <3>1
  <2> QED
    BY <1>1, <2>1, <2>4, <2>7, <2>8 DEF Closed
<1> QED
  BY <1>4, <1>5

\* So the devices stay informed.
LEMMA HearsInformed ==
  ASSUME TypeOK, Informed, HearsOnly,
         \A t \in Tab : /\ review'[t].open => /\ review'[t].rep.auth.write
                                              /\ review'[t].auth.status = "active"
                        /\ catalog'[t].auth.status # "deleted"
  PROVE  Informed'
<1>1. (deleted => \A a \in Account : role[a] = "none")'
  BY DEF Informed, HearsOnly, access
<1>2. \A d \in Device : /\ MayHear(Heard(d), mrev[AccountOf[d]], role[AccountOf[d]], deleted)'
                        /\ rep'[d].auth.status = "deleted" => d \in told'
  BY HearsMay DEF HearsOnly
<1>3. \A d \in told' : Closed(d)'
  BY HearsClosed
<1> QED
  BY <1>1, <1>2, <1>3 DEF Informed

\* The rows: counters never go back, who is removed is counted, and nothing is
\* given back after a deletion.
LEMMA RowsMove ==
  ASSUME AccessTypeOK, ChangeAccess, deleted => \A a \in Account : role[a] = "none"
  PROVE  /\ AccessTypeOK'
         /\ deleted => deleted'
         /\ (deleted => \A a \in Account : role[a] = "none")'
         /\ \A a \in Account : /\ mrev[a] <= mrev'[a]
                               /\ mrev'[a] = mrev[a] /\ role[a] # "none" => role'[a] # "none"
<1> DEFINE Moves == /\ AccessTypeOK'
                    /\ deleted => deleted'
                    /\ (deleted => \A a \in Account : role[a] = "none")'
                    /\ \A a \in Account : /\ mrev[a] <= mrev'[a]
                                          /\ mrev'[a] = mrev[a] /\ role[a] # "none" => role'[a] # "none"
<1> USE DEF AccessTypeOK
<1>0. \A b \in Account : mrev[b] \in Nat
  OBVIOUS
<1>1. ASSUME NEW a \in Account, NEW to \in Roles, SetRole(a, to)
      PROVE  Moves
  <2>1. /\ ~deleted /\ deleted' = deleted /\ active' = active /\ arev' = arev + 1
        /\ role' = [role EXCEPT ![a] = to] /\ mrev' = [mrev EXCEPT ![a] = @ + 1]
    BY <1>1 DEF SetRole
  <2>2. AccessTypeOK'
    BY <2>1
  <2>3. \A b \in Account : /\ mrev[b] <= mrev'[b]
                           /\ mrev'[b] = mrev[b] => role'[b] = role[b]
    BY <1>0, <2>1
  <2> QED
    BY <2>1, <2>2, <2>3
<1>2. ASSUME NEW a \in Account, SetActive(a)
      PROVE  Moves
  <2>1. /\ deleted' = deleted /\ active' = [active EXCEPT ![a] = ~@] /\ role' = role
        /\ arev' \in {arev, arev + 1} /\ mrev' = [mrev EXCEPT ![a] = @ + 1]
    BY <1>2 DEF SetActive
  <2>2. AccessTypeOK'
    BY <2>1
  <2>3. \A b \in Account : mrev[b] <= mrev'[b]
    BY <1>0, <2>1
  <2> QED
    BY <2>1, <2>2, <2>3
<1>3. ASSUME NEW a \in Account, ChangeOtherMembership(a)
      PROVE  Moves
  <2>1. /\ UNCHANGED <<role, active, deleted, arev>> /\ mrev' = [mrev EXCEPT ![a] = @ + 1]
    BY <1>3 DEF ChangeOtherMembership
  <2>3. \A b \in Account : mrev[b] <= mrev'[b]
    BY <1>0, <2>1
  <2>2. AccessTypeOK'
    BY <2>1
  <2> QED
    BY <2>1, <2>2, <2>3
<1>4. ASSUME NEW a \in Account, DeleteWorkspace(a)
      PROVE  Moves
  <2>1. /\ deleted' = TRUE /\ UNCHANGED <<active, arev>>
        /\ mrev' = [b \in Account |-> IF role[b] = "none" THEN mrev[b] ELSE mrev[b] + 1]
        /\ role' = [b \in Account |-> "none"]
    BY <1>4 DEF DeleteWorkspace
  <2>2. \A b \in Account : /\ mrev[b] <= mrev'[b] /\ mrev'[b] \in Nat
                           /\ mrev'[b] = mrev[b] => role[b] = "none"
    BY <1>0, <2>1
  <2>3. AccessTypeOK'
    BY <2>1, <2>2 DEF Roles
  <2> QED
    BY <2>1, <2>2, <2>3
<1>5. ASSUME ChangeGuestLink
      PROVE  Moves
  <2>1. UNCHANGED <<role, active, deleted, mrev>> /\ arev' = arev + 1
    BY <1>5 DEF ChangeGuestLink
  <2> QED
    BY <1>0, <2>1
<1> HIDE DEF Moves
<1> QED
  BY <1>1, <1>2, <1>3, <1>4, <1>5 DEF ChangeAccess, Moves

-----------------------------------------------------------------------------
(* Steps that leave parts alone. *)

\* What a step leaves alone goes on to hold.
LEMMA Untouched ==
  /\ Recorded /\ UNCHANGED <<store, flight, review>> => Recorded'
  /\ NothingDropped /\ UNCHANGED <<store, rep, kept>> => NothingDropped'
  /\ Named /\ UNCHANGED <<todo, review, rep, origin>> => Named'
  /\ QueueIsVisible /\ UNCHANGED rep => QueueIsVisible'
  /\ Informed /\ UNCHANGED <<access, rep, flight, catalog, review, told>> => Informed'
<1>1. Recorded /\ UNCHANGED <<store, flight, review>> => Recorded'
  BY DEF Recorded
<1>2. NothingDropped /\ UNCHANGED <<store, rep, kept>> => NothingDropped'
  BY DEF NothingDropped, InLog
<1>3. Named /\ UNCHANGED <<todo, review, rep, origin>> => Named'
  BY DEF Named
<1>4. QueueIsVisible /\ UNCHANGED rep => QueueIsVisible'
  BY DEF QueueIsVisible
<1>5. Informed /\ UNCHANGED <<access, rep, flight, catalog, review, told>> => Informed'
  <2> SUFFICES ASSUME Informed, UNCHANGED <<access, rep, flight, catalog, review, told>>
               PROVE  Informed'
    OBVIOUS
  <2>1. \A d : Heard(d)' = Heard(d)
    BY DEF Heard, HeardIn
  <2>2. UNCHANGED <<role, deleted, mrev>>
    BY DEF access
  <2>3. \A d : Closed(d)' <=> Closed(d)
    BY <2>1, <2>2 DEF Closed
  <2>4. \A d : MayHear(Heard(d), mrev[AccountOf[d]], role[AccountOf[d]], deleted)'
                 <=> MayHear(Heard(d), mrev[AccountOf[d]], role[AccountOf[d]], deleted)
    BY <2>1, <2>2 DEF MayHear
  <2> QED
    BY <2>2, <2>3, <2>4 DEF Informed
<1> QED
  BY <1>1, <1>2, <1>3, <1>4, <1>5

\* More ids in use are no less.
LEMMA SaneGrows ==
  ASSUME NEW ids, NEW more, ids \subseteq more
  PROVE  /\ \A c : Sane(c, ids) => Sane(c, more)
         /\ \A outbox : SaneQueue(outbox, ids) => SaneQueue(outbox, more)
BY DEF Sane, SaneQueue

\* What was under way may be heard.
LEMMA HeardBefore ==
  /\ \A d \in Device : rep[d].auth \in May(d)
  /\ \A t \in Tab : /\ DeviceOf[t] \in Device /\ AccountOf[DeviceOf[t]] \in Account
                    /\ flight[t].auth \in May(DeviceOf[t]) /\ flight[t].known \in May(DeviceOf[t])
                    /\ catalog[t].auth \in May(DeviceOf[t]) /\ review[t].auth \in May(DeviceOf[t])
<1>1. \A t \in Tab : DeviceOf[t] \in Device /\ AccountOf[DeviceOf[t]] \in Account
  BY DeviceAssumption
<1> QED
  BY <1>1, HeardIs DEF May

\* Steps that leave the replicas alone.
LEMMA HearsStill ==
  ASSUME TypeOK, Informed, UNCHANGED <<access, rep, told>>,
         \A t \in Tab : /\ flight'[t].auth \in May(DeviceOf[t])
                        /\ flight'[t].known \in May(DeviceOf[t])
                        /\ catalog'[t].auth \in May(DeviceOf[t])
                        /\ review'[t].auth \in May(DeviceOf[t]),
         \A t \in Tab : /\ review'[t].open => /\ review'[t].rep.auth.write
                                              /\ review'[t].auth.status = "active"
                        /\ catalog'[t].auth.status # "deleted"
  PROVE  Informed'
<1>1. \A d \in Device : rep'[d].auth = rep[d].auth /\ From(rep'[d].outbox, rep[d].outbox)
  BY FromFrom
<1>2. \A d \in Device : rep'[d].auth.status = "deleted" => d \in told'
  BY DEF Informed
<1>3. told \subseteq told' /\ told' \subseteq Device /\ told' \ told = {}
  BY DEF TypeOK
<1>4. HearsOnly
  BY <1>1, <1>2, <1>3 DEF HearsOnly
<1> QED
  BY <1>4, HearsInformed

\* The parts of the state.
LEMMA PartsAre ==
  ASSUME TypeOK, NEW t \in Tab
  PROVE  /\ DeviceOf[t] \in Device /\ Account1(t) \in Account
         /\ rep[DeviceOf[t]] \in Replica /\ view[t] \in Replica
         /\ flight[t].batch \in Seq(Envelope) /\ flight[t].receipts \in Seq(Receipt)
         /\ flight[t].known \in LocalAccess /\ flight[t].auth \in LocalAccess
         /\ flight[t].answer \in Snapshot /\ flight[t] \in Flight
         /\ todo[t] \in Seq(Intent) /\ catalog[t] \in Page /\ catalog[t].auth \in LocalAccess
         /\ review[t] \in Review /\ review[t].server \in Snapshot
         /\ review[t].auth \in LocalAccess /\ review[t].rep \in Replica
<1>1. flight[t] \in Flight /\ todo[t] \in Seq(Intent) /\ catalog[t] \in Page /\ review[t] \in Review
  BY DEF TypeOK
<1>2. DeviceOf[t] \in Device /\ Account1(t) \in Account
  BY DeviceAssumption DEF Account1
<1>3. rep[DeviceOf[t]] \in Replica /\ view[t] \in Replica
  BY <1>2 DEF TypeOK
<1>4. /\ flight[t].batch \in Seq(Envelope) /\ flight[t].receipts \in Seq(Receipt)
      /\ flight[t].known \in LocalAccess /\ flight[t].auth \in LocalAccess
      /\ flight[t].answer \in Snapshot
  BY <1>1 DEF Flight
<1>5. /\ catalog[t].auth \in LocalAccess /\ review[t].server \in Snapshot
      /\ review[t].auth \in LocalAccess /\ review[t].rep \in Replica
  BY <1>1 DEF Page, Review
<1> QED
  BY <1>1, <1>2, <1>3, <1>4, <1>5

\* What nothing holds.
LEMMA NothingIs ==
  /\ NoKnowledge \in LocalAccess /\ ~NoKnowledge.write
  /\ NoKnowledge.status = "unknown" /\ NoKnowledge.m = 0
  /\ EmptySnapshot \in Snapshot /\ EmptySnapshot.ledger = << >> /\ EmptySnapshot.log = << >>
  /\ \A known \in LocalAccess : IdleFlight(known) \in Flight
  /\ NoReview \in Review /\ NoReview.open = FALSE /\ NoReview.server = EmptySnapshot
  /\ NoReview.auth = NoKnowledge /\ NoReview.rep.outbox = << >>
  /\ NoPage \in Page /\ NoPage.auth = NoKnowledge
<1>1. NoKnowledge \in LocalAccess
  BY DEF NoKnowledge, LocalAccess, Statuses, Roles
<1>2. EmptySnapshot \in Snapshot
  BY CommandAssumption DEF EmptySnapshot, Snapshot
<1>3. \A known \in LocalAccess : IdleFlight(known) \in Flight
  BY <1>2 DEF IdleFlight, Flight
<1>4. NoReview \in Review
  BY <1>1, <1>2 DEF NoReview, Review, Replica
<1>5. NoPage \in Page
  BY <1>1 DEF NoPage, Page
<1>6. ~NoKnowledge.write /\ NoKnowledge.status = "unknown" /\ NoKnowledge.m = 0
  BY DEF NoKnowledge
<1>7. EmptySnapshot.ledger = << >> /\ EmptySnapshot.log = << >>
  BY DEF EmptySnapshot
<1>8. /\ NoReview.open = FALSE /\ NoReview.server = EmptySnapshot
      /\ NoReview.auth = NoKnowledge /\ NoReview.rep.outbox = << >>
      /\ NoPage.auth = NoKnowledge
  BY DEF NoReview, NoPage
<1> QED
  BY <1>1, <1>2, <1>3, <1>4, <1>5, <1>6, <1>7, <1>8

-----------------------------------------------------------------------------
(* Editing keeps the invariant. *)

\* dispatch queues an envelope under a new id.
LEMMA DispatchKeeps ==
  ASSUME Inv, UNCHANGED scope, NEW t \in Tab, NEW e \in Originals, Dispatch(t, e)
  PROVE  Inv'
<1> DEFINE env == MakeEnvelope(view[t].state, e, FieldOf[e], ValueOf[e], BasisKnown(view[t].auth))
           x == [id |-> e, field |-> FieldOf[e], value |-> ValueOf[e], env |-> env,
                 prior |-> {todo[t][i].id : i \in DOMAIN todo[t]},
                 guarded |-> e \in Guarded]
<1>1. /\ todo' = [todo EXCEPT ![t] = Append(@, x)]
      /\ origin' = [y \in DOMAIN origin \cup {e} |-> IF y = e THEN e ELSE origin[y]]
      /\ UNCHANGED <<store, access, rep, view, flight, orphans, review, kept, told, catalog>>
  BY DEF Dispatch
<1>2. TypeOK /\ Recorded /\ NothingDropped /\ Named /\ QueueIsVisible /\ Informed
  BY DEF Inv
<1>3. e \in Edit /\ FieldOf[e] \in Field /\ ValueOf[e] \in Value
  BY DeviceAssumption DEF Originals
<1>4. env \in Envelope /\ env.id = e /\ DOMAIN env.sets # {}
  <2>1. view[t].state \in Snapshot /\ BasisKnown(view[t].auth) \in Basis
    BY <1>2, PartsAre, ReplicaIs DEF BasisKnown, Basis
  <2> QED
    BY <1>3, <2>1, EnvelopeIs
<1> HIDE DEF env
<1>5. x \in Intent /\ x.env = env /\ x.id = e
  <2>1. todo[t] \in Seq(Intent)
    BY <1>2, PartsAre
  <2>2. \A i \in DOMAIN todo[t] : todo[t][i].id \in Edit
    <3>1. \A i \in DOMAIN todo[t] : todo[t][i] \in Intent
      BY <2>1
    <3> QED
      BY <3>1 DEF Intent
  <2>3. {todo[t][i].id : i \in DOMAIN todo[t]} \in SUBSET Edit
    BY <2>2
  <2> QED
    BY <1>3, <1>4, <2>3 DEF Intent
<1> HIDE DEF x
<1>6. /\ Append(todo[t], x) \in Seq(Intent) /\ DOMAIN Append(todo[t], x) = DOMAIN todo[t] \cup {Len(todo[t]) + 1}
      /\ \A i \in DOMAIN todo[t] : Append(todo[t], x)[i] = todo[t][i]
      /\ Append(todo[t], x)[Len(todo[t]) + 1] = x
  BY <1>2, <1>5, PartsAre, AppendIs
<1>7. TypeOK'
  <2>1. todo' \in [Tab -> Seq(Intent)]
    BY <1>1, <1>2, <1>6 DEF TypeOK
  <2>2. origin' \in UNION {[D -> Originals] : D \in SUBSET Edit}
    <3>1. PICK D \in SUBSET Edit : origin \in [D -> Originals]
      BY <1>2 DEF TypeOK
    <3>2. origin' \in [D \cup {e} -> Originals] /\ D \cup {e} \in SUBSET Edit
      BY <1>1, <1>3, <3>1
    <3> QED
      BY <3>2
  <2> QED
    BY <1>1, <1>2, <2>1, <2>2 DEF TypeOK, AccessTypeOK, access
<1>8. Named'
  <2>1. DOMAIN origin \subseteq DOMAIN origin' /\ e \in DOMAIN origin'
    BY <1>1
  <2>2. ASSUME NEW u \in Tab, NEW i \in DOMAIN todo'[u]
        PROVE  Sane(todo'[u][i].env, DOMAIN origin') /\ todo'[u][i].env.id = todo'[u][i].id
    <3>1. CASE i \in DOMAIN todo[u] /\ todo'[u][i] = todo[u][i]
      BY <1>2, <2>1, <3>1, SaneGrows DEF Named
    <3>2. CASE todo'[u][i] = x
      BY <1>4, <1>5, <2>1, <3>2 DEF Sane
    <3> QED
      BY <1>1, <1>2, <1>6, <3>1, <3>2 DEF TypeOK
  <2>3. \A u \in Tab : SaneQueue(review'[u].rep.outbox, DOMAIN origin')
    BY <1>1, <1>2, <2>1, SaneGrows DEF Named
  <2>4. \A d \in Device : SaneQueue(rep'[d].outbox, DOMAIN origin')
    BY <1>1, <1>2, <2>1, SaneGrows DEF Named
  <2> QED
    BY <2>2, <2>3, <2>4 DEF Named
<1> QED
  BY <1>1, <1>2, <1>7, <1>8, Untouched DEF Inv

\* The queued transaction applies it and appends it to the outbox, or fails.
LEMMA StoreKeeps ==
  ASSUME Inv, UNCHANGED scope, NEW t \in Tab, Store(t)
  PROVE  Inv'
<1> DEFINE d == DeviceOf[t]
           x == Head(todo[t])
           env == EffectiveEnvelope(rep[d].state, x)
           entry == [env |-> env, status |-> "pending"]
           state == ApplyCommand(rep[d].state, env, Account1(t))
           box == Append(rep[d].outbox, entry)
           next == [rep[d] EXCEPT !.state = ApplyCommand(@, env, Account1(t)),
                                  !.outbox = Append(@, [env |-> env, status |-> "pending"])]
           Stored == /\ rep[d].auth.write /\ rep' = [rep EXCEPT ![d] = next]
                     /\ view' = [view EXCEPT ![t] = next]
                     /\ kept' = [kept EXCEPT ![d] = @ \cup {x.id}]
           Failed == view' = [view EXCEPT ![t] = rep[d]] /\ UNCHANGED <<rep, kept>>
<1>1. /\ todo[t] # << >> /\ todo' = [todo EXCEPT ![t] = Tail(@)]
      /\ Stored \/ Failed
      /\ UNCHANGED <<store, access, flight, orphans, review, origin, told, catalog>>
  BY DEF Store
<1>2. TypeOK /\ Recorded /\ NothingDropped /\ Named /\ QueueIsVisible /\ Informed
  BY DEF Inv
<1>3. d \in Device /\ rep[d] \in Replica /\ Account1(t) \in Account /\ todo[t] \in Seq(Intent)
  BY <1>2, PartsAre
<1>4. /\ x \in Intent /\ Tail(todo[t]) \in Seq(Intent)
      /\ \A i \in DOMAIN Tail(todo[t]) : \E j \in DOMAIN todo[t] : Tail(todo[t])[i] = todo[t][j]
      /\ \E j \in DOMAIN todo[t] : x = todo[t][j]
  <2> DEFINE s == todo[t]
  <2>1. s \in Seq(Intent) /\ s # << >>
    BY <1>1, <1>3
  <2> HIDE DEF s
  <2>2. /\ 1 \in DOMAIN s /\ Head(s) = s[1] /\ Tail(s) \in Seq(Intent)
        /\ \A i \in DOMAIN Tail(s) : i + 1 \in DOMAIN s /\ Tail(s)[i] = s[i + 1]
    BY <2>1
  <2>3. Head(s) \in Intent
    BY <2>1, <2>2
  <2> QED
    BY <2>2, <2>3 DEF s
<1>5. Sane(x.env, DOMAIN origin) /\ x.env.id = x.id
  BY <1>2, <1>4 DEF Named
<1>6. env \in Envelope /\ env.id = x.id /\ Sane(env, DOMAIN origin)
  <2> DEFINE c == MakeEnvelope(rep[d].state, x.id, x.field, x.value, x.env.basis)
  <2>1. env \in {x.env, c}
    BY DEF EffectiveEnvelope
  <2>2. /\ x.env \in Envelope /\ x.id \in Edit /\ x.field \in Field /\ x.value \in Value
    BY <1>4 DEF Intent
  <2> HIDE DEF x, env
  <2>3. CASE env = x.env
    BY <1>5, <2>2, <2>3
  <2>4. CASE env = c
    <3> DEFINE s == rep[d].state
    <3>1. s \in Snapshot
      BY <1>3, ReplicaIs
    <3> HIDE DEF s
    <3>2. c = [id |-> x.id, sets |-> [y \in {x.field} |-> x.value], expect |-> Expectations(s, {x.field}),
               base |-> s.rev, basis |-> x.env.basis]
      BY DEF MakeEnvelope, s
    <3> DEFINE sets == [y \in {x.field} |-> x.value]
               expect == Expectations(s, {x.field})
    <3>3. sets \in [{x.field} -> Value] /\ expect \in [{x.field} -> Value] /\ DOMAIN sets = {x.field}
      BY <2>2, <3>1, SnapshotIs DEF Expectations
    <3>4. sets \in Partial /\ expect \in Partial
      BY <2>2, <3>3, SomeFields
    <3> HIDE DEF sets, expect
    <3>5. /\ c.id = x.id /\ c.sets = sets /\ c.expect = expect /\ c.base = s.rev
          /\ c = [id |-> x.id, sets |-> sets, expect |-> expect, base |-> s.rev, basis |-> x.env.basis]
      BY <3>2 DEF sets, expect
    <3>6. x.env.basis \in Basis \cup {NoBasis} /\ s.rev \in Nat
      BY <2>2, <3>1, SnapshotIs DEF Envelope
    <3> HIDE DEF c
    <3>7. c \in Envelope
      BY <2>2, <3>4, <3>5, <3>6 DEF Envelope
    <3>8. Sane(c, DOMAIN origin)
      BY <1>5, <3>3, <3>5 DEF Sane
    <3> QED
      BY <2>4, <3>5, <3>7, <3>8
  <2> QED
    BY <2>1, <2>3, <2>4
<1>7. /\ state \in Snapshot /\ \A id : WasApplied(state, id) <=> WasApplied(rep[d].state, id) \/ id = env.id
  BY <1>3, <1>6, ReplicaIs, ApplyIs
<1>8. entry \in OutboxEntry /\ entry.env = env
  BY <1>6 DEF OutboxEntry
<1> HIDE DEF x, env
<1>9. /\ box \in Seq(OutboxEntry) /\ DOMAIN box = DOMAIN rep[d].outbox \cup {Len(rep[d].outbox) + 1}
      /\ \A i \in DOMAIN rep[d].outbox : box[i] = rep[d].outbox[i]
      /\ box[Len(rep[d].outbox) + 1] = entry
  BY <1>3, <1>8, ReplicaIs, AppendIs
<1>10. next \in Replica /\ next.state = state /\ next.outbox = box /\ next.auth = rep[d].auth
  <2>1. next = [rep[d] EXCEPT !.state = state, !.outbox = box]
    OBVIOUS
  <2> HIDE DEF next, state, box, d
  <2> DEFINE r == rep[d]
             new == [r EXCEPT !.state = state, !.outbox = box]
  <2>2. r \in Replica /\ state \in Snapshot /\ box \in Seq(OutboxEntry)
    BY <1>3, <1>7, <1>9
  <2>3. next = new
    BY <2>1
  <2> HIDE DEF r
  <2>4. new \in Replica /\ new.state = state /\ new.outbox = box /\ new.auth = r.auth
    BY <2>2 DEF Replica
  <2> HIDE DEF new
  <2> QED
    BY <2>3, <2>4 DEF r
<1> HIDE DEF next, state, entry, box, d
<1>11. TypeOK'
  <2>1. todo' \in [Tab -> Seq(Intent)]
    BY <1>1, <1>2, <1>4 DEF TypeOK
  <2>2. x.id \in Edit
    BY <1>4 DEF Intent
  <2>3. /\ rep' \in [Device -> Replica] /\ view' \in [Tab -> Replica]
        /\ kept' \in [Device -> SUBSET Edit]
    <3>1. /\ rep \in [Device -> Replica] /\ view \in [Tab -> Replica]
          /\ kept \in [Device -> SUBSET Edit]
      BY <1>2 DEF TypeOK
    <3>2. CASE Stored
      <4>1. rep' \in [Device -> Replica]
        BY <1>10, <3>1, <3>2
      <4>2. view' \in [Tab -> Replica]
        BY <1>10, <3>1, <3>2
      <4>3. kept' \in [Device -> SUBSET Edit]
        BY <2>2, <3>1, <3>2
      <4> QED
        BY <4>1, <4>2, <4>3
    <3>3. CASE Failed
      BY <1>3, <3>1, <3>3
    <3> QED
      BY <1>1, <3>2, <3>3
  <2> QED
    BY <1>1, <1>2, <2>1, <2>3 DEF TypeOK, AccessTypeOK, access
<1>12. Named'
  <2>1. \A u \in Tab : \A i \in DOMAIN todo'[u] : \E j \in DOMAIN todo[u] : todo'[u][i] = todo[u][j]
    BY <1>1, <1>2, <1>4 DEF TypeOK
  <2>2. \A u \in Tab : \A i \in DOMAIN todo'[u] : /\ Sane(todo'[u][i].env, DOMAIN origin')
                                                  /\ todo'[u][i].env.id = todo'[u][i].id
    BY <1>1, <1>2, <2>1 DEF Named
  <2>3. SaneQueue(box, DOMAIN origin)
    BY <1>2, <1>3, <1>6, <1>8, <1>9 DEF Named, SaneQueue
  <2>4. \A c \in Device : SaneQueue(rep'[c].outbox, DOMAIN origin)
    BY <1>1, <1>2, <1>3, <1>10, <2>3 DEF Named, TypeOK
  <2> QED
    BY <1>1, <1>2, <2>2, <2>4 DEF Named
<1>13. NothingDropped'
  <2>1. OutboxIds(box) = OutboxIds(rep[d].outbox) \cup {x.id}
    BY <1>6, <1>8, <1>9 DEF OutboxIds
  <2>2. CASE Stored
    BY <1>1, <1>2, <1>3, <1>10, <2>1, <2>2 DEF NothingDropped, InLog, TypeOK
  <2> QED
    BY <1>1, <1>2, <2>2, Untouched
<1>14. QueueIsVisible'
  <2>1. \A i \in DOMAIN box : WasApplied(state, box[i].env.id)
    BY <1>2, <1>3, <1>7, <1>8, <1>9 DEF QueueIsVisible
  <2> QED
    BY <1>1, <1>2, <1>3, <1>10, <2>1 DEF QueueIsVisible, TypeOK
<1>15. Informed'
  <2>1. CASE Failed
    BY <1>1, <1>2, <2>1, Untouched
  <2>2. CASE Stored
    <3>1. \A c \in Device : rep'[c].auth = rep[c].auth
      BY <1>2, <1>3, <1>10, <2>2 DEF TypeOK
    <3>2. \A c \in Device : c # d => rep'[c] = rep[c]
      BY <1>2, <1>3, <2>2 DEF TypeOK
    <3>3. \A c \in Device : /\ c = d => rep[c].auth.write /\ rep'[c].auth \in May(c)
                            /\ c # d => From(rep'[c].outbox, rep[c].outbox)
      BY <2>2, <3>1, <3>2, HeardBefore, FromFrom
    <3>4. \A c \in Device : rep'[c].auth.status = "deleted" => c \in told'
      BY <1>1, <1>2, <3>1 DEF Informed
    <3>5. told \subseteq told' /\ told' \subseteq Device /\ told' \ told = {}
      BY <1>1, <1>2 DEF TypeOK
    <3>6. HearsOnly
      BY <1>1, <3>1, <3>3, <3>4, <3>5, HeardBefore DEF HearsOnly
    <3> QED
      BY <1>1, <1>2, <3>6, HearsInformed DEF Informed
  <2> QED
    BY <1>1, <2>1, <2>2
<1>16. Recorded'
  BY <1>1, <1>2, Untouched
<1> QED
  BY <1>11, <1>12, <1>13, <1>14, <1>15, <1>16 DEF Inv

\* What a tab shows is read again.
LEMMA RefreshKeeps ==
  ASSUME Inv, UNCHANGED scope, NEW t \in Tab, Refresh(t) \/ Reload(t)
  PROVE  Inv'
<1>1. /\ view' = [view EXCEPT ![t] = rep[DeviceOf[t]]]
      /\ todo' = todo \/ todo' = [todo EXCEPT ![t] = << >>]
      /\ UNCHANGED <<store, access, rep, flight, orphans, review, origin, kept, told, catalog>>
  BY DEF Refresh, Reload
<1>2. TypeOK /\ Recorded /\ NothingDropped /\ Named /\ QueueIsVisible /\ Informed
  BY DEF Inv
<1>3. TypeOK'
  <2>0. rep[DeviceOf[t]] \in Replica /\ << >> \in Seq(Intent)
    BY <1>2, PartsAre
  <2>1. view' \in [Tab -> Replica] /\ todo' \in [Tab -> Seq(Intent)]
    BY <1>1, <1>2, <2>0 DEF TypeOK
  <2> QED
    BY <1>1, <1>2, <2>1 DEF TypeOK, AccessTypeOK, access
<1>4. Named'
  <2>1. \A u \in Tab : todo'[u] = todo[u] \/ DOMAIN todo'[u] = {}
    BY <1>1, <1>2 DEF TypeOK
  <2> QED
    BY <1>1, <1>2, <2>1 DEF Named
<1> QED
  BY <1>1, <1>2, <1>3, <1>4, Untouched DEF Inv

-----------------------------------------------------------------------------
(* Exchanging requests keeps the invariant. *)

\* A step of the server and of the flights alone.
LEMMA TravelKeeps ==
  ASSUME Inv, UNCHANGED <<scope, access, rep, view, todo, review, origin, kept, told, catalog>>,
         store' \in Snapshot, Remembers(store', Logged(store'.log)),
         Logged(store.log) \subseteq Logged(store'.log),
         orphans' \in SUBSET [batch : Seq(Envelope), account : Account],
         flight' \in [Tab -> Flight],
         \A t \in Tab : \/ flight'[t] = flight[t]
                        \/ /\ Acknowledges(flight'[t].receipts, Logged(store'.log))
                           /\ flight'[t].auth \in May(DeviceOf[t])
                           /\ flight'[t].known \in May(DeviceOf[t])
  PROVE  Inv'
<1>1. TypeOK /\ Recorded /\ NothingDropped /\ Named /\ QueueIsVisible /\ Informed
  BY DEF Inv
<1>2. TypeOK'
  BY <1>1 DEF TypeOK, AccessTypeOK, access
<1>3. Recorded'
  <2>1. \A t \in Tab : /\ Acknowledges(flight[t].receipts, Logged(store'.log))
                       /\ Remembers(review[t].server, Logged(store'.log))
    BY <1>1, IdsGrow DEF Recorded
  <2> QED
    BY <2>1 DEF Recorded
<1>4. NothingDropped'
  <2>1. \A id : InLog(id) => InLog(id)'
    <3>1. \A id : /\ InLog(id) <=> id \in Logged(store.log)
                  /\ InLog(id)' <=> id \in Logged(store'.log)
      BY DEF InLog, Logged
    <3> QED
      BY <3>1
  <2> QED
    BY <1>1, <2>1 DEF NothingDropped
<1>5. Informed'
  <2>1. \A t \in Tab : /\ flight'[t].auth \in May(DeviceOf[t])
                       /\ flight'[t].known \in May(DeviceOf[t])
                       /\ catalog'[t].auth \in May(DeviceOf[t])
                       /\ review'[t].auth \in May(DeviceOf[t])
    BY HeardBefore
  <2>2. \A t \in Tab : /\ review'[t].open => /\ review'[t].rep.auth.write
                                             /\ review'[t].auth.status = "active"
                       /\ catalog'[t].auth.status # "deleted"
    BY <1>1 DEF Informed
  <2> QED
    BY <1>1, <2>1, <2>2, HearsStill
<1> QED
  BY <1>1, <1>2, <1>3, <1>4, <1>5, Untouched DEF Inv

\* What a device heard is not newer than the rows.
LEMMA MayBound ==
  ASSUME Informed, NEW d \in Device, NEW acc \in May(d)
  PROVE  acc.m <= mrev[AccountOf[d]]
BY DEF Informed, MayHear, May, News

\* flushWorkspace sends what waits, knowing the access of the replica.
LEMMA FlushKeeps ==
  ASSUME Inv, UNCHANGED scope, NEW t \in Tab, Flush(t)
  PROVE  Inv'
<1> DEFINE r == rep[DeviceOf[t]]
           q == [IdleFlight(r.auth) EXCEPT !.phase = "sent", !.batch = SelectBatch(r.outbox)]
<1>1. /\ flight' = [flight EXCEPT ![t] = q]
      /\ UNCHANGED <<store, access, rep, view, todo, orphans, review, origin, kept, told, catalog>>
  BY DEF Flush
<1>2. TypeOK /\ Recorded
  BY DEF Inv
<1>3. r.outbox \in Seq(OutboxEntry) /\ r.auth \in LocalAccess /\ DeviceOf[t] \in Device
  BY <1>2, PartsAre, ReplicaIs
<1>4. q \in Flight /\ q.auth = r.auth /\ q.known = r.auth /\ q.receipts = << >>
  BY <1>3, SelectIs, NothingIs DEF IdleFlight, Flight
<1>5. r.auth \in May(DeviceOf[t])
  BY <1>3, HeardBefore
<1>6. Acknowledges(<< >>, Logged(store'.log))
  BY DEF Acknowledges
<1> HIDE DEF q, r
<1>7. flight' \in [Tab -> Flight] /\ \A u \in Tab : flight'[u] = IF u = t THEN q ELSE flight[u]
  BY <1>1, <1>2, <1>4 DEF TypeOK
<1>8. \A u \in Tab : \/ flight'[u] = flight[u]
                     \/ /\ Acknowledges(flight'[u].receipts, Logged(store'.log))
                        /\ flight'[u].auth \in May(DeviceOf[u])
                        /\ flight'[u].known \in May(DeviceOf[u])
  BY <1>4, <1>5, <1>6, <1>7
<1>9. /\ store' \in Snapshot /\ Remembers(store', Logged(store'.log))
      /\ orphans' \in SUBSET [batch : Seq(Envelope), account : Account]
  BY <1>1, <1>2 DEF TypeOK, Recorded
<1> QED
  BY <1>1, <1>7, <1>8, <1>9, TravelKeeps

\* The server takes a batch and acknowledges what is then in its history, or refuses.
LEMMA ServeKeeps ==
  ASSUME Inv, UNCHANGED scope, NEW t \in Tab, Serve(t)
  PROVE  Inv'
<1> DEFINE a == Account1(t)
           batch == flight[t].batch
           acc == AccessOf(a)
           run == RunBatch(batch, a)
           AllRejected == [i \in DOMAIN batch |-> ReceiptOf(batch[i], "rejected", store)]
           Answer(result, receipts, auth) ==
             [flight[t] EXCEPT !.phase = "answered", !.result = result,
                               !.receipts = receipts, !.auth = auth]
           Served == [flight[t] EXCEPT !.phase = "served", !.receipts = run.receipts]
<1>1. TypeOK /\ Recorded /\ Informed
  BY DEF Inv
<1>2. /\ a \in Account /\ a = AccountOf[DeviceOf[t]] /\ DeviceOf[t] \in Device
      /\ batch \in Seq(Envelope) /\ flight[t] \in Flight /\ flight[t].known \in LocalAccess
      /\ store \in Snapshot /\ Remembers(store, Logged(store.log))
  BY <1>1, PartsAre DEF TypeOK, Recorded, Account1
<1>3. /\ flight[t].auth \in May(DeviceOf[t]) /\ flight[t].known \in May(DeviceOf[t])
  BY HeardBefore
<1>4. /\ UNCHANGED <<access, rep, view, todo, orphans, review, origin, kept, told, catalog>>
      /\ \/ store' = run.s /\ flight' = [flight EXCEPT ![t] = Served]
         \/ store' = store /\ flight' = [flight EXCEPT ![t] = Answer("refused", AllRejected, Refused(acc))]
         \/ store' = store /\ flight' = [flight EXCEPT ![t] = Answer("notFound", << >>, Inaccessible(flight[t].known))]
  BY <1>1 DEF Serve, TypeOK
<1>5. /\ run.s \in Snapshot /\ run.receipts \in Seq(Receipt)
      /\ Remembers(run.s, Logged(run.s.log)) /\ Logged(store.log) \subseteq Logged(run.s.log)
      /\ Acknowledges(run.receipts, Logged(run.s.log))
  BY <1>2, RunBatchIs
<1>6. AllRejected \in Seq(Receipt) /\ Acknowledges(AllRejected, Logged(store.log))
  <2>1. Len(batch) \in Nat /\ DOMAIN batch = 1..Len(batch) /\ \A i \in 1..Len(batch) : batch[i] \in Envelope
    BY <1>2
  <2>2. \A i \in 1..Len(batch) : /\ ReceiptOf(batch[i], "rejected", store) \in Receipt
                                 /\ ReceiptOf(batch[i], "rejected", store).status = "rejected"
    BY <1>2, <2>1, SnapshotIs DEF ReceiptOf, Receipt, Envelope
  <2> HIDE DEF batch
  <2>3. AllRejected \in [1..Len(batch) -> Receipt] /\ \A i \in DOMAIN AllRejected : AllRejected[i].status = "rejected"
    BY <2>1, <2>2
  <2> HIDE DEF AllRejected
  <2> QED
    BY <2>1, <2>3 DEF Acknowledges
<1>7. Refused(acc) \in News(a) /\ Inaccessible(flight[t].known) \in News(a)
  BY <1>1, <1>2, <1>3, NewsIs, MayBound DEF TypeOK
<1>8. /\ News(a) \subseteq LocalAccess /\ News(a) \subseteq May(DeviceOf[t])
  BY <1>2 DEF News, May
<1>9. Acknowledges(<< >>, Logged(store.log)) /\ << >> \in Seq(Receipt)
  BY DEF Acknowledges
<1> HIDE DEF a, run, AllRejected, acc, batch
<1> DEFINE refused == Refused(acc)
           gone == Inaccessible(flight[t].known)
<1>10. refused \in LocalAccess /\ gone \in LocalAccess
  BY <1>7, <1>8
<1>11. /\ Served \in Flight /\ Served.receipts = run.receipts
       /\ Served.auth = flight[t].auth /\ Served.known = flight[t].known
  BY <1>2, <1>5 DEF Flight
<1>12. orphans' \in SUBSET [batch : Seq(Envelope), account : Account]
  BY <1>1, <1>4 DEF TypeOK
<1>13. ASSUME NEW q \in Flight, flight' = [flight EXCEPT ![t] = q],
              store' \in Snapshot, Remembers(store', Logged(store'.log)),
              Logged(store.log) \subseteq Logged(store'.log),
              Acknowledges(q.receipts, Logged(store'.log)),
              q.auth \in May(DeviceOf[t]), q.known \in May(DeviceOf[t])
       PROVE  Inv'
  <2>1. flight' \in [Tab -> Flight] /\ \A u \in Tab : flight'[u] = IF u = t THEN q ELSE flight[u]
    BY <1>1, <1>13 DEF TypeOK
  <2>2. \A u \in Tab : \/ flight'[u] = flight[u]
                       \/ /\ Acknowledges(flight'[u].receipts, Logged(store'.log))
                          /\ flight'[u].auth \in May(DeviceOf[u])
                          /\ flight'[u].known \in May(DeviceOf[u])
    BY <1>13, <2>1
  <2> QED
    BY <1>4, <1>12, <1>13, <2>1, <2>2, TravelKeeps
<1> DEFINE Q == Answer("refused", AllRejected, Refused(acc))
           R == Answer("notFound", << >>, Inaccessible(flight[t].known))
<1>14. /\ Q \in Flight /\ Q.receipts = AllRejected /\ Q.auth = Refused(acc) /\ Q.known = flight[t].known
  <2> HIDE DEF refused
  <2>1. Q = Answer("refused", AllRejected, refused)
    BY DEF refused
  <2> HIDE DEF Q
  <2>2. Q \in Flight /\ Q.receipts = AllRejected /\ Q.auth = refused /\ Q.known = flight[t].known
    BY <1>2, <1>6, <1>10, <2>1 DEF Flight
  <2> QED
    BY <2>2 DEF refused
<1>15. /\ R \in Flight /\ R.receipts = << >> /\ R.auth = Inaccessible(flight[t].known)
       /\ R.known = flight[t].known
  <2> HIDE DEF gone
  <2>1. R = Answer("notFound", << >>, gone)
    BY DEF gone
  <2> HIDE DEF R
  <2>2. R \in Flight /\ R.receipts = << >> /\ R.auth = gone /\ R.known = flight[t].known
    BY <1>2, <1>9, <1>10, <2>1 DEF Flight
  <2> QED
    BY <2>2 DEF gone
<1>16. \/ store' = run.s /\ flight' = [flight EXCEPT ![t] = Served]
       \/ store' = store /\ flight' = [flight EXCEPT ![t] = Q]
       \/ store' = store /\ flight' = [flight EXCEPT ![t] = R]
  BY <1>4
<1> HIDE DEF Served, Q, R
<1>17. CASE store' = run.s /\ flight' = [flight EXCEPT ![t] = Served]
  BY <1>3, <1>5, <1>11, <1>13, <1>17
<1>18. CASE store' = store /\ flight' = [flight EXCEPT ![t] = Q]
  BY <1>2, <1>3, <1>6, <1>7, <1>8, <1>13, <1>14, <1>18
<1>19. CASE store' = store /\ flight' = [flight EXCEPT ![t] = R]
  BY <1>2, <1>3, <1>7, <1>8, <1>9, <1>13, <1>15, <1>19
<1> QED
  BY <1>16, <1>17, <1>18, <1>19

\* The last read of the route answers with what the rows say.
LEMMA RespondKeeps ==
  ASSUME Inv, UNCHANGED scope, NEW t \in Tab, Respond(t)
  PROVE  Inv'
<1> DEFINE a == Account1(t)
           answer == IF CanRead(a) THEN store ELSE EmptySnapshot
           result == IF CanRead(a) THEN "ok" ELSE "refused"
           auth == IF CanRead(a) THEN Granted(AccessOf(a)) ELSE Refused(AccessOf(a))
           q == [flight[t] EXCEPT !.phase = "answered", !.result = result, !.answer = answer,
                                  !.auth = auth]
<1>1. TypeOK /\ Recorded /\ Informed
  BY DEF Inv
<1>2. /\ a \in Account /\ a = AccountOf[DeviceOf[t]] /\ DeviceOf[t] \in Device
      /\ flight[t] \in Flight /\ store \in Snapshot /\ Remembers(store, Logged(store.log))
  BY <1>1, PartsAre DEF TypeOK, Recorded, Account1
<1>3. /\ flight' = [flight EXCEPT ![t] = q]
      /\ UNCHANGED <<store, access, rep, view, todo, orphans, review, origin, kept, told, catalog>>
  BY <1>1 DEF Respond, TypeOK
<1>4. auth \in News(a) /\ result \in {"ok", "refused"} /\ answer \in Snapshot
  BY <1>1, <1>2, NewsIs, NothingIs DEF TypeOK
<1>5. auth \in LocalAccess /\ auth \in May(DeviceOf[t])
  BY <1>2, <1>4 DEF News, May
<1> HIDE DEF auth, answer, result
<1>6. q \in Flight /\ q.auth = auth /\ q.known = flight[t].known /\ q.receipts = flight[t].receipts
  BY <1>2, <1>4, <1>5 DEF Flight
<1> HIDE DEF q
<1>7. flight' \in [Tab -> Flight] /\ \A u \in Tab : flight'[u] = IF u = t THEN q ELSE flight[u]
  BY <1>1, <1>3, <1>6 DEF TypeOK
<1>8. Acknowledges(flight[t].receipts, Logged(store'.log)) /\ flight[t].known \in May(DeviceOf[t])
  BY <1>1, <1>3, HeardBefore DEF Recorded
<1>9. \A u \in Tab : \/ flight'[u] = flight[u]
                     \/ /\ Acknowledges(flight'[u].receipts, Logged(store'.log))
                        /\ flight'[u].auth \in May(DeviceOf[u])
                        /\ flight'[u].known \in May(DeviceOf[u])
  BY <1>5, <1>6, <1>7, <1>8
<1>10. orphans' \in SUBSET [batch : Seq(Envelope), account : Account]
  BY <1>1, <1>3 DEF TypeOK
<1> QED
  BY <1>2, <1>3, <1>7, <1>9, <1>10, TravelKeeps

\* The tab stops waiting; what it sent may still travel.
LEMMA GiveUpKeeps ==
  ASSUME Inv, UNCHANGED scope, NEW t \in Tab, GiveUp(t)
  PROVE  Inv'
<1> DEFINE q == IdleFlight(NoKnowledge)
           o == [batch |-> flight[t].batch, account |-> Account1(t)]
<1>1. TypeOK /\ Recorded /\ Informed
  BY DEF Inv
<1>2. /\ flight' = [flight EXCEPT ![t] = q] /\ (orphans' = orphans \/ orphans' = orphans \cup {o})
      /\ UNCHANGED <<store, access, rep, view, todo, review, origin, kept, told, catalog>>
  BY DEF GiveUp
<1>3. /\ q \in Flight /\ q.auth = NoKnowledge /\ q.known = NoKnowledge /\ q.receipts = << >>
  BY NothingIs DEF IdleFlight
<1>4. NoKnowledge \in May(DeviceOf[t])
  BY <1>1, HeardBefore, NewsIs DEF May, TypeOK
<1>5. o \in [batch : Seq(Envelope), account : Account]
  BY <1>1, PartsAre
<1>6. Acknowledges(<< >>, Logged(store'.log))
  BY DEF Acknowledges
<1> HIDE DEF q, o
<1>7. flight' \in [Tab -> Flight] /\ \A u \in Tab : flight'[u] = IF u = t THEN q ELSE flight[u]
  BY <1>1, <1>2, <1>3 DEF TypeOK
<1>8. \A u \in Tab : \/ flight'[u] = flight[u]
                     \/ /\ Acknowledges(flight'[u].receipts, Logged(store'.log))
                        /\ flight'[u].auth \in May(DeviceOf[u])
                        /\ flight'[u].known \in May(DeviceOf[u])
  BY <1>3, <1>4, <1>6, <1>7
<1>9. /\ orphans' \in SUBSET [batch : Seq(Envelope), account : Account]
      /\ store' \in Snapshot /\ Remembers(store', Logged(store'.log))
      /\ Logged(store.log) \subseteq Logged(store'.log)
  BY <1>1, <1>2, <1>5 DEF TypeOK, Recorded
<1> QED
  BY <1>2, <1>7, <1>8, <1>9, TravelKeeps

\* What still travels is taken or refused, and nobody hears of it.
LEMMA ServeOrphanKeeps ==
  ASSUME Inv, UNCHANGED scope, NEW o \in orphans, ServeOrphan(o)
  PROVE  Inv'
<1> DEFINE run == RunBatch(o.batch, o.account)
<1>1. TypeOK /\ Recorded
  BY DEF Inv
<1>2. /\ orphans' = orphans \ {o} /\ (store' = run.s \/ store' = store)
      /\ UNCHANGED <<access, rep, view, todo, flight, review, origin, kept, told, catalog>>
  BY DEF ServeOrphan
<1>3. /\ o.batch \in Seq(Envelope) /\ o.account \in Account
      /\ store \in Snapshot /\ Remembers(store, Logged(store.log))
  BY <1>1 DEF TypeOK, Recorded
<1>4. /\ run.s \in Snapshot /\ Remembers(run.s, Logged(run.s.log))
      /\ Logged(store.log) \subseteq Logged(run.s.log)
  BY <1>3, RunBatchIs
<1> HIDE DEF run
<1>5. /\ store' \in Snapshot /\ Remembers(store', Logged(store'.log))
      /\ Logged(store.log) \subseteq Logged(store'.log)
  BY <1>2, <1>3, <1>4
<1>6. /\ orphans' \in SUBSET [batch : Seq(Envelope), account : Account]
      /\ flight' \in [Tab -> Flight] /\ \A u \in Tab : flight'[u] = flight[u]
  BY <1>1, <1>2 DEF TypeOK
<1> QED
  BY <1>2, <1>5, <1>6, TravelKeeps

\* An answer that is taken in: nothing leaves the outbox but what the history
\* holds, and what stays is shown.
LEMMA EndFlightKeeps ==
  ASSUME Inv, UNCHANGED scope, NEW t \in Tab, NEW next \in Replica, EndFlight(t, next),
         From(next.outbox, rep[DeviceOf[t]].outbox),
         OutboxIds(rep[DeviceOf[t]].outbox) \subseteq OutboxIds(next.outbox) \cup Logged(store.log),
         \A i \in DOMAIN next.outbox : WasApplied(next.state, next.outbox[i].env.id),
         \/ next.auth = rep[DeviceOf[t]].auth
         \/ \E new \in May(DeviceOf[t]) : next.auth = Newer(rep[DeviceOf[t]].auth, new),
         next.auth.status = "deleted" => Shut(next.outbox)
  PROVE  Inv'
<1> DEFINE d == DeviceOf[t]
           q == IdleFlight(NoKnowledge)
<1>1. TypeOK /\ Recorded /\ NothingDropped /\ Named /\ QueueIsVisible /\ Informed
  BY DEF Inv
<1>2. /\ flight' = [flight EXCEPT ![t] = q] /\ rep' = [rep EXCEPT ![d] = next]
      /\ view' = [view EXCEPT ![t] = next]
      /\ told' = IF next.auth.status = "deleted" THEN told \cup {d} ELSE told
      /\ UNCHANGED <<store, access, todo, orphans, review, origin, kept, catalog>>
  BY DEF EndFlight
<1>3. d \in Device /\ rep[d] \in Replica
  BY <1>1, PartsAre
<1>4. q \in Flight /\ q.auth = NoKnowledge /\ q.known = NoKnowledge /\ q.receipts = << >>
  BY NothingIs DEF IdleFlight
<1> HIDE DEF q, d
<1>5. /\ flight' \in [Tab -> Flight] /\ \A u \in Tab : flight'[u] = IF u = t THEN q ELSE flight[u]
      /\ rep' \in [Device -> Replica] /\ \A c \in Device : rep'[c] = IF c = d THEN next ELSE rep[c]
      /\ view' \in [Tab -> Replica]
  BY <1>1, <1>2, <1>3, <1>4 DEF TypeOK
<1>6. TypeOK'
  <2>1. told' \subseteq Device
    BY <1>1, <1>2, <1>3 DEF TypeOK
  <2> QED
    BY <1>1, <1>2, <1>5, <2>1 DEF TypeOK, AccessTypeOK, access
<1>7. Recorded'
  <2>1. Acknowledges(<< >>, Logged(store.log))
    BY DEF Acknowledges
  <2> QED
    BY <1>1, <1>2, <1>4, <1>5, <2>1 DEF Recorded
<1>8. NothingDropped'
  <2>1. \A id : InLog(id) <=> id \in Logged(store.log)
    BY DEF InLog, Logged
  <2>2. \A c \in Device : \A e \in kept[c] :
          e \in OutboxIds(rep'[c].outbox) \/ InLog(e)
    BY <1>1, <1>5, <2>1 DEF NothingDropped, d
  <2> QED
    BY <1>2, <2>2 DEF NothingDropped, InLog
<1>9. Named'
  <2>1. SaneQueue(next.outbox, DOMAIN origin)
    BY <1>1, <1>3, FromKeeps DEF Named, d
  <2> QED
    BY <1>1, <1>2, <1>5, <2>1 DEF Named
<1>10. QueueIsVisible'
  BY <1>1, <1>5 DEF QueueIsVisible
<1>11. Informed'
  <2>1. NoKnowledge \in May(d)
    BY <1>1, <1>3, NewsIs, DeviceAssumption DEF May, TypeOK
  <2>2. \A u \in Tab : /\ flight'[u].auth \in May(DeviceOf[u])
                       /\ flight'[u].known \in May(DeviceOf[u])
                       /\ catalog'[u].auth \in May(DeviceOf[u])
                       /\ review'[u].auth \in May(DeviceOf[u])
    BY <1>2, <1>4, <1>5, <2>1, HeardBefore DEF d
  <2>3. \A c \in Device : /\ \/ rep'[c].auth = rep[c].auth
                             \/ \E new \in May(c) : rep'[c].auth = Newer(rep[c].auth, new)
                          /\ From(rep'[c].outbox, rep[c].outbox)
    BY <1>5, FromFrom DEF d
  <2>4. told \subseteq told' /\ told' \subseteq Device
    BY <1>2, <1>6 DEF TypeOK
  <2>5. \A c \in Device : rep'[c].auth.status = "deleted" => c \in told'
    BY <1>1, <1>2, <1>5 DEF Informed
  <2>6. \A c \in told' \ told : rep'[c].auth.status = "deleted" /\ Shut(rep'[c].outbox)
    BY <1>2, <1>3, <1>5
  <2>7. HearsOnly
    BY <1>2, <2>2, <2>3, <2>4, <2>5, <2>6 DEF HearsOnly
  <2> QED
    BY <1>1, <1>2, <2>7, HearsInformed DEF Informed
<1> QED
  BY <1>6, <1>7, <1>8, <1>9, <1>10, <1>11 DEF Inv

\* reconcileReplica under the access of the answer, in each of its cases.
LEMMA DeliverSuccessKeeps ==
  ASSUME Inv, UNCHANGED scope, NEW t \in Tab, DeliverSuccess(t)
  PROVE  Inv'
<1> DEFINE q == flight[t]
           d == DeviceOf[t]
           r == rep[d]
           left == Settle(r.outbox, q.batch, q.receipts)
           again == Replay(q.answer, left, Account1(t))
           settled == [r EXCEPT !.outbox = left]
           shown == [r EXCEPT !.outbox = left, !.state = again.s]
           next1 == WithAccess(r, q.auth)
           next2 == WithAccess(settled, q.auth)
           next3 == WithAccess(shown, q.auth)
<1>1. TypeOK /\ Recorded /\ QueueIsVisible /\ Informed
  BY DEF Inv
<1>2. /\ d \in Device /\ r \in Replica /\ q.auth \in LocalAccess /\ q.answer \in Snapshot
      /\ Account1(t) \in Account /\ r.outbox \in Seq(OutboxEntry) /\ r.state \in Snapshot
  BY <1>1, PartsAre, ReplicaIs
<1>3. q.auth \in May(d) /\ Acknowledges(q.receipts, Logged(store.log))
  BY <1>1, HeardBefore DEF Recorded
<1>4. \A i \in DOMAIN r.outbox : WasApplied(r.state, r.outbox[i].env.id)
  BY <1>1, <1>2 DEF QueueIsVisible
<1>5. \/ EndFlight(t, next1) \/ EndFlight(t, next2)
      \/ again.ok /\ EndFlight(t, next3)
      \/ EndFlight(t, r)
  BY DEF DeliverSuccess
<1>6. /\ left \in Seq(OutboxEntry) /\ From(left, r.outbox)
      /\ OutboxIds(r.outbox) \subseteq OutboxIds(left) \cup Logged(store.log)
  BY <1>2, <1>3, SettleIs
<1>7. /\ again.ok \in BOOLEAN /\ again.s \in Snapshot
      /\ again.ok => \A i \in DOMAIN left : WasApplied(again.s, left[i].env.id)
  <2> HIDE DEF left
  <2> QED
    BY <1>2, <1>6, ReplayIs
<1>8. /\ settled \in Replica /\ settled.outbox = left /\ settled.state = r.state /\ settled.auth = r.auth
  <2> HIDE DEF left, r
  <2> QED
    BY <1>2, <1>6 DEF Replica
<1>9. /\ shown \in Replica /\ shown.outbox = left /\ shown.state = again.s /\ shown.auth = r.auth
  <2> HIDE DEF left, r, again
  <2> QED
    BY <1>2, <1>6, <1>7 DEF Replica
<1> HIDE DEF left, again, settled, shown, r, next1, next2, next3
<1>10. \A i \in DOMAIN left : WasApplied(r.state, left[i].env.id)
  BY <1>4, <1>6, FromKeeps
<1>11. ASSUME NEW x \in Replica, From(x.outbox, r.outbox), x.auth = r.auth,
              OutboxIds(r.outbox) \subseteq OutboxIds(x.outbox) \cup Logged(store.log),
              \A i \in DOMAIN x.outbox : WasApplied(x.state, x.outbox[i].env.id),
              EndFlight(t, WithAccess(x, q.auth))
       PROVE  Inv'
  <2> DEFINE next == WithAccess(x, q.auth)
  <2>1. /\ next \in Replica /\ next.state = x.state /\ next.auth = Newer(r.auth, q.auth)
        /\ From(next.outbox, x.outbox) /\ Covers(next.outbox, x.outbox)
        /\ next.auth.status = "deleted" => Shut(next.outbox)
    BY <1>2, <1>11, WithIs
  <2>2. EndFlight(t, next)
    BY <1>11
  <2> HIDE DEF next
  <2>3. From(next.outbox, r.outbox)
    BY <1>11, <2>1, FromFrom
  <2>4. OutboxIds(r.outbox) \subseteq OutboxIds(next.outbox) \cup Logged(store.log)
    BY <1>11, <2>1, CoversKeeps
  <2>5. \A i \in DOMAIN next.outbox : WasApplied(next.state, next.outbox[i].env.id)
    BY <1>11, <2>1, FromKeeps
  <2> QED
    BY <1>3, <2>1, <2>2, <2>3, <2>4, <2>5, EndFlightKeeps DEF r
<1>12. CASE EndFlight(t, next1)
  BY <1>2, <1>4, <1>11, <1>12, FromFrom DEF next1
<1>13. CASE EndFlight(t, next2)
  BY <1>6, <1>8, <1>10, <1>11, <1>13 DEF next2
<1>14. CASE again.ok /\ EndFlight(t, next3)
  BY <1>6, <1>7, <1>9, <1>11, <1>14 DEF next3
<1>15. CASE EndFlight(t, r)
  <2>1. r.auth.status = "deleted" => Shut(r.outbox)
    BY <1>1, <1>2 DEF Informed, Closed, r
  <2> QED
    BY <1>2, <1>4, <1>15, <2>1, FromFrom, EndFlightKeeps DEF r
<1> QED
  BY <1>5, <1>12, <1>13, <1>14, <1>15

\* applyRefusedSyncResponse.
LEMMA DeliverRefusalKeeps ==
  ASSUME Inv, UNCHANGED scope, NEW t \in Tab, DeliverRefusal(t)
  PROVE  Inv'
<1> DEFINE q == flight[t]
           d == DeviceOf[t]
           r == rep[d]
           next == AfterRefusal(r, q.batch, q.auth)
<1>1. TypeOK /\ QueueIsVisible
  BY DEF Inv
<1>2. d \in Device /\ r \in Replica /\ q.auth \in LocalAccess /\ EndFlight(t, next)
  BY <1>1, PartsAre DEF DeliverRefusal
<1>3. q.auth \in May(d)
  BY HeardBefore
<1>4. \A i \in DOMAIN r.outbox : WasApplied(r.state, r.outbox[i].env.id)
  BY <1>1, <1>2 DEF QueueIsVisible
<1>5. /\ next \in Replica /\ next.state = r.state /\ next.auth = Newer(r.auth, q.auth)
      /\ From(next.outbox, r.outbox) /\ Covers(next.outbox, r.outbox)
      /\ next.auth.status = "deleted" => Shut(next.outbox)
  BY <1>2, RefusalIs
<1> HIDE DEF next
<1>6. OutboxIds(r.outbox) \subseteq OutboxIds(next.outbox) \cup Logged(store.log)
  BY <1>5, CoversKeeps
<1>7. \A i \in DOMAIN next.outbox : WasApplied(next.state, next.outbox[i].env.id)
  BY <1>4, <1>5, FromKeeps
<1> QED
  BY <1>2, <1>3, <1>5, <1>6, <1>7, EndFlightKeeps

-----------------------------------------------------------------------------
(* The catalog and recovery keep the invariant. *)

\* The server lists the workspace or does not.
LEMMA RefreshCatalogKeeps ==
  ASSUME Inv, UNCHANGED scope, NEW t \in Tab, RefreshCatalog(t)
  PROVE  Inv'
<1> DEFINE a == Account1(t)
           granted == Granted(AccessOf(a))
           absent == [NoKnowledge EXCEPT !.m = mrev[a]]
           page == IF CanRead(a) THEN [state |-> "listed", auth |-> granted]
                   ELSE [state |-> "absent", auth |-> absent]
<1>1. TypeOK /\ Recorded /\ NothingDropped /\ Named /\ QueueIsVisible /\ Informed
  BY DEF Inv
<1>2. /\ catalog' = [catalog EXCEPT ![t] = page]
      /\ UNCHANGED <<store, access, rep, view, todo, flight, orphans, review, origin, kept, told>>
  BY DEF RefreshCatalog
<1>3. a \in Account /\ a = AccountOf[DeviceOf[t]] /\ mrev[a] \in Nat
  BY <1>1, PartsAre DEF Account1, TypeOK, AccessTypeOK
<1>4. /\ CanRead(a) => granted \in News(a) /\ granted.status # "deleted"
      /\ absent \in News(a) /\ absent.status # "deleted"
  <2>1. CanRead(a) => granted \in News(a)
    BY <1>1, <1>3, NewsIs DEF TypeOK
  <2>2. granted.status # "deleted"
    BY DEF Granted
  <2>3. /\ absent \in LocalAccess /\ absent.m = mrev[a]
        /\ absent.status = "unknown" /\ ~absent.write
    BY <1>3, NothingIs DEF LocalAccess
  <2> HIDE DEF absent
  <2>4. absent \in News(a) /\ absent.status # "deleted"
    BY <1>3, <2>3 DEF News
  <2> QED
    BY <2>1, <2>2, <2>4
<1> HIDE DEF granted, absent
<1>5. page \in Page /\ page.auth \in May(DeviceOf[t]) /\ page.auth.status # "deleted"
  BY <1>3, <1>4 DEF Page, News, May
<1> HIDE DEF page, a
<1>6. catalog' \in [Tab -> Page] /\ \A u \in Tab : catalog'[u] = IF u = t THEN page ELSE catalog[u]
  BY <1>1, <1>2, <1>5 DEF TypeOK
<1>7. TypeOK'
  BY <1>1, <1>2, <1>6 DEF TypeOK, AccessTypeOK, access
<1>8. Informed'
  <2>1. \A u \in Tab : /\ flight'[u].auth \in May(DeviceOf[u])
                       /\ flight'[u].known \in May(DeviceOf[u])
                       /\ catalog'[u].auth \in May(DeviceOf[u])
                       /\ review'[u].auth \in May(DeviceOf[u])
    BY <1>2, <1>5, <1>6, HeardBefore
  <2>2. \A u \in Tab : /\ review'[u].open => /\ review'[u].rep.auth.write
                                             /\ review'[u].auth.status = "active"
                       /\ catalog'[u].auth.status # "deleted"
    BY <1>1, <1>2, <1>5, <1>6 DEF Informed
  <2> QED
    BY <1>1, <1>2, <2>1, <2>2, HearsStill
<1> QED
  BY <1>1, <1>2, <1>7, <1>8, Untouched DEF Inv

\* applyCatalogAuthorization.
LEMMA ApplyCatalogKeeps ==
  ASSUME Inv, UNCHANGED scope, NEW t \in Tab, ApplyCatalog(t)
  PROVE  Inv'
<1> DEFINE d == DeviceOf[t]
           page == catalog[t]
           known == rep[d].auth
           revoked == [known EXCEPT !.status = "revoked", !.role = "none",
                                    !.write = FALSE, !.m = page.auth.m]
           now == IF page.state = "listed" THEN page.auth ELSE revoked
           news == /\ page.state = "listed" \/ page.auth.m > known.m
                   /\ ShouldApply(known, now)
           next == IF news THEN WithAccess(rep[d], now) ELSE rep[d]
<1>1. TypeOK /\ Recorded /\ NothingDropped /\ Named /\ QueueIsVisible /\ Informed
  BY DEF Inv
<1>2. /\ rep' = [rep EXCEPT ![d] = next] /\ view' = [view EXCEPT ![t] = rep'[d]]
      /\ catalog' = [catalog EXCEPT ![t] = NoPage]
      /\ UNCHANGED <<store, access, todo, flight, orphans, review, origin, kept, told>>
  BY DEF ApplyCatalog
<1>3. /\ d \in Device /\ rep[d] \in Replica /\ known \in LocalAccess /\ page.auth \in LocalAccess
      /\ AccountOf[d] \in Account
  BY <1>1, PartsAre, ReplicaIs, DeviceAssumption
<1>4. now \in LocalAccess /\ now \in May(d) /\ now.status # "deleted"
  <2>1. page.auth \in May(d) /\ page.auth.status # "deleted"
    BY <1>1, HeardBefore DEF Informed
  <2>2. page.auth.m <= mrev[AccountOf[d]] /\ page.auth.m \in Nat
    BY <1>1, <1>3, <2>1, MayBound DEF LocalAccess
  <2>3. revoked \in LocalAccess /\ revoked.status = "revoked" /\ ~revoked.write /\ revoked.m = page.auth.m
    <3> HIDE DEF known, page
    <3> QED
      BY <1>3, <2>2 DEF LocalAccess, Statuses, Roles
  <2> HIDE DEF revoked
  <2>4. revoked \in May(d)
    BY <2>2, <2>3 DEF May, News
  <2> QED
    BY <1>3, <2>1, <2>3, <2>4
<1> HIDE DEF now, news
<1>5. /\ next \in Replica /\ next.state = rep[d].state
      /\ next.auth = known \/ next.auth = Newer(known, now)
      /\ From(next.outbox, rep[d].outbox) /\ Covers(next.outbox, rep[d].outbox)
  BY <1>3, <1>4, WithIs, FromFrom
<1> HIDE DEF next, d
<1>6. /\ rep' \in [Device -> Replica] /\ \A c \in Device : rep'[c] = IF c = d THEN next ELSE rep[c]
      /\ catalog' \in [Tab -> Page] /\ \A u \in Tab : catalog'[u] = IF u = t THEN NoPage ELSE catalog[u]
  BY <1>1, <1>2, <1>3, <1>5, NothingIs DEF TypeOK
<1>7. TypeOK'
  <2>1. view' \in [Tab -> Replica]
    BY <1>1, <1>2, <1>3, <1>6 DEF TypeOK
  <2> QED
    BY <1>1, <1>2, <1>6, <2>1 DEF TypeOK, AccessTypeOK, access
<1>8. NothingDropped'
  <2>1. \A c \in Device : OutboxIds(rep[c].outbox) \subseteq OutboxIds(rep'[c].outbox)
    BY <1>5, <1>6, CoversKeeps
  <2> QED
    BY <1>1, <1>2, <2>1 DEF NothingDropped, InLog
<1>9. Named'
  <2>1. SaneQueue(next.outbox, DOMAIN origin)
    BY <1>1, <1>3, <1>5, FromKeeps DEF Named
  <2> QED
    BY <1>1, <1>2, <1>6, <2>1 DEF Named
<1>10. QueueIsVisible'
  <2>1. \A i \in DOMAIN next.outbox : WasApplied(next.state, next.outbox[i].env.id)
    BY <1>1, <1>3, <1>5, FromKeeps DEF QueueIsVisible
  <2> QED
    BY <1>1, <1>6, <2>1 DEF QueueIsVisible
<1>11. Informed'
  <2>1. NoKnowledge \in May(d)
    BY <1>1, <1>3, NewsIs DEF May, TypeOK
  <2>2. \A u \in Tab : /\ flight'[u].auth \in May(DeviceOf[u])
                       /\ flight'[u].known \in May(DeviceOf[u])
                       /\ catalog'[u].auth \in May(DeviceOf[u])
                       /\ review'[u].auth \in May(DeviceOf[u])
    BY <1>2, <1>6, <2>1, HeardBefore, NothingIs DEF d
  <2>3. \A c \in Device : /\ \/ rep'[c].auth = rep[c].auth
                             \/ \E new \in May(c) : rep'[c].auth = Newer(rep[c].auth, new)
                          /\ From(rep'[c].outbox, rep[c].outbox)
    BY <1>4, <1>5, <1>6, FromFrom
  <2>4. told \subseteq told' /\ told' \subseteq Device /\ told' \ told = {}
    BY <1>1, <1>2 DEF TypeOK
  <2>5. \A c \in Device : rep'[c].auth.status = "deleted" => c \in told'
    <3>1. next.auth.status = "deleted" => known.status = "deleted"
      BY <1>4, <1>5 DEF Newer
    <3> QED
      BY <1>1, <1>2, <1>3, <1>6, <3>1 DEF Informed
  <2>6. HearsOnly
    BY <1>2, <2>2, <2>3, <2>4, <2>5 DEF HearsOnly
  <2>7. \A u \in Tab : /\ review'[u].open => /\ review'[u].rep.auth.write
                                             /\ review'[u].auth.status = "active"
                       /\ catalog'[u].auth.status # "deleted"
    BY <1>1, <1>2, <1>6, NothingIs DEF Informed
  <2> QED
    BY <1>1, <2>6, <2>7, HearsInformed
<1> QED
  BY <1>1, <1>2, <1>7, <1>8, <1>9, <1>10, <1>11, Untouched DEF Inv

\* Recovery reads the copy of the server, or is left.
LEMMA ReviewKeeps ==
  ASSUME Inv, UNCHANGED scope, NEW t \in Tab, OpenReview(t) \/ CloseReview(t)
  PROVE  Inv'
<1> DEFINE d == DeviceOf[t]
           a == AccountOf[d]
           granted == Granted(AccessOf(a))
           opened == [open |-> TRUE, server |-> store, rep |-> rep[d], auth |-> granted]
<1>1. TypeOK /\ Recorded /\ NothingDropped /\ Named /\ QueueIsVisible /\ Informed
  BY DEF Inv
<1>2. /\ \/ CanRead(a) /\ rep[d].auth.write /\ review' = [review EXCEPT ![t] = opened]
         \/ review' = [review EXCEPT ![t] = NoReview]
      /\ UNCHANGED <<store, access, rep, view, todo, flight, orphans, origin, kept, told, catalog>>
  BY DEF OpenReview, CloseReview, RecoverySnapshot, CanUseLocal
<1>3. d \in Device /\ a \in Account /\ rep[d] \in Replica /\ store \in Snapshot
  BY <1>1, PartsAre, DeviceAssumption DEF TypeOK
<1>4. CanRead(a) => granted \in LocalAccess /\ granted \in May(d) /\ granted.status = "active"
  <2>1. CanRead(a) => granted \in News(a)
    BY <1>1, <1>3, NewsIs DEF TypeOK
  <2>2. granted.status = "active"
    BY DEF Granted
  <2> QED
    BY <2>1, <2>2 DEF News, May
<1>5. NoKnowledge \in May(d)
  BY <1>1, <1>3, NewsIs DEF May, TypeOK
<1>6. PICK new \in Review :
        /\ review' = [review EXCEPT ![t] = new]
        /\ Remembers(new.server, Logged(store.log)) /\ SaneQueue(new.rep.outbox, DOMAIN origin)
        /\ new.auth \in May(d)
        /\ new.open => new.rep.auth.write /\ new.auth.status = "active"
  <2> HIDE DEF granted
  <2>1. CASE CanRead(a) /\ rep[d].auth.write /\ review' = [review EXCEPT ![t] = opened]
    <3>1. opened \in Review
      BY <1>3, <1>4, <2>1 DEF Review
    <3>2. Remembers(store, Logged(store.log)) /\ SaneQueue(rep[d].outbox, DOMAIN origin)
      BY <1>1, <1>3 DEF Recorded, Named
    <3>3. opened.server = store /\ opened.rep = rep[d] /\ opened.auth = granted
      OBVIOUS
    <3> HIDE DEF opened, a
    <3> QED
      BY <1>4, <2>1, <3>1, <3>2, <3>3
  <2>2. CASE review' = [review EXCEPT ![t] = NoReview]
    <3>1. Remembers(EmptySnapshot, Logged(store.log)) /\ SaneQueue(<< >>, DOMAIN origin)
      BY NothingIs DEF Remembers, SaneQueue
    <3> QED
      BY <1>5, <2>2, <3>1, NothingIs
  <2> QED
    BY <1>2, <2>1, <2>2
<1> HIDE DEF d
<1>7. review' \in [Tab -> Review] /\ \A u \in Tab : review'[u] = IF u = t THEN new ELSE review[u]
  BY <1>1, <1>6 DEF TypeOK
<1>8. TypeOK'
  BY <1>1, <1>2, <1>7 DEF TypeOK, AccessTypeOK, access
<1>9. Recorded'
  BY <1>1, <1>2, <1>6, <1>7 DEF Recorded
<1>10. Named'
  BY <1>1, <1>2, <1>6, <1>7 DEF Named
<1>11. Informed'
  <2>1. \A u \in Tab : /\ flight'[u].auth \in May(DeviceOf[u])
                       /\ flight'[u].known \in May(DeviceOf[u])
                       /\ catalog'[u].auth \in May(DeviceOf[u])
                       /\ review'[u].auth \in May(DeviceOf[u])
    BY <1>2, <1>6, <1>7, HeardBefore DEF d
  <2>2. \A u \in Tab : /\ review'[u].open => /\ review'[u].rep.auth.write
                                             /\ review'[u].auth.status = "active"
                       /\ catalog'[u].auth.status # "deleted"
    BY <1>1, <1>2, <1>6, <1>7 DEF Informed
  <2> QED
    BY <1>1, <1>2, <2>1, <2>2, HearsStill
<1> QED
  BY <1>1, <1>2, <1>8, <1>9, <1>10, <1>11, Untouched DEF Inv

\* Recovery puts a reviewed replica in the place of the one that was reviewed.
LEMMA ReplaceKeeps ==
  ASSUME Inv, UNCHANGED scope, NEW t \in Tab, StillAsReviewed(t), NEW next \in Replica,
         Replace(t, next), next.auth = review[t].auth,
         origin' \in UNION {[D -> Originals] : D \in SUBSET Edit},
         DOMAIN origin \subseteq DOMAIN origin', SaneQueue(next.outbox, DOMAIN origin'),
         \A i \in DOMAIN next.outbox : WasApplied(next.state, next.outbox[i].env.id),
         NEW K \in SUBSET Edit, kept' = [kept EXCEPT ![DeviceOf[t]] = K],
         \A e \in K : e \in OutboxIds(next.outbox) \/ InLog(e)
  PROVE  Inv'
<1> DEFINE d == DeviceOf[t]
<1>1. TypeOK /\ Recorded /\ NothingDropped /\ Named /\ QueueIsVisible /\ Informed
  BY DEF Inv
<1>2. /\ rep' = [rep EXCEPT ![d] = next] /\ view' = [view EXCEPT ![t] = next]
      /\ review' = [review EXCEPT ![t] = NoReview] /\ kept' = [kept EXCEPT ![d] = K]
      /\ UNCHANGED <<store, access, todo, flight, orphans, told, catalog>>
  BY DEF Replace
<1>3. /\ d \in Device /\ rep[d] = review[t].rep /\ review[t].open
      /\ rep[d].auth.write /\ next.auth.status = "active" /\ next.auth \in May(d)
  <2>1. d \in Device /\ rep[d] = review[t].rep /\ review[t].open
    BY <1>1, PartsAre DEF StillAsReviewed
  <2> QED
    BY <1>1, <2>1, HeardBefore DEF Informed
<1> HIDE DEF d
<1>4. /\ rep' \in [Device -> Replica] /\ \A c \in Device : rep'[c] = IF c = d THEN next ELSE rep[c]
      /\ review' \in [Tab -> Review] /\ \A u \in Tab : review'[u] = IF u = t THEN NoReview ELSE review[u]
      /\ view' \in [Tab -> Replica]
      /\ kept' \in [Device -> SUBSET Edit] /\ \A c \in Device : kept'[c] = IF c = d THEN K ELSE kept[c]
  BY <1>1, <1>2, <1>3, NothingIs DEF TypeOK
<1>5. TypeOK'
  BY <1>1, <1>2, <1>4 DEF TypeOK, AccessTypeOK, access
<1>6. Recorded'
  <2>1. Remembers(EmptySnapshot, Logged(store.log))
    BY NothingIs DEF Remembers
  <2> QED
    BY <1>1, <1>2, <1>4, <2>1, NothingIs DEF Recorded
<1>7. NothingDropped'
  BY <1>1, <1>2, <1>4 DEF NothingDropped, InLog
<1>8. Named'
  <2>1. SaneQueue(<< >>, DOMAIN origin')
    BY DEF SaneQueue
  <2>2. \A u \in Tab : /\ \A i \in DOMAIN todo[u] : /\ Sane(todo[u][i].env, DOMAIN origin')
                                                    /\ todo[u][i].env.id = todo[u][i].id
                       /\ SaneQueue(review[u].rep.outbox, DOMAIN origin')
    BY <1>1, SaneGrows DEF Named
  <2>3. \A c \in Device : SaneQueue(rep[c].outbox, DOMAIN origin')
    BY <1>1, SaneGrows DEF Named
  <2> QED
    BY <1>2, <1>4, <2>1, <2>2, <2>3, NothingIs DEF Named
<1>9. QueueIsVisible'
  BY <1>1, <1>4 DEF QueueIsVisible
<1>10. Informed'
  <2>1. NoKnowledge \in May(d)
    BY <1>1, <1>3, NewsIs, DeviceAssumption DEF May, TypeOK
  <2>2. \A u \in Tab : /\ flight'[u].auth \in May(DeviceOf[u])
                       /\ flight'[u].known \in May(DeviceOf[u])
                       /\ catalog'[u].auth \in May(DeviceOf[u])
                       /\ review'[u].auth \in May(DeviceOf[u])
    BY <1>2, <1>4, <2>1, HeardBefore, NothingIs DEF d
  <2>3. \A c \in Device : \/ c # d /\ rep'[c].auth = rep[c].auth /\ From(rep'[c].outbox, rep[c].outbox)
                          \/ c = d /\ rep[c].auth.write /\ rep'[c].auth \in May(c)
    BY <1>3, <1>4, FromFrom
  <2>4. told \subseteq told' /\ told' \subseteq Device /\ told' \ told = {}
    BY <1>1, <1>2 DEF TypeOK
  <2>5. \A c \in Device : rep'[c].auth.status = "deleted" => c \in told'
    BY <1>1, <1>2, <1>3, <1>4 DEF Informed
  <2>6. HearsOnly
    BY <1>2, <2>2, <2>3, <2>4, <2>5 DEF HearsOnly
  <2>7. \A u \in Tab : /\ review'[u].open => /\ review'[u].rep.auth.write
                                             /\ review'[u].auth.status = "active"
                       /\ catalog'[u].auth.status # "deleted"
    BY <1>1, <1>2, <1>4, NothingIs DEF Informed
  <2> QED
    BY <1>1, <2>6, <2>7, HearsInformed
<1> QED
  BY <1>5, <1>6, <1>7, <1>8, <1>9, <1>10 DEF Inv

\* resetToServer: the queue that was reviewed is given up.
LEMMA ResetKeeps ==
  ASSUME Inv, UNCHANGED scope, NEW t \in Tab, Reset(t)
  PROVE  Inv'
<1> DEFINE d == DeviceOf[t]
           next == [state |-> review[t].server, outbox |-> << >>, auth |-> review[t].auth]
           K == kept[d] \ OutboxIds(review[t].rep.outbox)
<1>1. TypeOK /\ NothingDropped
  BY DEF Inv
<1>2. /\ StillAsReviewed(t) /\ Replace(t, next) /\ origin' = origin
      /\ kept' = [kept EXCEPT ![d] = K]
  BY DEF Reset
<1>3. /\ next \in Replica /\ next.auth = review[t].auth /\ next.outbox = << >>
  BY <1>1, PartsAre DEF Replica
<1>4. d \in Device /\ rep[d] = review[t].rep
  BY <1>1, <1>2, PartsAre DEF StillAsReviewed
<1> HIDE DEF next
<1>5. K \in SUBSET Edit /\ \A e \in K : InLog(e)
  BY <1>1, <1>4 DEF TypeOK, NothingDropped
<1>6. SaneQueue(<< >>, DOMAIN origin')
  BY DEF SaneQueue
<1>7. origin' \in UNION {[D -> Originals] : D \in SUBSET Edit} /\ DOMAIN origin \subseteq DOMAIN origin'
  BY <1>1, <1>2 DEF TypeOK
<1>8. \A i \in DOMAIN next.outbox : FALSE
  BY <1>3
<1> HIDE DEF K
<1> QED
  BY <1>2, <1>3, <1>5, <1>6, <1>7, <1>8, ReplaceKeeps

\* reapply and saveReviewedChoices: what is not yet in the history is queued again.
LEMMA RecoverKeeps ==
  ASSUME Inv, UNCHANGED scope, NEW t \in Tab, NEW decided, Recover(t, decided)
  PROVE  Inv'
<1> DEFINE d == DeviceOf[t]
           old == review[t].rep.outbox
           open == Unapplied(review[t].server, old)
<1>1. TypeOK /\ Recorded /\ NothingDropped /\ Named
  BY DEF Inv
<1>2. /\ review[t].server \in Snapshot /\ review[t].auth \in LocalAccess
      /\ old \in Seq(OutboxEntry) /\ Account1(t) \in Account
  BY <1>1, PartsAre, ReplicaIs
<1>3. StillAsReviewed(t)
  BY DEF Recover
<1>4. d \in Device /\ rep[d].outbox = old
  BY <1>1, <1>3, PartsAre DEF StillAsReviewed
<1>5. /\ open \in Seq(OutboxEntry) /\ From(open, old)
      /\ \A id \in OutboxIds(old) : id \in OutboxIds(open) \/ WasApplied(review[t].server, id)
  BY <1>2, UnappliedIs
<1>6. PICK fresh \in [1..Len(open) -> Copies \ DOMAIN origin] :
        LET result == Remade(review[t], open, fresh, Account1(t), decided)
            Source(id) == origin[open[CHOOSE i \in 1..Len(open) : fresh[i] = id].env.id]
        IN /\ Replace(t, [state |-> result.s, outbox |-> result.outbox, auth |-> review[t].auth])
           /\ origin' = [x \in DOMAIN origin \cup OutboxIds(result.outbox) |->
                           IF x \in DOMAIN origin THEN origin[x] ELSE Source(x)]
           /\ kept' = [kept EXCEPT ![d] = (@ \ OutboxIds(open)) \cup OutboxIds(result.outbox)]
  BY DEF Recover
<1> DEFINE result == Remade(review[t], open, fresh, Account1(t), decided)
           Source(id) == origin[open[CHOOSE i \in 1..Len(open) : fresh[i] = id].env.id]
           next == [state |-> result.s, outbox |-> result.outbox, auth |-> review[t].auth]
           K == (kept[d] \ OutboxIds(open)) \cup OutboxIds(result.outbox)
           ids == {fresh[n] : n \in 1..Len(open)}
<1> HIDE DEF open
<1>7. SaneQueue(open, DOMAIN origin)
  BY <1>1, <1>5, FromKeeps DEF Named
<1>8. fresh \in [1..Len(open) -> Edit]
  BY DeviceAssumption
<1>9. /\ result.s \in Snapshot /\ result.outbox \in Seq(OutboxEntry) /\ SaneQueue(result.outbox, ids)
      /\ \A i \in DOMAIN result.outbox : WasApplied(result.s, result.outbox[i].env.id)
  <2>1. \A i \in DOMAIN open : DOMAIN open[i].env.sets # {}
    BY <1>7 DEF SaneQueue, Sane
  <2> QED
    BY <1>2, <1>5, <1>8, <2>1, RemadeIs
<1>10. /\ Replace(t, next) /\ kept' = [kept EXCEPT ![d] = K]
       /\ origin' = [x \in DOMAIN origin \cup OutboxIds(result.outbox) |->
                       IF x \in DOMAIN origin THEN origin[x] ELSE Source(x)]
  BY <1>6
<1> HIDE DEF result
<1>11. /\ next \in Replica /\ next.auth = review[t].auth /\ next.outbox = result.outbox
       /\ next.state = result.s
  BY <1>2, <1>9 DEF Replica
<1>12. OutboxIds(result.outbox) \subseteq ids /\ ids \subseteq Edit
  BY <1>8, <1>9 DEF SaneQueue, Sane, OutboxIds
<1>13. /\ origin' \in UNION {[D -> Originals] : D \in SUBSET Edit}
       /\ DOMAIN origin' = DOMAIN origin \cup OutboxIds(result.outbox)
  <2>1. PICK D \in SUBSET Edit : origin \in [D -> Originals]
    BY <1>1 DEF TypeOK
  <2>2. \A x \in OutboxIds(result.outbox) : Source(x) \in Originals
    <3>1. ASSUME NEW x \in OutboxIds(result.outbox)
          PROVE  Source(x) \in Originals
      <4> DEFINE i == CHOOSE i \in 1..Len(open) : fresh[i] = x
      <4>1. i \in 1..Len(open)
        BY <1>12
      <4> HIDE DEF i
      <4>2. Len(open) \in Nat /\ DOMAIN open = 1..Len(open)
        BY <1>5
      <4>3. open[i].env.id \in DOMAIN origin
        BY <1>7, <4>1, <4>2 DEF SaneQueue, Sane
      <4>4. origin[open[i].env.id] \in Originals
        BY <2>1, <4>3
      <4> QED
        BY <4>4 DEF i
    <3> QED
      BY <3>1
  <2> HIDE DEF Source
  <2>3. origin' \in [D \cup OutboxIds(result.outbox) -> Originals]
    BY <1>10, <2>1, <2>2
  <2>4. D \cup OutboxIds(result.outbox) \in SUBSET Edit
    BY <1>12
  <2> QED
    BY <1>10, <2>3, <2>4
<1>14. SaneQueue(next.outbox, DOMAIN origin')
  <2> HIDE DEF next
  <2> QED
    BY <1>9, <1>11, <1>13 DEF SaneQueue, Sane, OutboxIds
<1>15. K \in SUBSET Edit /\ \A e \in K : e \in OutboxIds(next.outbox) \/ InLog(e)
  <2> HIDE DEF next
  <2>1. \A id : WasApplied(review[t].server, id) => InLog(id)
    <3>1. Remembers(review[t].server, Logged(store.log))
      BY <1>1 DEF Recorded
    <3>2. \A id : WasApplied(review[t].server, id) => id \in Logged(store.log)
      BY <3>1 DEF Remembers, WasApplied
    <3>3. \A id : id \in Logged(store.log) => InLog(id)
      BY DEF Logged, InLog
    <3> QED
      BY <3>2, <3>3
  <2>2. \A e \in kept[d] : e \in OutboxIds(old) \/ InLog(e)
    BY <1>1, <1>4 DEF NothingDropped
  <2>3. kept[d] \in SUBSET Edit
    BY <1>1, <1>4 DEF TypeOK
  <2> QED
    BY <1>5, <1>11, <1>12, <2>1, <2>2, <2>3
<1>16. \A i \in DOMAIN next.outbox : WasApplied(next.state, next.outbox[i].env.id)
  <2> HIDE DEF next
  <2> QED
    BY <1>9, <1>11
<1> HIDE DEF next, K
<1> QED
  BY <1>3, <1>10, <1>11, <1>13, <1>14, <1>15, <1>16, ReplaceKeeps DEF d

-----------------------------------------------------------------------------
(* Access changes keep the invariant. *)

\* The rows change; the devices have yet to hear of it.
LEMMA ChangeAccessKeeps ==
  ASSUME Inv, UNCHANGED scope, ChangeAccess, UNCHANGED <<store, client>>
  PROVE  Inv'
<1>1. TypeOK /\ Recorded /\ NothingDropped /\ Named /\ QueueIsVisible /\ Informed
  BY DEF Inv
<1>2. UNCHANGED <<store, rep, view, todo, flight, orphans, catalog, review, origin, kept, told>>
  BY DEF client
<1>3. /\ AccessTypeOK'
      /\ deleted => deleted'
      /\ (deleted => \A a \in Account : role[a] = "none")'
      /\ \A a \in Account : /\ mrev[a] <= mrev'[a]
                            /\ mrev'[a] = mrev[a] /\ role[a] # "none" => role'[a] # "none"
  BY <1>1, RowsMove DEF TypeOK, Informed
<1>4. TypeOK'
  BY <1>1, <1>2, <1>3 DEF TypeOK
<1>5. \A c : Heard(c)' = Heard(c)
  BY <1>2 DEF Heard, HeardIn
<1>6. ASSUME NEW d \in Device
      PROVE  MayHear(Heard(d), mrev'[AccountOf[d]], role'[AccountOf[d]], deleted')
  <2> DEFINE a == AccountOf[d]
  <2>1. a \in Account /\ mrev[a] \in Nat /\ mrev'[a] \in Nat
    BY <1>1, <1>3, DeviceAssumption DEF TypeOK, AccessTypeOK
  <2>2. MayHear(Heard(d), mrev[a], role[a], deleted)
    BY <1>1 DEF Informed
  <2>3. \A acc \in Heard(d) : acc.m \in Nat
    BY <1>1, HeardTypes
  <2> HIDE DEF a
  <2>4. ASSUME NEW acc \in Heard(d)
        PROVE  /\ acc.m <= mrev'[a]
               /\ (acc.status = "active" /\ acc.m = mrev'[a]) => role'[a] # "none"
    <3>1. acc.m <= mrev[a] /\ mrev[a] <= mrev'[a] /\ acc.m \in Nat
      BY <1>3, <2>1, <2>2, <2>3 DEF MayHear
    <3>2. acc.m = mrev'[a] => mrev'[a] = mrev[a] /\ acc.m = mrev[a]
      BY <2>1, <3>1
    <3> QED
      BY <1>3, <2>1, <2>2, <3>1, <3>2 DEF MayHear
  <2>5. MayHear(Heard(d), mrev'[a], role'[a], deleted')
    BY <1>3, <2>2, <2>4 DEF MayHear
  <2> QED
    BY <2>5 DEF a
<1>7. \A d \in Device :
        /\ MayHear(Heard(d), mrev[AccountOf[d]], role[AccountOf[d]], deleted)'
        /\ rep'[d].auth.status = "deleted" => d \in told'
  <2>1. \A d \in Device : MayHear(Heard(d)', mrev'[AccountOf[d]], role'[AccountOf[d]], deleted')
    BY <1>5, <1>6
  <2> QED
    BY <1>1, <1>2, <2>1 DEF Informed, MayHear
<1>8. \A d \in told' : Closed(d)'
  BY <1>1, <1>2, <1>3, <1>5 DEF Informed, Closed
<1>9. Informed'
  BY <1>1, <1>2, <1>3, <1>7, <1>8 DEF Informed
<1> QED
  BY <1>1, <1>2, <1>4, <1>9, Untouched DEF Inv

-----------------------------------------------------------------------------
(* All steps together. *)

\* Every step keeps the invariant.
LEMMA NextKeeps ==
  ASSUME Inv, [Next]_vars
  PROVE  Inv'
<1>1. CASE UNCHANGED vars
  <2>1. UNCHANGED <<store, access, scope>> /\ UNCHANGED <<rep, view, todo, flight, orphans, catalog, review, origin, kept, told>>
    BY <1>1 DEF vars, moving, client
  <2>2. TypeOK'
    BY <2>1 DEF Inv, TypeOK, AccessTypeOK, access
  <2> QED
    BY <2>1, <2>2, Untouched DEF Inv
<1>2. CASE Next
  <2>1. UNCHANGED scope
    BY <1>2 DEF Next
  <2>2. \A t \in scope.tabs : t \in Tab
    BY DeviceAssumption DEF Inv, TypeOK, Scope
  <2>3. \A e \in scope.edits : e \in Originals
    BY DeviceAssumption DEF Inv, TypeOK, Scope
  <2>4. ASSUME NEW t \in scope.tabs, NEW e \in scope.edits, Dispatch(t, e)
        PROVE  Inv'
    BY <2>1, <2>2, <2>3, <2>4, DispatchKeeps
  <2>5. ASSUME NEW t \in scope.tabs, Store(t)
        PROVE  Inv'
    BY <2>1, <2>2, <2>5, StoreKeeps
  <2>6. ASSUME NEW t \in scope.tabs, Refresh(t) \/ Reload(t)
        PROVE  Inv'
    BY <2>1, <2>2, <2>6, RefreshKeeps
  <2>7. ASSUME NEW t \in scope.tabs, Exchange(t)
        PROVE  Inv'
    BY <2>1, <2>2, <2>7, FlushKeeps, ServeKeeps, RespondKeeps, DeliverSuccessKeeps,
       DeliverRefusalKeeps DEF Exchange, Deliver
  <2>8. ASSUME NEW t \in scope.tabs, GiveUp(t)
        PROVE  Inv'
    BY <2>1, <2>2, <2>8, GiveUpKeeps
  <2>9. ASSUME NEW t \in scope.tabs, RefreshCatalog(t) \/ ApplyCatalog(t)
        PROVE  Inv'
    BY <2>1, <2>2, <2>9, RefreshCatalogKeeps, ApplyCatalogKeeps
  <2>10. ASSUME NEW t \in scope.tabs, OpenReview(t) \/ CloseReview(t)
         PROVE  Inv'
    BY <2>1, <2>2, <2>10, ReviewKeeps
  <2>11. ASSUME NEW t \in scope.tabs, Reset(t)
         PROVE  Inv'
    BY <2>1, <2>2, <2>11, ResetKeeps
  <2>12. ASSUME NEW t \in scope.tabs, Reapply(t) \/ SaveReview(t)
         PROVE  Inv'
    <3>1. \E decided : Recover(t, decided)
      BY <2>12 DEF Reapply, SaveReview
    <3> QED
      BY <2>1, <2>2, <3>1, RecoverKeeps
  <2>13. ASSUME NEW o \in orphans, ServeOrphan(o)
         PROVE  Inv'
    BY <2>1, <2>13, ServeOrphanKeeps
  <2>14. ASSUME ChangeAccess, UNCHANGED <<store, client>>
         PROVE  Inv'
    BY <2>1, <2>14, ChangeAccessKeeps
  <2> QED
    BY <1>2, <2>4, <2>5, <2>6, <2>7, <2>8, <2>9, <2>10, <2>11, <2>12, <2>13, <2>14 DEF Next
<1> QED
  BY <1>1, <1>2

\* It holds at first.
LEMMA InitHolds ==
  ASSUME Init
  PROVE  Inv
<1> DEFINE fresh(d) == [state |-> EmptySnapshot, outbox |-> << >>, auth |-> FirstAccess(d)]
           q == IdleFlight(NoKnowledge)
<1>1. /\ AccessInit /\ store = EmptySnapshot
      /\ rep = [d \in Device |-> fresh(d)] /\ view = [t \in Tab |-> fresh(DeviceOf[t])]
      /\ todo = [t \in Tab |-> << >>] /\ flight = [t \in Tab |-> q]
      /\ orphans = {} /\ catalog = [t \in Tab |-> NoPage] /\ origin = << >>
      /\ review = [t \in Tab |-> NoReview] /\ kept = [d \in Device |-> {}]
      /\ told = {} /\ scope \in Scopes
  BY DEF Init
<1>2. AccessTypeOK /\ ~deleted /\ \A a \in Account : mrev[a] = 0 /\ role[a] = InitialRole[a]
  BY <1>1, AccessAssumption DEF AccessInit, AccessTypeOK
<1>3. ASSUME NEW d \in Device
      PROVE  /\ FirstAccess(d) \in LocalAccess /\ FirstAccess(d).status = "active"
             /\ FirstAccess(d) \in News(AccountOf[d])
  <2>1. AccountOf[d] \in Account /\ InitialRole[AccountOf[d]] # "none"
    BY DeviceAssumption
  <2>2. CanRead(AccountOf[d])
    BY <1>1, <1>2, <2>1 DEF CanRead, AccessInit
  <2>3. FirstAccess(d) \in News(AccountOf[d])
    BY <1>2, <2>1, <2>2, NewsIs DEF FirstAccess
  <2>4. FirstAccess(d).status = "active"
    BY DEF FirstAccess, Granted
  <2> QED
    BY <2>3, <2>4 DEF News
<1>4. \A d \in Device : /\ fresh(d) \in Replica /\ fresh(d).outbox = << >>
                        /\ fresh(d).auth = FirstAccess(d)
  BY <1>3, NothingIs DEF Replica
<1>5. /\ q \in Flight /\ q.auth = NoKnowledge /\ q.known = NoKnowledge /\ q.receipts = << >>
  BY NothingIs DEF IdleFlight
<1>6. \A t \in Tab : DeviceOf[t] \in Device
  BY DeviceAssumption
<1> HIDE DEF fresh, q
<1>7. TypeOK
  <2>1. rep \in [Device -> Replica] /\ view \in [Tab -> Replica]
    BY <1>1, <1>4, <1>6
  <2>2. origin \in UNION {[D -> Originals] : D \in SUBSET Edit}
    <3>1. << >> \in [{} -> Originals]
      OBVIOUS
    <3> QED
      BY <1>1, <3>1
  <2>3. todo \in [Tab -> Seq(Intent)]
    BY <1>1
  <2>4. /\ flight \in [Tab -> Flight] /\ catalog \in [Tab -> Page] /\ review \in [Tab -> Review]
        /\ store \in Snapshot
    BY <1>1, <1>5, NothingIs
  <2>5. kept \in [Device -> SUBSET Edit]
    BY <1>1
  <2> QED
    BY <1>1, <1>2, <2>1, <2>2, <2>3, <2>4, <2>5 DEF TypeOK
<1>8. Recorded
  <2>1. /\ Acknowledges(<< >>, Logged(store.log)) /\ Remembers(EmptySnapshot, Logged(store.log))
    BY NothingIs DEF Acknowledges, Remembers
  <2> QED
    BY <1>1, <1>5, <2>1, NothingIs DEF Recorded
<1>9. NothingDropped
  BY <1>1 DEF NothingDropped
<1>10. Named
  <2>1. SaneQueue(<< >>, DOMAIN origin) /\ \A t \in Tab : DOMAIN todo[t] = {}
    BY <1>1 DEF SaneQueue
  <2> QED
    BY <1>1, <1>4, <2>1, NothingIs DEF Named
<1>11. QueueIsVisible
  BY <1>1, <1>4 DEF QueueIsVisible
<1>12. Informed
  <2>1. ASSUME NEW d \in Device
        PROVE  /\ MayHear(Heard(d), mrev[AccountOf[d]], role[AccountOf[d]], deleted)
               /\ rep[d].auth.status = "active"
    <3>1. AccountOf[d] \in Account
      BY DeviceAssumption
    <3>2. NoKnowledge \in News(AccountOf[d])
      BY <1>2, <3>1, NewsIs
    <3>3. rep[d].auth = FirstAccess(d)
      BY <1>1, <1>4
    <3>4. \A t \in Tab : /\ flight[t].auth = NoKnowledge /\ flight[t].known = NoKnowledge
                         /\ catalog[t].auth = NoKnowledge /\ review[t].auth = NoKnowledge
      BY <1>1, <1>5, NothingIs
    <3>5. Heard(d) \subseteq News(AccountOf[d])
      BY <1>3, <3>2, <3>3, <3>4, HeardIs
    <3>6. MayHear(News(AccountOf[d]), mrev[AccountOf[d]], role[AccountOf[d]], deleted)
      BY <1>2 DEF MayHear, News
    <3> QED
      BY <1>3, <3>3, <3>5, <3>6 DEF MayHear
  <2>2. \A t \in Tab : ~review[t].open /\ catalog[t].auth.status # "deleted"
    BY <1>1, NothingIs
  <2> QED
    BY <1>1, <1>2, <2>1, <2>2 DEF Informed
<1> QED
  BY <1>7, <1>8, <1>9, <1>10, <1>11, <1>12 DEF Inv

\* The inductive invariant of the devices holds throughout, whatever requests and
\* answers are lost, late or duplicated (dispatch, flushWorkspace, reconcileReplica,
\* applyCatalogAuthorization and the recovery page).
THEOREM DeviceInvariant == Spec => []Inv
<1>1. Init => Inv
  BY InitHolds
<1>2. Inv /\ [Next]_vars => Inv'
  BY NextKeeps
<1> QED
  BY <1>1, <1>2, PTL DEF Spec

\* Every variable of the devices stays what it is declared to be.
THEOREM DeviceTypes == Spec => []TypeOK
<1>1. Inv => TypeOK
  BY DEF Inv
<1> QED
  BY <1>1, DeviceInvariant, PTL

\* An edit that dispatch accepted is in the outbox of its device or in the server's
\* history until the user gives it up: what reconcileReplica removes was received.
THEOREM NothingIsDropped == Spec => []NothingDropped
<1>1. Inv => NothingDropped
  BY DEF Inv
<1> QED
  BY <1>1, DeviceInvariant, PTL

\* Every command in an outbox, blocked ones included, is applied in the state
\* that reconcileReplica and recovery leave the device with.
THEOREM QueueStaysVisible == Spec => []QueueIsVisible
<1>1. Inv => QueueIsVisible
  BY DEF Inv
<1> QED
  BY <1>1, DeviceInvariant, PTL

\* A device told of the deletion stays read-only with nothing left to send: no
\* catalog page, sync answer or review still under way passes for a newer grant
\* in shouldApplyWorkspaceAccess.
THEOREM DeletionStaysFinal == Spec => []DeletionIsFinal
<1>1. Inv => DeletionIsFinal
  <2> SUFFICES ASSUME Inv, NEW d \in told
               PROVE  /\ ~rep[d].auth.write /\ rep[d].auth.status # "active"
                      /\ Pending(rep[d].outbox) = << >>
    BY DEF DeletionIsFinal
  <2>1. d \in Device /\ rep[d] \in Replica /\ TypeOK /\ Informed
    BY DEF Inv, TypeOK
  <2>2. rep[d].auth.status # "active" /\ Shut(rep[d].outbox)
    BY <2>1 DEF Informed, Closed
  <2>3. ~rep[d].auth.write
    BY <2>1, <2>2, HeardIs DEF Informed, MayHear
  <2>4. Pending(rep[d].outbox) = << >>
    BY <2>1, <2>2, ReplicaIs, PendingIs
  <2> QED
    BY <2>2, <2>3, <2>4
<1> QED
  BY <1>1, DeviceInvariant, PTL
=============================================================================
