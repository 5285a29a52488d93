---------------------------- MODULE UsageLimits ----------------------------
(***************************************************************************)
(* Budgets for what accounts create, and circuits that pause it.  A        *)
(* handler first asks for a refusal, with the time it began (at); what     *)
(* decides are the triggers of the schema, in the batch, for a row created *)
(* at that time.                                                           *)
(***************************************************************************)
EXTENDS AccountStore, FiniteSetsExt

CONSTANTS
  DayTicks, WindowTicks,  \* a day, and the 30 days of the rolling budgets
  Grace,          \* an hour: older rows are copies, which no budget counts
  DayLimit, WindowLimit,  \* per account, of workspaces, links and sessions
  LifetimeLimit,  \* workspacesCreatedPerAccountLifetime
  ByteLimit,      \* aggregateSnapshotBytesPerAccount
  SessionLimit,   \* activeSessionsPerAccount
  TerminalLimit,  \* terminalSessionsPerAccount
  SessionTicks,   \* how long a session lasts
  FirstPause, NextPause   \* of a circuit, for security

ASSUME LimitsAssumption ==
  /\ {DayTicks, WindowTicks, SessionLimit, SessionTicks, FirstPause, NextPause}
       \subseteq Nat \ {0}
  /\ {Grace, LifetimeLimit, ByteLimit, TerminalLimit} \subseteq Nat
  /\ Grace <= DayTicks /\ DayTicks <= WindowTicks
  /\ {DayLimit, WindowLimit}
       \subseteq [{"workspace", "link", "session"} -> Nat \ {0}]

-----------------------------------------------------------------------------
(* What the refusals and the triggers count. *)

DayOf(t) == t \div DayTicks

\* The rows of what u created: when the n-th was, and which are kept.
TimeOf(d, what, u, n) == d.ledger[what][u].at[n]

Created(d, what, u) == d.ledger[what][u].kept

CreatedThatDay(d, what, u, at) ==
  {n \in Created(d, what, u) : DayOf(TimeOf(d, what, u, n)) = DayOf(at)}

CreatedSince(d, what, u, at) ==
  {n \in Created(d, what, u) : TimeOf(d, what, u, n) > at - WindowTicks}

CircuitOpen(d, c, at) ==
  d.circuit[c].paused => \E t \in d.circuit[c].resume : t <= at

\* The bytes of the snapshots of W, one by one.
BytesOf(d, W) == Cardinality(UNION {{w} \X (1..d.bytes[w]) : w \in W})

Stored(d, u) == BytesOf(d, CustodyOf(d, u))

Fresh(d, at) == at >= d.clock - Grace

\* Mutation of WithinBudget: the window alone is counted.
WithinWindowBudget(d, what, u, at) ==
  Cardinality(CreatedSince(d, what, u, at)) < WindowLimit[what]

WithinBudget(d, what, u, at) ==
  /\ Cardinality(CreatedThatDay(d, what, u, at)) < DayLimit[what]
  /\ Cardinality(CreatedSince(d, what, u, at)) < WindowLimit[what]

(* users_public_creation_guard, accountCreationRefusal *)

AccountAllowed(d, at) ==
  Fresh(d, at) =>
    /\ CircuitOpen(d, "new accounts", at)
    /\ Cardinality(CreatedThatDay(d, "account", Nobody, at)) < d.accountsPerDay

(* sessions_public_issuance_guard, sessionIssuanceRefusal *)

SessionAllowed(d, u, at) ==
  Fresh(d, at) => Active(d, u) /\ WithinBudget(d, "session", u, at)

(* guest_links_public_creation_guard, guestLinkCreationRefusal *)

LinkAllowed(d, u, at) ==
  Fresh(d, at) =>
    /\ CircuitOpen(d, "guest links", at)
    /\ Active(d, u)
    /\ WithinBudget(d, "link", u, at)

(* guest_links_public_redemption_guard, guestRedemptionRefusal *)

RedemptionAllowed(d, at) == CircuitOpen(d, "guest redemptions", at)

(* workspace_custody_insert_guard, workspaceAllocationRefusal *)

AllocationAllowed(d, u, bytes, at) ==
  /\ CircuitOpen(d, "new workspaces", at)
  /\ Active(d, u)
  /\ Cardinality(CustodyOf(d, u)) < OwnerLimit
  /\ Stored(d, u) + bytes <= ByteLimit
  /\ WithinBudget(d, "workspace", u, at)
  /\ Cardinality(Created(d, "workspace", u)) < LifetimeLimit

\* Mutation of GrowthAllowed: the workspace alone is counted.
GrowthAllowedAlone(d, w, bytes, at) ==
  bytes > d.bytes[w] =>
    CircuitOpen(d, "snapshot growth", at) /\ bytes <= ByteLimit

(* workspace_snapshots_growth_guard, workspace_snapshots_account_storage_   *)
(* guard, snapshotGrowthRefusal: a snapshot may always shrink.              *)

GrowthAllowed(d, w, bytes, at) ==
  bytes > d.bytes[w] =>
    /\ CircuitOpen(d, "snapshot growth", at)
    /\ Stored(d, d.custodian[w]) - d.bytes[w] + bytes <= ByteLimit

-----------------------------------------------------------------------------
(* How long a refused allocation has to wait: the longest of the budgets    *)
(* that refuse it now (workspaceAllocationRefusal, retryAfterSeconds).      *)

DayWait(d, u, at) ==
  IF Cardinality(CreatedThatDay(d, "workspace", u, at)) >= DayLimit["workspace"]
  THEN {(DayOf(at) + 1) * DayTicks - at} ELSE {}

\* The creation that has to leave the window is the oldest, or a later one when
\* there are more than the limit: those after it are fewer than the limit, and
\* with it they are not.
LastToLeave(d, u, recent) ==
  LET time(n) == TimeOf(d, "workspace", u, n) IN
  {n \in recent :
     /\ Cardinality({k \in recent : time(k) > time(n)}) < WindowLimit["workspace"]
     /\ Cardinality({k \in recent : time(k) >= time(n)}) >= WindowLimit["workspace"]}

RollingWait(d, u, at) ==
  {TimeOf(d, "workspace", u, n) + WindowTicks - at :
     n \in LastToLeave(d, u, CreatedSince(d, "workspace", u, at))}

\* Mutation of RetryAfter: the shortest wait.
RetryAfterShortest(d, u, at) ==
  LET waits == DayWait(d, u, at) \cup RollingWait(d, u, at)
  IN IF waits = {} THEN 0 ELSE Min(waits)

RetryAfter(d, u, at) ==
  LET waits == DayWait(d, u, at) \cup RollingWait(d, u, at)
  IN IF waits = {} THEN 0 ELSE Max(waits)

-----------------------------------------------------------------------------
(* What the rows leave behind. *)

\* The ledger forgets sessions and links a day after no budget counts them.
WithCreation(d, what, u, at) ==
  LET times == Append(d.ledger[what][u].at, at)
      rows == Created(d, what, u) \cup {Len(times)}
  IN [d EXCEPT !.ledger[what][u] =
        [at |-> times,
         kept |-> {n \in rows : what \in {"session", "link"} =>
                                  times[n] > at - WindowTicks - DayTicks}]]

Times(d, column) == [x \in Session |-> d.session[x][column]]

\* The latest n of the sessions X by their time, or all of them.
Latest(X, n, time) ==
  CHOOSE K \in SUBSET X :
    /\ Cardinality(K) = Min({n, Cardinality(X)})
    /\ \A x \in K, y \in X \ K : time[x] >= time[y]

TerminalOf(d, u, at) == {x \in SessionsOf(d, u) : Ended(d, x, at)}

WithoutSessions(d, X) ==
  [d EXCEPT !.session = [x \in Session |-> IF x \in X THEN NoSession ELSE @[x]]]

\* trimTerminalSessions: the latest sessions that ended are kept, for 30 days.
Trimmed(d, u, at) ==
  LET ended == TerminalOf(d, u, at)
  IN WithoutSessions(d,
       {x \in ended : d.session[x].end <= at - WindowTicks}
         \cup (ended \ Latest(ended, TerminalLimit, Times(d, "end"))))

(* sessions_public_issuance_ledger: the oldest other sessions end, so that  *)
(* SessionLimit of them live with the new one, and old rows are deleted.    *)

\* Mutation of OlderReplaced: the new session is not counted.
OlderReplacedUncounted(d, x, u, at) ==
  LET others == {y \in SessionsOf(d, u) : y # x /\ ~ Ended(d, y, at)}
      older == others \ Latest(others, SessionLimit, Times(d, "at"))
  IN [d EXCEPT !.session = [y \in Session |->
        IF y \in older THEN [@[y] EXCEPT !.live = FALSE, !.end = at] ELSE @[y]]]

OlderReplaced(d, x, u, at) ==
  LET others == {y \in SessionsOf(d, u) : y # x /\ ~ Ended(d, y, at)}
      older == others \ Latest(others, SessionLimit - 1, Times(d, "at"))
  IN [d EXCEPT !.session = [y \in Session |->
        IF y \in older THEN [@[y] EXCEPT !.live = FALSE, !.end = at] ELSE @[y]]]

WithSession(d, x, u, t, at) ==
  LET row == [of |-> u, live |-> TRUE, via |-> t, at |-> at,
              end |-> at + SessionTicks]
      recorded == WithCreation([d EXCEPT !.session[x] = row], "session", u, at)
  IN Trimmed(OlderReplaced(recorded, x, u, at), u, at)

-----------------------------------------------------------------------------
(* What administrators do, and what handlers clean up before they start. *)

(* setCircuitBreaker, circuit.set: a pause for security ends by itself,     *)
(* later when the circuit was paused before.                                *)

MaySetCircuit(d, r) ==
  ActiveAdmin(d, r.by) /\ (r.pause # "none" \/ d.circuit[r.circuit].paused)

CircuitSet(d, r) ==
  LET before == r.seen.circuit[r.circuit]
      ends == d.clock + IF before.again THEN NextPause ELSE FirstPause
  IN [d EXCEPT !.circuit[r.circuit] =
        [paused |-> r.pause # "none",
         resume |-> IF r.pause = "security" THEN {ends} ELSE {},
         again |-> @.again \/ r.pause # "none"]]

(* setGovernanceLimit, governance.limit.set *)

MaySetLimit(d, r) == ActiveAdmin(d, r.by) /\ d.accountsPerDay # r.limit

LimitSet(d, r) == [d EXCEPT !.accountsPerDay = r.limit]

\* cleanupAuthRecords: sessions that ended, and links that expired, long ago.
\* Cleaning a link counts for its workspace.
Cleaned(d) ==
  LET ended == UNION {TerminalOf(d, u, d.clock) : u \in Account}
      latest == UNION {Latest(TerminalOf(d, u, d.clock), TerminalLimit,
                              Times(d, "end")) : u \in Account}
      old == {x \in ended : d.session[x].end <= d.clock - WindowTicks}
      links == {l \in Link : d.link[l].expired
                                /\ d.link[l].state \notin {"absent", "gone"}}
  IN WithLinkState(WithoutSessions(d, old \cup (ended \ latest)), links, "gone")

(* The next snapshot of a workspace, stored by an editor or an owner, takes *)
(* other space than the one before (compareAndSwapAuthorized).              *)

MayStore(d, r) ==
  /\ Live(d, r.at) /\ Active(d, r.by)
  /\ d.role[r.at][r.by] \in {"editor", "owner"}
  /\ r.bytes # d.bytes[r.at]
  /\ GrowthAllowed(d, r.at, r.bytes, r.seen.clock)

SnapshotStored(d, r) == [d EXCEPT !.bytes[r.at] = r.bytes]
=============================================================================
