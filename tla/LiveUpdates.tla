----------------------------- MODULE LiveUpdates -----------------------------
(***************************************************************************)
(* How a committed edit comes to show on the other devices that have the   *)
(* workspace open: the sync route commits and owes a notification; the     *)
(* notification reads the database and is published to the relay or the    *)
(* hub; a listening device takes it as a hint and pulls the server's copy  *)
(* (live-reconciliation.ts and flushWorkspace of store.tsx).  One device   *)
(* is one account's browser with one connection; edits are also made from  *)
(* devices that are not modelled.                                          *)
(***************************************************************************)
EXTENDS LiveRoom, FiniteSetsExt, Functions

CONSTANTS
  Device,
  User,
  UserOf,      \* [Device -> User]
  Elsewhere,   \* the connection of every other device
  Bounds,      \* bounds a behaviour may have: edits accepted or waiting, changes
               \* of access, and outages, lost notifications, broken connections
  MaxUnderway  \* bound: notifications under way at once

ASSUME LiveAssumption ==
  /\ UserOf \in [Device -> User]
  /\ \A S \in SUBSET User : S # Unset
  /\ NoSource \notin Device \cup {Elsewhere} /\ Elsewhere \notin Device
  /\ Bounds \subseteq [edits : Nat, access : Nat, faults : Nat]
  /\ MaxUnderway \in Nat

VARIABLES
  transport, \* "relay" or "hub", by configuration
  server,    \* the snapshot's revisions and the active members
  owed,      \* notifications that committed requests still have to make
  notes,     \* notifications on their way to the relay or the hub
  room,
  device,
  faults,    \* faults so far
  lost,      \* a notification was lost
  bound

vars == <<transport, server, owed, notes, room, device, faults, lost, bound>>

Server == [revision : Nat, access : Nat, members : SUBSET User, deleted : BOOLEAN]

Owed == [source : Device \cup {Elsewhere, NoSource}, prior : Nat, at : Nat]

Note == [access : Nat, allowed : SUBSET User, revision : Nat, deleted : BOOLEAN,
         source : Device \cup {Elsewhere, NoSource}]

Answer == [kind : {"none", "ok", "refused", "busy"}, revision : Nat, access : Nat]

\* The two ends of a connection: asking for a capability; asked, with the
\* revisions that came with it; admitted to the stream; checking, when the hub
\* sends but the membership has yet to be read again; open; closed and waiting
\* to reconnect; dead, given up until the workspace is opened anew.
Stage == {"off", "asking", "asked", "admitted", "checking", "open", "waiting",
          "dead"}

\* base is the server revision of the replica, queue what waits in its outbox;
\* the replica shows both.  known is what the server's end of the connection
\* was told, start and seen are the revisions the client compares hints with.
\* again is the follow-up that waits for the flush under way.
DeviceState ==
  [online : BOOLEAN, active : BOOLEAN, base : Nat, access : Nat, queue : Nat,
   conn : Stage, known : Nat \X Nat, start : Nat, seen : Nat \X Nat,
   hint : BOOLEAN, flush : {"idle", "sent", "served"}, sent : Nat,
   prior : Nat, answer : Answer,
   again : {"no", "batch", "any"}, retry : BOOLEAN, failed : BOOLEAN]

NoAnswer == [kind |-> "none", revision |-> 0, access |-> 0]

Member(u) == u \in server.members /\ ~ server.deleted

\* What was read of the workspace just now.
Read == <<server.access, server.revision>>

-----------------------------------------------------------------------------
(* flushWorkspace: one request at a time; one that comes meanwhile is made  *)
(* when it ends.  "any" also pulls when nothing waits to be sent.           *)

BeginFlush(c, kind) ==
  IF c.retry \/ ~ c.online \/ (kind = "batch" /\ c.queue = 0)
  THEN c
  ELSE [c EXCEPT !.flush = "sent", !.sent = c.queue]

\* Mutation of Flush: a request that comes meanwhile is dropped.
FlushUnlessBusy(c, kind) ==
  IF c.flush = "idle" THEN BeginFlush(c, kind) ELSE c

Flush(c, kind) ==
  IF c.flush = "idle" THEN BeginFlush(c, kind)
  ELSE [c EXCEPT !.again = IF kind = "any" \/ @ = "any" THEN "any" ELSE "batch"]

\* The flush under way ended with c; its follow-up begins at once.
EndFlush(c) ==
  LET idle == [c EXCEPT !.flush = "idle", !.sent = 0, !.prior = 0,
                        !.answer = NoAnswer,
                        !.again = "no"]
  IN IF c.again = "no" THEN idle ELSE BeginFlush(idle, c.again)

\* receiveMessage.  A message on its way is a hint nobody has taken yet.
Hear(c, m) ==
  IF \/ m.type = "deleted"
     \/ m.access > c.seen[1]
     \/ m.revision > c.seen[2]
  THEN [c EXCEPT !.seen = <<Larger(@[1], m.access), Larger(@[2], m.revision)>>,
                 !.hint = TRUE]
  ELSE c

Leave(c, stage) == [c EXCEPT !.conn = stage, !.known = <<0, 0>>]

\* What c becomes when it is sent mail; End closes its connection.
HearAll(c, mail) ==
  LET told == IF mail = <<>> THEN c ELSE Hear(c, mail[1])
  IN IF Len(mail) = 2 THEN Leave(told, "waiting") ELSE told

-----------------------------------------------------------------------------
(* The device.  Only(d, c): d becomes c, nothing else changes. *)

Only(d, c) ==
  /\ device' = [device EXCEPT ![d] = c]
  /\ UNCHANGED <<bound, transport, server, owed, notes, room, faults, lost>>

Unsent == FoldFunction(LAMBDA n, m : n + m, 0, [d \in Device |-> device[d].queue])

\* An edit shows at once; the flush comes after a short delay, with what has
\* been edited by then.
Edit(d) ==
  LET c == device[d] IN
  /\ c.active
  /\ server.revision + Unsent < bound.edits
  /\ Only(d, Flush([c EXCEPT !.queue = @ + 1], "batch"))

\* The browser is online again.
GoOnline(d) ==
  /\ ~ device[d].online
  /\ Only(d, Flush([device[d] EXCEPT !.online = TRUE], "any"))

\* startLiveWorkspaceConnection, with the revisions of the replica as shown:
\* the server's and the edits that wait.
Start(d) ==
  LET c == device[d] IN
  /\ c.online /\ c.active /\ c.conn = "off"
  /\ Only(d, [c EXCEPT !.conn = "asking", !.start = c.base + c.queue,
                       !.seen = <<c.access, c.base + c.queue>>])

\* The connection is stopped when the workspace is no longer the account's, or
\* the browser offline.
Stop(d) ==
  LET c == device[d] IN
  /\ ~ (c.online /\ c.active) /\ c.conn # "off"
  /\ Only(d, [Leave(c, "off") EXCEPT !.hint = FALSE, !.start = 0, !.seen = <<0, 0>>])

Reconnect(d) ==
  /\ device[d].conn = "waiting"
  /\ Only(d, [device[d] EXCEPT !.conn = "asking"])

\* reconcileLiveMessage: the hints of a moment are one flush.
TakeHint(d) ==
  /\ device[d].hint
  /\ Only(d, Flush([device[d] EXCEPT !.hint = FALSE], "any"))

\* The catalog of workspaces says whose the workspace is.
Refresh(d) ==
  LET c == device[d] IN
  /\ c.online /\ c.active # Member(UserOf[d])
  /\ Only(d, [c EXCEPT !.active = Member(UserOf[d])])

\* The retry timer: it sends what waits, and pulls only then.
Retry(d) ==
  /\ device[d].retry
  /\ Only(d, Flush([device[d] EXCEPT !.retry = FALSE], "batch"))

-----------------------------------------------------------------------------
(* The connection: a capability, then the relay's socket or the hub's       *)
(* stream.                                                                  *)

\* onAccessLost: it flushes, and nothing reconnects.
Refused(c) == Flush(Leave(c, "dead"), "any")

\* GET /api/live/capability; its revisions are heard as a first message.
Capability(d) ==
  LET c == device[d]
      m == Message("ready", server.access, server.revision) IN
  /\ c.conn = "asking"
  /\ Only(d, IF Member(UserOf[d])
             THEN Hear([c EXCEPT !.conn = "asked", !.known = Read], m)
             ELSE Refused(c))

\* /v1/connect; a socket that is refused closes, and is tried again.
Connect(d) ==
  LET c == device[d]
      cap == [access |-> c.known[1], revision |-> c.known[2]] IN
  /\ transport = "relay"
  /\ c.conn = "asked"
  /\ Only(d, IF MayListen(room, cap, UserOf[d])
             THEN Hear(Leave(c, "open"), Ready(room, cap))
             ELSE Leave(c, "waiting"))

\* GET /api/live/events reads the membership, subscribes, and reads again.
OpenStream(d) ==
  LET c == device[d] IN
  /\ transport = "hub"
  /\ c.conn = "asked"
  /\ Only(d, IF Member(UserOf[d]) THEN [c EXCEPT !.conn = "admitted", !.known = Read]
             ELSE Refused(c))

Subscribe(d) ==
  /\ device[d].conn = "admitted"
  /\ Only(d, [device[d] EXCEPT !.conn = "checking"])

Recheck(d) ==
  LET c == device[d] IN
  /\ c.conn = "checking"
  /\ Only(d, IF Member(UserOf[d])
             THEN Hear([c EXCEPT !.conn = "open", !.known = <<@[1], 0>>],
                       Message("ready", server.access, server.revision))
             ELSE HearAll(c, <<Message("access", c.known[1], c.known[2]), End>>))

-----------------------------------------------------------------------------
(* The server: a request commits, and owes a notification. *)

Capacity == Cardinality(owed) + Cardinality(notes) < MaxUnderway

Owe(source, prior, access) ==
  owed' = owed \cup {[source |-> source, prior |-> prior, at |-> access]}

\* POST /api/sync: of what was sent, k edits are accepted, the others refused.
Serve(d) ==
  LET c == device[d] IN
  /\ c.flush = "sent" /\ c.answer.kind = "none"
  /\ IF Member(UserOf[d])
     THEN \E k \in 0..c.sent :
            /\ server' = [server EXCEPT !.revision = @ + k]
            /\ device' = [device EXCEPT ![d].flush = "served",
                                       ![d].prior = server.revision]
     ELSE /\ device' = [device EXCEPT ![d].answer.kind = "refused"]
          /\ UNCHANGED server
  /\ UNCHANGED <<bound, transport, owed, notes, room, faults, lost>>

\* It reads the membership again before it answers.  Who lost it meanwhile is
\* refused, and what was accepted is not announced.
Reply(d) ==
  /\ Capacity
  /\ device[d].flush = "served" /\ device[d].answer.kind = "none"
  /\ IF Member(UserOf[d])
     THEN /\ device' = [device EXCEPT ![d].answer =
                         [kind |-> "ok", access |-> server.access,
                          revision |-> server.revision]]
          /\ Owe(d, device[d].prior, server.access)
     ELSE /\ device' = [device EXCEPT ![d].answer.kind = "refused"]
          /\ UNCHANGED owed
  /\ UNCHANGED <<bound, transport, server, notes, room, faults, lost>>

\* What was sent left the queue, also what was refused.
Settle(d) ==
  LET c == device[d] IN
  /\ c.answer.kind # "none"
  /\ Only(d, EndFlush(
       CASE c.answer.kind = "ok" ->
              [c EXCEPT !.base = Larger(@, c.answer.revision),
                        !.access = Larger(@, c.answer.access), !.active = TRUE,
                        !.queue = @ - c.sent, !.retry = FALSE, !.failed = FALSE]
         [] c.answer.kind = "refused" ->
              [c EXCEPT !.active = FALSE, !.queue = @ - c.sent, !.retry = FALSE]
         [] c.answer.kind = "busy" ->
              [c EXCEPT !.retry = TRUE, !.failed = TRUE]))

EditElsewhere ==
  /\ Capacity
  /\ \E u \in User : Member(u)
  /\ server.revision + Unsent < bound.edits
  /\ server' = [server EXCEPT !.revision = @ + 1]
  /\ Owe(Elsewhere, server.revision, server.access)
  /\ UNCHANGED <<bound, transport, notes, room, device, faults, lost>>

\* A member is removed, stopped, or comes back.
ChangeMembers(u) ==
  /\ Capacity
  /\ ~ server.deleted /\ server.access < bound.access
  /\ server' = [server EXCEPT !.access = @ + 1,
                  !.members = IF u \in @ THEN @ \ {u} ELSE @ \cup {u}]
  /\ server'.members # {}
  /\ Owe(NoSource, 0, server.access + 1)
  /\ UNCHANGED <<bound, transport, notes, room, device, faults, lost>>

Deletion(access) ==
  /\ Capacity
  /\ ~ server.deleted /\ server.access < bound.access
  /\ server' = [server EXCEPT !.access = access, !.members = {}, !.deleted = TRUE]
  /\ notes' = notes \cup {[access |-> access, allowed |-> {},
                           revision |-> server.revision, deleted |-> TRUE,
                           source |-> NoSource]}
  /\ UNCHANGED <<bound, transport, owed, room, device, faults, lost>>

\* Mutation of Delete: the deletion keeps the access revision.
DeleteAtSameAccess == Deletion(server.access)

\* deleteServerWorkspace: its notification needs no read.
Delete == Deletion(server.access + 1)

\* Who made an edit elsewhere may have lost access before the answer.
Unannounced(o) == o.source = Elsewhere /\ server.access > o.at

\* notifyWorkspaceChange reads the workspace as it is now; nothing is sent for a
\* sync that left it as it was, or for a workspace that is gone.
Notify(o) ==
  /\ o \in owed
  /\ owed' = owed \ {o}
  /\ \/ Unannounced(o) /\ UNCHANGED notes
     \/ notes' =
          IF server.deleted \/ (o.source # NoSource /\ server.revision <= o.prior)
          THEN notes
          ELSE notes \cup {[access |-> server.access, allowed |-> server.members,
                            revision |-> server.revision, deleted |-> FALSE,
                            source |-> o.source]}
  /\ UNCHANGED <<bound, transport, server, room, device, faults, lost>>

\* /v1/publish: an older notification than the room's is dropped.
PublishToRoom(n) ==
  /\ transport = "relay" /\ n \in notes
  /\ notes' = notes \ {n}
  /\ IF Stale(room, n)
     THEN UNCHANGED <<room, device>>
     ELSE /\ room' = NextRoom(room, n)
          /\ device' = [d \in Device |->
               IF device[d].conn = "open"
               THEN HearAll(device[d], RoomMail(room, n, UserOf[d], d))
               ELSE device[d]]
  /\ UNCHANGED <<bound, transport, server, owed, faults, lost>>

\* publishLocally
PublishToHub(n) ==
  /\ transport = "hub" /\ n \in notes
  /\ notes' = notes \ {n}
  /\ device' = [d \in Device |->
       IF device[d].conn \in {"checking", "open"}
       THEN HearAll([device[d] EXCEPT !.known[1] = Larger(@, n.access)],
                    HubMail(device[d].known[1], n, UserOf[d], d))
       ELSE device[d]]
  /\ UNCHANGED <<bound, transport, server, owed, room, faults, lost>>

-----------------------------------------------------------------------------
(* Faults. *)

Fault == faults < bound.faults /\ faults' = faults + 1

GoOffline(d) ==
  /\ Fault
  /\ device[d].online
  /\ device' = [device EXCEPT ![d].online = FALSE]
  /\ UNCHANGED <<bound, transport, server, owed, notes, room, lost>>

\* A request or its answer is lost; nothing retries it.  The server goes on.
Fail(d) ==
  LET c == device[d] IN
  /\ Fault
  /\ c.flush # "idle"
  /\ device' = [device EXCEPT ![d] = EndFlush([@ EXCEPT !.failed = TRUE])]
  /\ IF c.flush = "served" /\ c.answer.kind = "none" /\ Member(UserOf[d])
     THEN Owe(d, c.prior, server.access)
     ELSE UNCHANGED owed
  /\ UNCHANGED <<bound, transport, server, notes, room, lost>>

\* 503 or 429.
Busy(d) ==
  /\ Fault
  /\ device[d].flush = "sent" /\ device[d].answer.kind = "none"
  /\ device' = [device EXCEPT ![d].answer.kind = "busy"]
  /\ UNCHANGED <<bound, transport, server, owed, notes, room, lost>>

\* The relay is too slow, unreachable, or limits the workspace.
Lose(n) ==
  /\ Fault
  /\ transport = "relay" /\ n \in notes
  /\ notes' = notes \ {n}
  /\ lost' = TRUE
  /\ UNCHANGED <<bound, transport, server, owed, room, device>>

\* The socket or stream breaks.
Break(d) ==
  /\ Fault
  /\ device[d].conn \in {"checking", "open"}
  /\ device' = [device EXCEPT ![d] = Leave(@, "waiting")]
  /\ UNCHANGED <<bound, transport, server, owed, notes, room, lost>>

-----------------------------------------------------------------------------
\* Two members opened the workspace, at one revision; they may have been
\* offline for a while.
Init ==
  /\ transport \in {"relay", "hub"}
  /\ bound \in Bounds
  /\ server = [revision |-> 0, access |-> 0, deleted |-> FALSE,
               members |-> User]
  /\ owed = {} /\ notes = {}
  /\ room = EmptyRoom
  /\ device = [d \in Device |->
       [online |-> FALSE, active |-> TRUE, base |-> 0, access |-> 0, queue |-> 0,
        conn |-> "off", known |-> <<0, 0>>, start |-> 0, seen |-> <<0, 0>>,
        hint |-> FALSE, flush |-> "idle", sent |-> 0, prior |-> 0,
        answer |-> NoAnswer, again |-> "no", retry |-> FALSE, failed |-> FALSE]]
  /\ faults = 0 /\ lost = FALSE

DeviceStep(d) ==
  \/ Start(d) \/ Stop(d) \/ Reconnect(d) \/ TakeHint(d)
  \/ Retry(d) \/ Settle(d)

ConnectionStep(d) ==
  \/ Capability(d) \/ Connect(d) \/ OpenStream(d) \/ Subscribe(d) \/ Recheck(d)

Notification ==
  \/ \E o \in owed : Notify(o)
  \/ \E n \in notes : PublishToRoom(n) \/ PublishToHub(n)

Environment ==
  \/ \E d \in Device : Edit(d) \/ GoOnline(d) \/ Refresh(d)
  \/ \E u \in User : ChangeMembers(u)
  \/ EditElsewhere
  \/ Delete

Failure ==
  \/ \E d \in Device : GoOffline(d) \/ Fail(d) \/ Busy(d) \/ Break(d)
  \/ \E n \in notes : Lose(n)

Next ==
  \/ \E d \in Device : DeviceStep(d) \/ ConnectionStep(d) \/ Serve(d) \/ Reply(d)
  \/ Notification
  \/ Environment
  \/ Failure

\* What was sent arrives, is served and answered, and a hint is taken: no more
\* is needed of the browser, the server and the relay.
Fairness ==
  /\ \A d \in Device :
       /\ WF_vars(TakeHint(d))
       /\ WF_vars(Serve(d) \/ Reply(d))
       /\ WF_vars(Settle(d))
  /\ WF_vars(Notification)

Spec == Init /\ [][Next]_vars /\ Fairness

-----------------------------------------------------------------------------
(* Properties. *)

\* The variables have their types.
TypeOK ==
  /\ transport \in {"relay", "hub"} /\ bound \in Bounds
  /\ server \in Server
  /\ owed \subseteq Owed /\ notes \subseteq Note
  /\ \/ room = EmptyRoom
     \/ room \in [access : 0..bound.access, allowed : SUBSET User,
                  deleted : BOOLEAN, revision : 0..server.revision]
  /\ device \in [Device -> DeviceState]
  /\ faults \in 0..bound.faults /\ lost \in BOOLEAN

MaxRevision == Max({b.edits : b \in Bounds})

Listening(d) == device[d].online /\ device[d].conn = "open"

\* An edit that the server committed shows on a device that listens, though
\* hints are late, overtake each other, arrive during a flush, or are not sent
\* to the connection that made the edit; unless an exchange failed, a
\* notification was lost or the connection ended.  A hint counts as news only
\* beyond the revision that the replica showed when its connection started,
\* which includes edits that were not sent yet (observedRevision).
EditsAppear ==
  \A d \in Device, n \in 1..MaxRevision :
    server.revision >= n /\ Listening(d)
      ~> \/ device[d].base >= n
         \/ ~ Listening(d) \/ device[d].failed \/ lost
         \/ n <= device[d].start

\* Once every notification has been made and none was lost, nobody listens but
\* the active members of a workspace that exists, though removals, deletion,
\* connections and notifications overlap in any order (acceptConnection, the
\* second read of /api/live/events, publish).
OnlyMembersListen ==
  owed = {} /\ notes = {} /\ ~ lost =>
    \A d \in Device : Listening(d) => Member(UserOf[d])

\* A room that knows the current access revision admits exactly the members,
\* and nobody to a deleted workspace: a late notification does not open it
\* again (publish, deleteServerWorkspace).
RoomIsTrue ==
  room.allowed # Unset /\ room.access = server.access =>
    room.allowed = server.members /\ room.deleted = server.deleted
=============================================================================
