----------------------------- MODULE LiveProofs -----------------------------
(***************************************************************************)
(* Theorems about LiveUpdates: its types, and that nobody who lost access  *)
(* goes on listening once every notification was made.  The argument does  *)
(* not need any order of notifications: what says the current access       *)
(* revision says the current members, and it is on its way until the room  *)
(* has it.                                                                 *)
(***************************************************************************)
EXTENDS LiveUpdates, TLAPS

\* A device sends no more than waits.
SendsWhatWaits == \A d \in Device : device[d].sent <= device[d].queue

AccessBounded == server.access <= bound.access

\* At first everyone is a member.
AllAtFirst == server.access = 0 => server.members = User /\ ~ server.deleted

\* A notification is no newer than the workspace, and true if it is current.
NotesTell ==
  \A n \in notes :
    /\ n.access <= server.access
    /\ n.revision <= server.revision
    /\ n.access = server.access =>
         n.allowed = server.members /\ n.deleted = server.deleted

RoomFollows ==
  /\ room.access <= server.access
  /\ RoomIsTrue

\* The current access has still to be published.
OnItsWay ==
  \/ \E n \in notes : n.access = server.access
  \/ ~ server.deleted /\ \E o \in owed : o.source = NoSource /\ o.at = server.access

\* The room knows its listeners.
RoomHolds ==
  transport = "relay" /\ room.allowed # Unset =>
    \A d \in Device :
      device[d].conn = "open" => UserOf[d] \in room.allowed /\ ~ room.deleted

RoomIsTold ==
  transport = "relay" => OnItsWay \/ lost \/ room.access = server.access

StreamsOnHub ==
  \A d \in Device : device[d].conn \in {"admitted", "checking"} => transport = "hub"

HubIsTold ==
  transport = "hub" =>
    \A d \in Device :
      device[d].conn = "open" => Member(UserOf[d]) \/ OnItsWay

TypeInv == TypeOK /\ SendsWhatWaits /\ AccessBounded /\ NotesTell /\ RoomFollows

LiveInv == AllAtFirst /\ RoomHolds /\ RoomIsTold /\ StreamsOnHub /\ HubIsTold

-----------------------------------------------------------------------------
(* What the helpers do to a device: its types, and where its connection is. *)

Good(c) == c \in DeviceState /\ c.sent <= c.queue

\* A flush that begins sends what waits and leaves the connection alone.
LEMMA BeginFlushGood ==
  ASSUME NEW c, Good(c), NEW kind
  PROVE  Good(BeginFlush(c, kind)) /\ BeginFlush(c, kind).conn = c.conn
  <1> DEFINE f == [c EXCEPT !.flush = "sent", !.sent = c.queue]
  <1>1. f \in DeviceState
    BY DEF Good, DeviceState
  <1>2. f.sent = c.queue /\ f.queue = c.queue /\ f.conn = c.conn
    BY DEF Good, DeviceState
  <1>3. c.queue \in Nat
    BY DEF Good, DeviceState
  <1>4. BeginFlush(c, kind) = c \/ BeginFlush(c, kind) = f
    BY DEF BeginFlush
  <1> HIDE DEF f
  <1> QED
    BY <1>1, <1>2, <1>3, <1>4 DEF Good

\* A flush leaves the connection alone, and keeps the device's types.
LEMMA FlushGood ==
  ASSUME NEW c, Good(c), NEW kind
  PROVE  Good(Flush(c, kind)) /\ Flush(c, kind).conn = c.conn
  <1>1. CASE c.flush = "idle"
    BY <1>1, BeginFlushGood DEF Flush
  <1>2. CASE c.flush # "idle"
    BY <1>2 DEF Flush, Good, DeviceState
  <1> QED
    BY <1>1, <1>2

\* Nothing is being sent when a flush has ended.
LEMMA EndFlushGood ==
  ASSUME NEW c, c \in DeviceState
  PROVE  Good(EndFlush(c)) /\ EndFlush(c).conn = c.conn
  <1> DEFINE idle == [c EXCEPT !.flush = "idle", !.sent = 0, !.prior = 0,
                               !.answer = NoAnswer, !.again = "no"]
  <1>a. NoAnswer \in Answer
    BY DEF NoAnswer, Answer
  <1>b. idle \in DeviceState
    BY <1>a DEF DeviceState
  <1>c. idle.conn = c.conn /\ idle.sent = 0 /\ idle.queue \in Nat
    BY DEF DeviceState
  <1>1. Good(idle) /\ idle.conn = c.conn
    BY <1>b, <1>c DEF Good
  <1>2. EndFlush(c) = IF c.again = "no" THEN idle ELSE BeginFlush(idle, c.again)
    BY DEF EndFlush
  <1> HIDE DEF idle
  <1> QED
    BY <1>1, <1>2, BeginFlushGood

\* The larger of two revisions is one of them.
LEMMA LargerNat ==
  ASSUME NEW a \in Nat, NEW b \in Nat
  PROVE  Larger(a, b) \in Nat /\ Larger(a, b) >= a /\ Larger(a, b) >= b
         /\ (Larger(a, b) = a \/ Larger(a, b) = b)
  BY DEF Larger

\* A message that is heard is a hint, and does not touch the connection.
LEMMA HearGood ==
  ASSUME NEW c, Good(c), NEW type, NEW a \in Nat, NEW r \in Nat
  PROVE  LET h == Hear(c, Message(type, a, r)) IN Good(h) /\ h.conn = c.conn
  <1> DEFINE m == Message(type, a, r)
             seen == <<Larger(c.seen[1], m.access), Larger(c.seen[2], m.revision)>>
  <1>1. m.access \in Nat /\ m.revision \in Nat
    BY DEF Message
  <1>2. c.seen \in Nat \X Nat
    BY DEF Good, DeviceState
  <1>3. seen \in Nat \X Nat
    BY <1>1, <1>2, LargerNat
  <1>4. Hear(c, m) = c \/ Hear(c, m) = [c EXCEPT !.seen = seen, !.hint = TRUE]
    BY DEF Hear
  <1> HIDE DEF seen
  <1>5. Good([c EXCEPT !.seen = seen, !.hint = TRUE])
        /\ [c EXCEPT !.seen = seen, !.hint = TRUE].conn = c.conn
    BY <1>3 DEF Good, DeviceState
  <1> QED
    BY <1>4, <1>5

\* A connection that is left is at the stage it is left for.
LEMMA LeaveGood ==
  ASSUME NEW c, Good(c), NEW stage \in Stage
  PROVE  Good(Leave(c, stage)) /\ Leave(c, stage).conn = stage
  BY DEF Good, DeviceState, Leave

-----------------------------------------------------------------------------
(* Mail: nothing, one message, or one message and the end. *)

Mail(m) == {<<>>, <<m>>, <<m, End>>}

\* A listener that is sent mail goes on listening, or waits after the end.
LEMMA HearAllGood ==
  ASSUME NEW c, Good(c), NEW type, NEW a \in Nat, NEW r \in Nat,
         NEW mail \in Mail(Message(type, a, r))
  PROVE  /\ Good(HearAll(c, mail))
         /\ HearAll(c, mail).conn = IF mail = <<Message(type, a, r), End>>
                                    THEN "waiting" ELSE c.conn
  <1> DEFINE m == Message(type, a, r)
  <1>1. Good(Hear(c, m)) /\ Hear(c, m).conn = c.conn
    BY HearGood
  <1>2. "waiting" \in Stage
    BY DEF Stage
  <1> HIDE DEF m
  <1>3. CASE mail = <<>>
    <2>1. Len(mail) = 0 /\ mail # <<m, End>>
      BY <1>3
    <2> QED
      BY <1>3, <2>1 DEF HearAll, m
  <1>4. CASE mail = <<m>>
    <2>1. Len(mail) = 1 /\ mail[1] = m /\ mail # <<>> /\ mail # <<m, End>>
      BY <1>4
    <2> QED
      BY <1>1, <2>1 DEF HearAll, m
  <1>5. CASE mail = <<m, End>>
    <2>1. Len(mail) = 2 /\ mail[1] = m /\ mail # <<>>
      BY <1>5
    <2>2. HearAll(c, mail) = Leave(Hear(c, m), "waiting")
      BY <2>1 DEF HearAll
    <2> QED
      BY <1>1, <1>2, <1>5, <2>2, LeaveGood DEF m
  <1> QED
    BY <1>3, <1>4, <1>5 DEF Mail, m

Room == [access : Nat, allowed : SUBSET User, deleted : BOOLEAN, revision : Nat]

\* The next room has the newest revisions; the members are the notification's
\* when its access is newer or the room has none.
LEMMA NextRoomIs ==
  ASSUME NEW rm, rm = EmptyRoom \/ rm \in Room, NEW n \in Note, ~ Stale(rm, n)
  PROVE  /\ NextRoom(rm, n) \in Room
         /\ NextRoom(rm, n).access = n.access
         /\ NextRoom(rm, n).revision = Larger(rm.revision, n.revision)
         /\ \/ /\ NextRoom(rm, n).allowed = n.allowed
               /\ NextRoom(rm, n).deleted = n.deleted
            \/ /\ rm \in Room /\ rm.access = n.access
               /\ NextRoom(rm, n).allowed = rm.allowed
               /\ NextRoom(rm, n).deleted = rm.deleted
  <1>1. rm.access \in Nat /\ rm.revision \in Nat
    BY DEF EmptyRoom, Room
  <1>2. n.access \in Nat /\ n.revision \in Nat /\ n.allowed \in SUBSET User
        /\ n.deleted \in BOOLEAN
    BY DEF Note
  <1>3. Larger(rm.access, n.access) = n.access
    BY <1>1, <1>2 DEF Stale, Larger
  <1>4. Larger(rm.revision, n.revision) \in Nat
    BY <1>1, <1>2, LargerNat
  <1>5. CASE AccessChanged(rm, n)
    BY <1>2, <1>3, <1>4, <1>5 DEF NextRoom, Room
  <1>6. CASE ~ AccessChanged(rm, n)
    <2>1. rm \in Room
      BY <1>6 DEF AccessChanged, EmptyRoom
    <2>2. rm.access = n.access
      BY <1>1, <1>2, <1>6 DEF AccessChanged, Stale
    <2> QED
      BY <1>2, <1>3, <1>4, <1>6, <2>1, <2>2 DEF NextRoom, Room
  <1> QED
    BY <1>5, <1>6

\* A listener of the room is sent its end exactly when the next room does not
\* admit it.
LEMMA RoomMailIs ==
  ASSUME NEW rm, NEW n, NEW u, NEW connection,
         NextRoom(rm, n).access \in Nat, NextRoom(rm, n).revision \in Nat
  PROVE  \E type \in {"deleted", "access", "change"} :
           LET m == Message(type, NextRoom(rm, n).access, NextRoom(rm, n).revision)
           IN /\ RoomMail(rm, n, u, connection) \in Mail(m)
              /\ u \notin NextRoom(rm, n).allowed \/ NextRoom(rm, n).deleted =>
                   RoomMail(rm, n, u, connection) = <<m, End>>
  BY DEF RoomMail, Mail

\* A listener of the hub is sent its end exactly when it is not a member, or
\* the workspace is deleted.
LEMMA HubMailIs ==
  ASSUME NEW known, NEW n \in Note, NEW u, NEW connection
  PROVE  \E type \in {"deleted", "access", "change"} :
           LET m == Message(type, n.access, n.revision)
           IN /\ HubMail(known, n, u, connection) \in Mail(m)
              /\ n.deleted \/ u \notin n.allowed =>
                   HubMail(known, n, u, connection) = <<m, End>>
  BY DEF HubMail, Mail

-----------------------------------------------------------------------------
(* Steps of one device. *)

\* Where d may be heard from now on.
Admissible(d) ==
  \/ transport = "relay" /\ (room.allowed # Unset =>
                              UserOf[d] \in room.allowed /\ ~ room.deleted)
  \/ transport = "hub" /\ Member(UserOf[d])

\* A step of one device keeps the invariants if it is well typed and the device
\* listens only where it did or may.
LEMMA OnlyKeeps ==
  ASSUME TypeInv, LiveInv, NEW d \in Device, NEW c, Only(d, c), Good(c),
         c.conn = "open" => device[d].conn = "open" \/ Admissible(d),
         c.conn \in {"admitted", "checking"} =>
           device[d].conn \in {"admitted", "checking"} \/ transport = "hub"
  PROVE  TypeInv' /\ LiveInv'
  <1> USE DEF TypeInv, LiveInv, Only
  <1>1. device' = [device EXCEPT ![d] = c] /\ device \in [Device -> DeviceState]
    BY DEF TypeOK
  <1>2. device' \in [Device -> DeviceState]
    BY <1>1 DEF Good
  <1>3. \A e \in Device : device'[e] = IF e = d THEN c ELSE device[e]
    BY <1>1
  <1>4. TypeOK'
    BY <1>2 DEF TypeOK
  <1>5. SendsWhatWaits'
    BY <1>3 DEF SendsWhatWaits, Good
  <1>6. AccessBounded' /\ NotesTell' /\ RoomFollows' /\ AllAtFirst' /\ RoomIsTold'
    BY DEF AccessBounded, NotesTell, RoomFollows, RoomIsTrue, AllAtFirst,
           RoomIsTold, OnItsWay
  <1>7. RoomHolds'
    BY <1>3 DEF RoomHolds, Admissible
  <1>8. HubIsTold'
    BY <1>3 DEF HubIsTold, Admissible, OnItsWay, Member
  <1>9. StreamsOnHub'
    BY <1>3 DEF StreamsOnHub
  <1> QED
    BY <1>4, <1>5, <1>6, <1>7, <1>8, <1>9

\* What the device and its connection do by themselves.
LEMMA DeviceKeeps ==
  ASSUME TypeInv, LiveInv, NEW d \in Device,
         \/ DeviceStep(d) \/ ConnectionStep(d)
         \/ Edit(d) \/ GoOnline(d) \/ Refresh(d)
  PROVE  TypeInv' /\ LiveInv'
  <1> DEFINE c == device[d]
  <1>1. Good(c)
    BY DEF TypeInv, TypeOK, SendsWhatWaits, Good
  <1>2. c \in DeviceState /\ c.queue \in Nat /\ c.sent \in Nat /\ c.base \in Nat
        /\ c.access \in Nat /\ c.known \in Nat \X Nat /\ c.sent <= c.queue
    BY <1>1 DEF Good, DeviceState
  <1>3. server.access \in Nat /\ server.revision \in Nat
    BY DEF TypeInv, TypeOK, Server
  <1>4. room.access \in Nat /\ room.revision \in Nat
    BY <1>3 DEF TypeInv, TypeOK, EmptyRoom
  <1> DEFINE Kept(x) ==
               /\ Good(x)
               /\ x.conn = "open" => c.conn = "open" \/ Admissible(d)
               /\ x.conn \in {"admitted", "checking"} =>
                    c.conn \in {"admitted", "checking"} \/ transport = "hub"
  <1>5. ASSUME NEW x, Only(d, x), Kept(x) PROVE TypeInv' /\ LiveInv'
    BY <1>5, OnlyKeeps
  <1>6. CASE Edit(d)
    <2> DEFINE x == [c EXCEPT !.queue = @ + 1]
    <2>1. x \in DeviceState /\ x.queue = c.queue + 1 /\ x.sent = c.sent /\ x.conn = c.conn
      BY <1>2 DEF DeviceState
    <2>2. Good(x)
      BY <1>2, <2>1 DEF Good
    <2> HIDE DEF x
    <2>3. Only(d, Flush(x, "batch"))
      BY <1>6 DEF Edit, x
    <2> QED
      BY <1>5, <2>1, <2>2, <2>3, FlushGood
  <1>7. CASE GoOnline(d)
    <2> DEFINE x == [c EXCEPT !.online = TRUE]
    <2>1. Good(x) /\ x.conn = c.conn
      BY <1>1 DEF Good, DeviceState
    <2> HIDE DEF x
    <2>2. Only(d, Flush(x, "any"))
      BY <1>7 DEF GoOnline, x
    <2> QED
      BY <1>5, <2>1, <2>2, FlushGood
  <1>8. CASE Refresh(d)
    <2> DEFINE x == [c EXCEPT !.active = Member(UserOf[d])]
    <2>1. Good(x) /\ x.conn = c.conn
      BY <1>1 DEF Good, DeviceState, Member, TypeInv, TypeOK, Server
    <2> QED
      BY <1>5, <1>8, <2>1 DEF Refresh
  <1>9. CASE Start(d)
    <2> DEFINE x == [c EXCEPT !.conn = "asking", !.start = c.base + c.queue,
                              !.seen = <<c.access, c.base + c.queue>>]
    <2>1. c.base + c.queue \in Nat /\ <<c.access, c.base + c.queue>> \in Nat \X Nat
      BY <1>2
    <2>2. Good(x) /\ x.conn = "asking"
      BY <1>1, <2>1 DEF Good, DeviceState, Stage
    <2> QED
      BY <1>5, <1>9, <2>2 DEF Start
  <1>10. CASE Stop(d)
    <2>1. Good(Leave(c, "off")) /\ Leave(c, "off").conn = "off"
      BY <1>1, LeaveGood DEF Stage
    <2> DEFINE l == Leave(c, "off")
               x == [l EXCEPT !.hint = FALSE, !.start = 0, !.seen = <<0, 0>>]
    <2> HIDE DEF l
    <2>2. Good(x) /\ x.conn = "off"
      BY <2>1 DEF Good, DeviceState, l
    <2>3. Only(d, x)
      BY <1>10 DEF Stop, l
    <2> QED
      BY <1>5, <2>2, <2>3
  <1>11. CASE Reconnect(d)
    <2> DEFINE x == [c EXCEPT !.conn = "asking"]
    <2>1. Good(x) /\ x.conn = "asking"
      BY <1>1 DEF Good, DeviceState, Stage
    <2> QED
      BY <1>5, <1>11, <2>1 DEF Reconnect
  <1>12. CASE TakeHint(d)
    <2> DEFINE x == [c EXCEPT !.hint = FALSE]
    <2>1. Good(x) /\ x.conn = c.conn
      BY <1>1 DEF Good, DeviceState
    <2> HIDE DEF x
    <2>2. Only(d, Flush(x, "any"))
      BY <1>12 DEF TakeHint, x
    <2> QED
      BY <1>5, <2>1, <2>2, FlushGood
  <1>13. CASE Retry(d)
    <2> DEFINE x == [c EXCEPT !.retry = FALSE]
    <2>1. Good(x) /\ x.conn = c.conn
      BY <1>1 DEF Good, DeviceState
    <2> HIDE DEF x
    <2>2. Only(d, Flush(x, "batch"))
      BY <1>13 DEF Retry, x
    <2> QED
      BY <1>5, <2>1, <2>2, FlushGood
  <1>14. CASE Settle(d)
    <2>1. c.answer.kind \in {"ok", "refused", "busy"}
          /\ c.answer.revision \in Nat /\ c.answer.access \in Nat
      BY <1>2, <1>14 DEF Settle, DeviceState, Answer
    <2>2. Larger(c.base, c.answer.revision) \in Nat
          /\ Larger(c.access, c.answer.access) \in Nat
      BY <1>2, <2>1, LargerNat
    <2>3. c.queue - c.sent \in Nat
      BY <1>2
    <2> DEFINE ok == [c EXCEPT !.base = Larger(@, c.answer.revision),
                        !.access = Larger(@, c.answer.access), !.active = TRUE,
                        !.queue = @ - c.sent, !.retry = FALSE, !.failed = FALSE]
               no == [c EXCEPT !.active = FALSE, !.queue = @ - c.sent, !.retry = FALSE]
               busy == [c EXCEPT !.retry = TRUE, !.failed = TRUE]
    <2>4. ok \in DeviceState /\ ok.conn = c.conn
      BY <1>2, <2>2, <2>3 DEF DeviceState
    <2>5. no \in DeviceState /\ no.conn = c.conn
      BY <1>2, <2>3 DEF DeviceState
    <2>6. busy \in DeviceState /\ busy.conn = c.conn
      BY <1>2 DEF DeviceState
    <2> HIDE DEF ok, no, busy
    <2>7. Only(d, EndFlush(ok)) \/ Only(d, EndFlush(no)) \/ Only(d, EndFlush(busy))
      BY <1>14, <2>1 DEF Settle, ok, no, busy
    <2> QED
      BY <1>5, <2>4, <2>5, <2>6, <2>7, EndFlushGood
  <1>15. CASE Capability(d)
    <2> DEFINE x == [c EXCEPT !.conn = "asked", !.known = Read]
               m == Message("ready", server.access, server.revision)
    <2>1. Good(x) /\ x.conn = "asked"
      BY <1>1, <1>3 DEF Good, DeviceState, Stage, Read
    <2>2. Good(Leave(c, "dead")) /\ Leave(c, "dead").conn = "dead"
      BY <1>1, LeaveGood DEF Stage
    <2>3. Good(Refused(c)) /\ Refused(c).conn = "dead"
      BY <2>2, FlushGood DEF Refused
    <2>4. Good(Hear(x, m)) /\ Hear(x, m).conn = "asked"
      BY <1>3, <2>1, HearGood
    <2> HIDE DEF x, m
    <2>5. Only(d, Hear(x, m)) \/ Only(d, Refused(c))
      BY <1>15 DEF Capability, x, m
    <2> QED
      BY <1>5, <2>3, <2>4, <2>5
  <1>16. CASE Connect(d)
    <2>1. Good(Leave(c, "open")) /\ Good(Leave(c, "waiting"))
          /\ Leave(c, "waiting").conn = "waiting" /\ Leave(c, "open").conn = "open"
      BY <1>1, LeaveGood DEF Stage
    <2> DEFINE cap == [access |-> c.known[1], revision |-> c.known[2]]
               a == Larger(room.access, cap.access)
               r == Larger(room.revision, cap.revision)
    <2>2. a \in Nat /\ r \in Nat
      BY <1>2, <1>4, LargerNat
    <2> HIDE DEF a, r
    <2>3. Good(Hear(Leave(c, "open"), Message("ready", a, r)))
          /\ Hear(Leave(c, "open"), Message("ready", a, r)).conn = "open"
      BY <2>1, <2>2, HearGood
    <2>4. CASE MayListen(room, cap, UserOf[d])
      <3>1. Only(d, Hear(Leave(c, "open"), Message("ready", a, r)))
        BY <1>16, <2>4 DEF Connect, Ready, a, r
      <3>2. Admissible(d)
        BY <1>16, <2>4 DEF Connect, MayListen, Admissible
      <3> QED
        BY <1>5, <2>3, <3>1, <3>2
    <2>5. CASE ~ MayListen(room, cap, UserOf[d])
      <3>1. Only(d, Leave(c, "waiting"))
        BY <1>16, <2>5 DEF Connect
      <3> QED
        BY <1>5, <2>1, <3>1
    <2> QED
      BY <2>4, <2>5
  <1>17. CASE OpenStream(d)
    <2> DEFINE x == [c EXCEPT !.conn = "admitted", !.known = Read]
    <2>1. Good(x) /\ x.conn = "admitted"
      BY <1>1, <1>3 DEF Good, DeviceState, Stage, Read
    <2>2. Good(Leave(c, "dead")) /\ Leave(c, "dead").conn = "dead"
      BY <1>1, LeaveGood DEF Stage
    <2>3. Good(Refused(c)) /\ Refused(c).conn = "dead"
      BY <2>2, FlushGood DEF Refused
    <2>4. transport = "hub" /\ (Only(d, x) \/ Only(d, Refused(c)))
      BY <1>17 DEF OpenStream
    <2> HIDE DEF x
    <2> QED
      BY <1>5, <2>1, <2>3, <2>4
  <1>18. CASE Subscribe(d)
    <2> DEFINE x == [c EXCEPT !.conn = "checking"]
    <2>1. Good(x) /\ x.conn = "checking"
      BY <1>1 DEF Good, DeviceState, Stage
    <2>2. Only(d, x) /\ c.conn = "admitted"
      BY <1>18 DEF Subscribe
    <2> HIDE DEF x
    <2> QED
      BY <1>5, <2>1, <2>2
  <1>19. CASE Recheck(d)
    <2>1. CASE Member(UserOf[d])
      <3> DEFINE x == [c EXCEPT !.conn = "open", !.known = <<@[1], 0>>]
                 m == Message("ready", server.access, server.revision)
      <3>a. <<c.known[1], 0>> \in Nat \X Nat
        BY <1>2
      <3>b. x = [c EXCEPT !.conn = "open", !.known = <<c.known[1], 0>>]
        BY <1>2 DEF DeviceState
      <3>c. [c EXCEPT !.conn = "open", !.known = <<c.known[1], 0>>] \in DeviceState
        BY <1>2, <3>a DEF DeviceState, Stage
      <3>d. x.sent = c.sent /\ x.queue = c.queue /\ x.conn = "open"
        BY <1>2 DEF DeviceState
      <3>1. Good(x)
        BY <1>2, <3>b, <3>c, <3>d DEF Good
      <3>3. Only(d, Hear(x, m))
        BY <1>19, <2>1 DEF Recheck
      <3> HIDE DEF x
      <3>2. Good(Hear(x, m)) /\ Hear(x, m).conn = "open"
        BY <1>3, <3>1, <3>d, HearGood
      <3>4. Admissible(d)
        BY <1>19, <2>1 DEF Recheck, Admissible, LiveInv, StreamsOnHub
      <3> QED
        BY <1>5, <3>2, <3>3, <3>4
    <2>2. CASE ~ Member(UserOf[d])
      <3> DEFINE m == Message("access", c.known[1], c.known[2])
      <3>1. c.known[1] \in Nat /\ c.known[2] \in Nat
        BY <1>2
      <3>2. <<m, End>> \in Mail(m)
        BY DEF Mail
      <3>3. Good(HearAll(c, <<m, End>>)) /\ HearAll(c, <<m, End>>).conn = "waiting"
        BY <1>1, <3>1, <3>2, HearAllGood
      <3>4. Only(d, HearAll(c, <<m, End>>))
        BY <1>19, <2>2 DEF Recheck
      <3> QED
        BY <1>5, <3>3, <3>4
    <2> QED
      BY <2>1, <2>2
  <1> QED
    BY <1>6, <1>7, <1>8, <1>9, <1>10, <1>11, <1>12, <1>13, <1>14, <1>15, <1>16,
       <1>17, <1>18, <1>19 DEF DeviceStep, ConnectionStep

-----------------------------------------------------------------------------
(* Steps of the server and of the network. *)

\* Neither what the server keeps nor the room changed, no connection opened,
\* and what was on its way still is.
LEMMA QuietKeeps ==
  ASSUME TypeInv, LiveInv,
         UNCHANGED <<transport, room, bound>>,
         server' \in Server, server'.access = server.access,
         server'.members = server.members, server'.deleted = server.deleted,
         server'.revision >= server.revision,
         owed' \subseteq Owed, owed \subseteq owed',
         notes' \subseteq notes, OnItsWay => OnItsWay' \/ (lost' /\ transport = "relay"),
         lost' \in BOOLEAN, lost => lost', faults' \in 0..bound.faults,
         device' \in [Device -> DeviceState],
         \A d \in Device :
           /\ device'[d].sent <= device'[d].queue
           /\ device'[d].conn \in {device[d].conn, "waiting"}
  PROVE  TypeInv' /\ LiveInv'
  <1> USE DEF TypeInv, LiveInv
  <1>1. server.revision \in Nat /\ server'.revision \in Nat
    BY DEF TypeOK, Server
  <1>2. \A k \in 0..server.revision : k \in 0..server'.revision
    BY <1>1
  <1>3. room = EmptyRoom \/ room \in [access : 0..bound.access, allowed : SUBSET User,
                  deleted : BOOLEAN, revision : 0..server'.revision]
    BY <1>2 DEF TypeOK
  <1>4. TypeOK'
    BY <1>3 DEF TypeOK
  <1>5. SendsWhatWaits' /\ AccessBounded' /\ RoomFollows' /\ AllAtFirst'
    BY DEF SendsWhatWaits, AccessBounded, RoomFollows, RoomIsTrue, AllAtFirst
  <1>6. NotesTell'
    <2> SUFFICES ASSUME NEW n \in notes
                 PROVE  /\ n.access <= server.access
                        /\ n.revision <= server'.revision
                        /\ n.access = server.access =>
                             n.allowed = server.members /\ n.deleted = server.deleted
      BY DEF NotesTell
    <2>1. n.revision \in Nat
      BY DEF TypeOK, Note
    <2> QED
      BY <1>1, <2>1 DEF NotesTell
  <1>7. RoomHolds' /\ StreamsOnHub'
    BY DEF RoomHolds, StreamsOnHub
  <1>8. RoomIsTold'
    BY DEF RoomIsTold
  <1>9. HubIsTold'
    BY DEF HubIsTold, Member
  <1> QED
    BY <1>4, <1>5, <1>6, <1>7, <1>8, <1>9

\* Requests are served and answered, edits made elsewhere, and things fail.
LEMMA ServerKeeps ==
  ASSUME TypeInv, LiveInv,
         \/ \E d \in Device : Serve(d) \/ Reply(d)
         \/ EditElsewhere
         \/ Failure
  PROVE  TypeInv' /\ LiveInv'
  <1>1. /\ server \in Server /\ owed \subseteq Owed /\ device \in [Device -> DeviceState]
        /\ faults \in 0..bound.faults /\ bound \in Bounds /\ lost \in BOOLEAN
    BY DEF TypeInv, TypeOK
  <1>2. server.revision \in Nat /\ server.access \in Nat /\ faults \in Nat
        /\ bound.faults \in Nat
    BY <1>1, LiveAssumption DEF Server
  <1>3. \A d \in Device : Good(device[d])
    BY DEF TypeInv, TypeOK, SendsWhatWaits, Good
  <1>4. ASSUME NEW source \in Device \cup {Elsewhere}, NEW prior \in Nat,
               Owe(source, prior, server.access)
        PROVE  owed' \subseteq Owed /\ owed \subseteq owed'
    BY <1>1, <1>2, <1>4 DEF Owe, Owed
  <1>5. ASSUME UNCHANGED server, owed \subseteq owed', UNCHANGED notes, OnItsWay
        PROVE  OnItsWay'
    BY <1>5 DEF OnItsWay
  <1>6. Fault => faults' \in 0..bound.faults
    BY <1>2 DEF Fault
  <1>7. \A d \in Device : device[d].prior \in Nat
    BY <1>1 DEF DeviceState
  <1>8. ASSUME NEW d \in Device, NEW c, Good(c), c.conn \in {device[d].conn, "waiting"},
               device' = [device EXCEPT ![d] = c]
        PROVE  /\ device' \in [Device -> DeviceState]
               /\ \A e \in Device :
                    /\ device'[e].sent <= device'[e].queue
                    /\ device'[e].conn \in {device[e].conn, "waiting"}
    <2>1. \A e \in Device : device'[e] = IF e = d THEN c ELSE device[e]
      BY <1>1, <1>8
    <2>2. device' \in [Device -> DeviceState]
      BY <1>1, <1>8 DEF Good
    <2> QED
      BY <1>3, <1>8, <2>1, <2>2 DEF Good
  <1>9. UNCHANGED device =>
          \A e \in Device : /\ device'[e].sent <= device'[e].queue
                            /\ device'[e].conn \in {device[e].conn, "waiting"}
    BY <1>3 DEF Good
  <1> DEFINE Silent == /\ UNCHANGED <<transport, room, bound, server, notes, lost>>
                       /\ owed' \subseteq Owed /\ owed \subseteq owed'
                       /\ faults' \in 0..bound.faults
  <1>16. ASSUME Silent, NEW d \in Device, NEW c, Good(c),
                c.conn \in {device[d].conn, "waiting"},
                device' = [device EXCEPT ![d] = c]
         PROVE  TypeInv' /\ LiveInv'
    <2>1. /\ server' \in Server /\ server'.access = server.access
          /\ server'.members = server.members /\ server'.deleted = server.deleted
          /\ server'.revision >= server.revision
          /\ lost' \in BOOLEAN /\ (lost => lost') /\ notes' \subseteq notes
          /\ UNCHANGED <<transport, room, bound>>
          /\ owed' \subseteq Owed /\ owed \subseteq owed'
          /\ faults' \in 0..bound.faults
      BY <1>1, <1>2, <1>16
    <2>2. OnItsWay => OnItsWay'
      BY <1>5, <1>16
    <2>3. /\ device' \in [Device -> DeviceState]
          /\ \A e \in Device :
               /\ device'[e].sent <= device'[e].queue
               /\ device'[e].conn \in {device[e].conn, "waiting"}
      BY <1>8, <1>16
    <2> HIDE DEF Silent, OnItsWay, TypeInv, LiveInv
    <2> QED
      BY <2>1, <2>2, <2>3, QuietKeeps
  <1> HIDE DEF Silent
  <1>10. ASSUME NEW d \in Device, Serve(d) PROVE TypeInv' /\ LiveInv'
    <2> DEFINE c == device[d]
               x == [c EXCEPT !.flush = "served", !.prior = server.revision]
               y == [c EXCEPT !.answer.kind = "refused"]
    <2>1. c.sent \in Nat
      BY <1>1 DEF DeviceState
    <2>2. Good(x) /\ x.conn = c.conn
      BY <1>2, <1>3 DEF Good, DeviceState
    <2>3. [c.answer EXCEPT !.kind = "refused"] \in Answer
      BY <1>1 DEF DeviceState, Answer
    <2>4. Good(y) /\ y.conn = c.conn
      BY <1>3, <2>3 DEF Good, DeviceState
    <2>5. CASE Member(UserOf[d])
      <3>1. PICK k \in 0..c.sent :
              /\ server' = [server EXCEPT !.revision = @ + k]
              /\ device' = [device EXCEPT ![d].flush = "served",
                                         ![d].prior = server.revision]
        BY <1>10, <2>5 DEF Serve
      <3>2. device' = [device EXCEPT ![d] = x]
        BY <1>1, <3>1
      <3>3. /\ server' \in Server /\ server'.access = server.access
            /\ server'.members = server.members /\ server'.deleted = server.deleted
            /\ server'.revision >= server.revision
        BY <1>1, <1>2, <2>1, <3>1 DEF Server
      <3> HIDE DEF x, c
      <3>4. UNCHANGED <<transport, room, bound, owed, notes, lost, faults>>
        BY <1>10 DEF Serve
      <3>5. OnItsWay => OnItsWay'
        BY <3>3, <3>4 DEF OnItsWay
      <3> QED
        BY <1>1, <1>8, <2>2, <3>2, <3>3, <3>4, <3>5, QuietKeeps DEF c
    <2>6. CASE ~ Member(UserOf[d])
      <3>1. device' = [device EXCEPT ![d] = y]
        BY <1>1, <1>10, <2>6 DEF Serve
      <3>2. UNCHANGED <<transport, room, bound, server, owed, notes, lost, faults>>
        BY <1>10, <2>6 DEF Serve
      <3> HIDE DEF y
      <3> QED
        BY <1>1, <1>16, <2>4, <3>1, <3>2 DEF Silent
    <2> QED
      BY <2>5, <2>6
  <1>11. ASSUME NEW d \in Device, Reply(d) PROVE TypeInv' /\ LiveInv'
    <2> DEFINE c == device[d]
               answer == [kind |-> "ok", access |-> server.access,
                          revision |-> server.revision]
               x == [c EXCEPT !.answer = answer]
               y == [c EXCEPT !.answer.kind = "refused"]
    <2>1. answer \in Answer
      BY <1>2 DEF Answer
    <2>2. Good(x) /\ x.conn = c.conn
      BY <1>3, <2>1 DEF Good, DeviceState
    <2>3. [c.answer EXCEPT !.kind = "refused"] \in Answer
      BY <1>1 DEF DeviceState, Answer
    <2>4. Good(y) /\ y.conn = c.conn
      BY <1>3, <2>3 DEF Good, DeviceState
    <2>5. device' = [device EXCEPT ![d] = x] \/ device' = [device EXCEPT ![d] = y]
      BY <1>1, <1>11 DEF Reply
    <2> HIDE DEF x, y, c, answer
    <2>6. owed' \subseteq Owed /\ owed \subseteq owed'
      BY <1>1, <1>4, <1>7, <1>11 DEF Reply
    <2>7. UNCHANGED <<transport, room, bound, server, notes, lost, faults>>
      BY <1>11 DEF Reply
    <2> QED
      BY <1>1, <1>16, <2>2, <2>4, <2>5, <2>6, <2>7 DEF c, Silent
  <1>12. CASE EditElsewhere
    <2>1. /\ server' \in Server /\ server'.access = server.access
          /\ server'.members = server.members /\ server'.deleted = server.deleted
          /\ server'.revision >= server.revision
      BY <1>1, <1>2, <1>12 DEF EditElsewhere, Server
    <2>2. owed' \subseteq Owed /\ owed \subseteq owed'
      BY <1>2, <1>4, <1>12 DEF EditElsewhere
    <2>3. UNCHANGED <<transport, room, bound, notes, device, lost, faults>>
      BY <1>12 DEF EditElsewhere
    <2>4. OnItsWay => OnItsWay'
      BY <2>1, <2>2, <2>3 DEF OnItsWay
    <2> QED
      BY <1>1, <1>9, <2>1, <2>2, <2>3, <2>4, QuietKeeps
  <1>13. ASSUME NEW d \in Device, GoOffline(d) \/ Busy(d) \/ Break(d)
         PROVE  TypeInv' /\ LiveInv'
    <2> DEFINE c == device[d]
               x == [c EXCEPT !.online = FALSE]
               y == [c EXCEPT !.answer.kind = "busy"]
    <2>1. Good(x) /\ x.conn = c.conn
      BY <1>3 DEF Good, DeviceState
    <2>2. [c.answer EXCEPT !.kind = "busy"] \in Answer
      BY <1>1 DEF DeviceState, Answer
    <2>3. Good(y) /\ y.conn = c.conn
      BY <1>3, <2>2 DEF Good, DeviceState
    <2>4. Good(Leave(c, "waiting")) /\ Leave(c, "waiting").conn = "waiting"
      BY <1>3, LeaveGood DEF Stage
    <2>5. \/ device' = [device EXCEPT ![d] = x]
          \/ device' = [device EXCEPT ![d] = y]
          \/ device' = [device EXCEPT ![d] = Leave(c, "waiting")]
      BY <1>1, <1>13 DEF GoOffline, Busy, Break
    <2> HIDE DEF x, y, c
    <2>6. UNCHANGED <<transport, room, bound, server, owed, notes, lost>> /\ Fault
      BY <1>13 DEF GoOffline, Busy, Break
    <2> QED
      BY <1>1, <1>6, <1>16, <2>1, <2>3, <2>4, <2>5, <2>6 DEF c, Silent
  <1>14. ASSUME NEW d \in Device, Fail(d) PROVE TypeInv' /\ LiveInv'
    <2> DEFINE x == [device[d] EXCEPT !.failed = TRUE]
    <2>0. device[d] \in DeviceState
      BY <1>1
    <2>1. x \in DeviceState /\ x.conn = device[d].conn
      BY <2>0 DEF DeviceState
    <2>2. device' = [device EXCEPT ![d] = EndFlush(x)]
      BY <1>14 DEF Fail
    <2> HIDE DEF x
    <2>3. Good(EndFlush(x)) /\ EndFlush(x).conn = device[d].conn
      BY <2>1, EndFlushGood
    <2>4. owed' \subseteq Owed /\ owed \subseteq owed'
      BY <1>1, <1>4, <1>7, <1>14 DEF Fail
    <2>5. UNCHANGED <<transport, room, bound, server, notes, lost>> /\ Fault
      BY <1>14 DEF Fail
    <2> QED
      BY <1>6, <1>16, <2>2, <2>3, <2>4, <2>5 DEF Silent
  <1>15. ASSUME NEW n \in notes, Lose(n) PROVE TypeInv' /\ LiveInv'
    <2>1. /\ UNCHANGED <<transport, room, bound, server, owed, device>>
          /\ Fault /\ lost' = TRUE /\ transport = "relay" /\ notes' \subseteq notes
      BY <1>15 DEF Lose
    <2>2. \A e \in Device : /\ device'[e].sent <= device'[e].queue
                            /\ device'[e].conn \in {device[e].conn, "waiting"}
      BY <1>9, <2>1
    <2>3. faults' \in 0..bound.faults
      BY <1>6, <2>1
    <2>4. lost' /\ lost' \in BOOLEAN /\ (lost => lost')
          /\ (OnItsWay => OnItsWay' \/ (lost' /\ transport = "relay"))
      BY <2>1
    <2>5. /\ server' \in Server /\ server'.access = server.access
          /\ server'.members = server.members /\ server'.deleted = server.deleted
          /\ server'.revision >= server.revision
          /\ owed' \subseteq Owed /\ owed \subseteq owed'
          /\ device' \in [Device -> DeviceState]
      BY <1>1, <1>2, <2>1
    <2>6. UNCHANGED <<transport, room, bound>> /\ notes' \subseteq notes
      BY <2>1
    <2> HIDE DEF OnItsWay, TypeInv, LiveInv
    <2> QED
      BY <2>2, <2>3, <2>4, <2>5, <2>6, QuietKeeps
  <1> QED
    BY <1>10, <1>11, <1>12, <1>13, <1>14, <1>15 DEF Failure

\* A change of members: its notification is owed, and every earlier one is of an
\* earlier access.
LEMMA ChangeMembersKeeps ==
  ASSUME TypeInv, LiveInv, NEW u \in User, ChangeMembers(u)
  PROVE  TypeInv' /\ LiveInv'
  <1> USE DEF TypeInv, LiveInv
  <1>1. /\ server \in Server /\ owed \subseteq Owed /\ notes \subseteq Note
        /\ bound \in Bounds
    BY DEF TypeOK
  <1>2. server.access \in Nat /\ server.revision \in Nat /\ bound.access \in Nat
        /\ server.access < bound.access /\ ~ server.deleted
    BY <1>1, LiveAssumption DEF Server, ChangeMembers
  <1>3. /\ server' \in Server /\ server'.access = server.access + 1
        /\ server'.revision = server.revision /\ server'.deleted = server.deleted
    <2>1. PICK M \in SUBSET User :
            server' = [server EXCEPT !.access = server.access + 1, !.members = M,
                                     !.deleted = server.deleted]
      <3> DEFINE M == IF u \in server.members THEN server.members \ {u}
                      ELSE server.members \cup {u}
      <3>1. M \in SUBSET User
        BY <1>1 DEF Server
      <3>2. server' = [server EXCEPT !.access = server.access + 1, !.members = M]
        BY DEF ChangeMembers
      <3>3. server' = [server EXCEPT !.access = server.access + 1, !.members = M,
                                     !.deleted = server.deleted]
        BY <1>1, <3>2 DEF Server
      <3> QED
        BY <3>1, <3>3
    <2>2. server.access + 1 \in Nat /\ server.deleted \in BOOLEAN /\ server \in Server
      BY <1>1, <1>2 DEF Server
    <2> HIDE DEF TypeInv, LiveInv
    <2>3. server' \in Server
      BY <2>1, <2>2 DEF Server
    <2>4. server'.access = server.access + 1 /\ server'.revision = server.revision
      BY <2>1, <2>2 DEF Server
    <2>5. server'.deleted = server.deleted
      BY <2>1, <2>2 DEF Server
    <2> QED
      BY <2>3, <2>4, <2>5
  <1>4. UNCHANGED <<bound, transport, notes, room, device, faults, lost>>
    BY DEF ChangeMembers
  <1>5. owed' \subseteq Owed /\ OnItsWay'
    <2> DEFINE o == [source |-> NoSource, prior |-> 0, at |-> server.access + 1]
    <2>1. o \in Owed
      BY <1>2 DEF Owed
    <2>2. owed' = owed \cup {o}
      BY DEF ChangeMembers, Owe
    <2> QED
      BY <1>1, <1>2, <1>3, <2>1, <2>2 DEF OnItsWay
  <1>6. TypeOK'
    BY <1>3, <1>4, <1>5 DEF TypeOK
  <1>7. SendsWhatWaits' /\ RoomHolds' /\ StreamsOnHub'
    BY <1>4 DEF SendsWhatWaits, RoomHolds, StreamsOnHub
  <1>8. AccessBounded' /\ AllAtFirst'
    BY <1>2, <1>3, <1>4 DEF AccessBounded, AllAtFirst
  <1>9. NotesTell'
    <2>1. \A n \in notes : n.access \in Nat /\ n.access <= server.access
                           /\ n.revision <= server.revision
      BY <1>1 DEF NotesTell, Note
    <2>2. \A n \in notes : n.access <= server'.access /\ n.access # server'.access
                           /\ n.revision <= server'.revision
      BY <1>2, <1>3, <2>1
    <2> QED
      BY <1>4, <2>2 DEF NotesTell
  <1>10. room.access <= server'.access /\ room.access # server'.access
    <2>1. room.access \in Nat
      BY <1>2 DEF TypeOK, EmptyRoom
    <2> QED
      BY <1>2, <1>3, <2>1 DEF RoomFollows
  <1>11. RoomFollows'
    BY <1>4, <1>10 DEF RoomFollows, RoomIsTrue
  <1>12. RoomIsTold' /\ HubIsTold'
    BY <1>5 DEF RoomIsTold, HubIsTold
  <1> QED
    BY <1>6, <1>7, <1>8, <1>9, <1>11, <1>12

\* The deletion takes an access revision of its own and is notified at once.
LEMMA DeleteKeeps ==
  ASSUME TypeInv, LiveInv, Delete
  PROVE  TypeInv' /\ LiveInv'
  <1> USE DEF TypeInv, LiveInv
  <1> DEFINE n == [access |-> server.access + 1, allowed |-> {},
                   revision |-> server.revision, deleted |-> TRUE,
                   source |-> NoSource]
  <1>1. /\ server \in Server /\ owed \subseteq Owed /\ notes \subseteq Note
        /\ bound \in Bounds
    BY DEF TypeOK
  <1>2. server.access \in Nat /\ server.revision \in Nat /\ bound.access \in Nat
        /\ server.access < bound.access
    BY <1>1, LiveAssumption DEF Server, Delete, Deletion
  <1>3. /\ server' \in Server /\ server'.access = server.access + 1
        /\ server'.revision = server.revision /\ server'.deleted = TRUE
        /\ server'.members = {}
    <2>1. server' = [server EXCEPT !.access = server.access + 1, !.members = {},
                                  !.deleted = TRUE]
      BY DEF Delete, Deletion
    <2>2. server.access + 1 \in Nat /\ {} \in SUBSET User /\ server \in Server
          /\ TRUE \in BOOLEAN
      BY <1>1, <1>2
    <2> HIDE DEF TypeInv, LiveInv
    <2>3. server' \in Server
      BY <2>1, <2>2 DEF Server
    <2>4. server'.access = server.access + 1 /\ server'.revision = server.revision
      BY <2>1, <2>2 DEF Server
    <2>5. server'.members = {} /\ server'.deleted = TRUE
      BY <2>1, <2>2 DEF Server
    <2> QED
      BY <2>3, <2>4, <2>5
  <1>4. UNCHANGED <<bound, transport, owed, room, device, faults, lost>>
    BY DEF Delete, Deletion
  <1>5. notes' = notes \cup {n} /\ n \in Note
    BY <1>2 DEF Note, Delete, Deletion
  <1>6. OnItsWay'
    BY <1>3, <1>5 DEF OnItsWay
  <1>7. TypeOK'
    BY <1>1, <1>3, <1>4, <1>5 DEF TypeOK
  <1>8. SendsWhatWaits' /\ RoomHolds' /\ StreamsOnHub'
    BY <1>4 DEF SendsWhatWaits, RoomHolds, StreamsOnHub
  <1>9. AccessBounded' /\ AllAtFirst'
    BY <1>2, <1>3, <1>4 DEF AccessBounded, AllAtFirst
  <1>10. NotesTell'
    <2>0. \A x \in notes : x.access \in Nat /\ x.access <= server.access
                           /\ x.revision <= server.revision
      BY <1>1 DEF NotesTell, Note
    <2>1. \A x \in notes : x.access <= server'.access /\ x.access # server'.access
                           /\ x.revision <= server'.revision
      BY <1>2, <1>3, <2>0
    <2>2. /\ n.access = server'.access /\ n.revision = server'.revision
          /\ n.allowed = server'.members /\ n.deleted = server'.deleted
      BY <1>3
    <2>3. n.access <= server'.access /\ n.revision <= server'.revision
      BY <1>2, <1>3, <2>2
    <2> HIDE DEF n
    <2> QED
      BY <1>5, <2>1, <2>2, <2>3 DEF NotesTell
  <1>11. room.access <= server'.access /\ room.access # server'.access
    <2>1. room.access \in Nat
      BY <1>2 DEF TypeOK, EmptyRoom
    <2> QED
      BY <1>2, <1>3, <2>1 DEF RoomFollows
  <1>12. RoomFollows'
    BY <1>4, <1>11 DEF RoomFollows, RoomIsTrue
  <1>13. RoomIsTold' /\ HubIsTold'
    BY <1>6 DEF RoomIsTold, HubIsTold
  <1> QED
    BY <1>7, <1>8, <1>9, <1>10, <1>12, <1>13

\* A notification tells what the workspace is when it is made.
LEMMA NotifyKeeps ==
  ASSUME TypeInv, LiveInv, NEW o, Notify(o)
  PROVE  TypeInv' /\ LiveInv'
  <1> USE DEF TypeInv, LiveInv
  <1> DEFINE n == [access |-> server.access, allowed |-> server.members,
                   revision |-> server.revision, deleted |-> FALSE,
                   source |-> o.source]
  <1>1. /\ server \in Server /\ owed \subseteq Owed /\ notes \subseteq Note
        /\ o \in owed /\ o \in Owed
    BY DEF TypeOK, Notify
  <1>2. server.access \in Nat /\ server.revision \in Nat
    BY <1>1 DEF Server
  <1>3. UNCHANGED <<bound, transport, server, room, device, faults, lost>>
        /\ owed' = owed \ {o}
    BY DEF Notify
  <1>4. n \in Note
    BY <1>1, <1>2 DEF Note, Owed, Server
  <1>5. notes' = notes \/ (notes' = notes \cup {n} /\ ~ server.deleted)
    BY DEF Notify
  <1>6. OnItsWay => OnItsWay'
    <2>1. CASE \E x \in notes : x.access = server.access
      BY <1>3, <1>5, <2>1 DEF OnItsWay
    <2>2. CASE ~ server.deleted /\ \E p \in owed : p.source = NoSource /\ p.at = server.access
      <3>1. PICK p \in owed : p.source = NoSource /\ p.at = server.access
        BY <2>2
      <3>2. CASE p # o
        BY <1>3, <2>2, <3>1, <3>2 DEF OnItsWay
      <3>3. CASE p = o
        <4>0. o.source = NoSource /\ o.source # Elsewhere
          BY <3>1, <3>3, LiveAssumption
        <4>1. notes' = notes \cup {n}
          BY <2>2, <4>0 DEF Notify, Unannounced
        <4>2. n \in notes' /\ n.access = server'.access
          BY <1>3, <4>1
        <4> HIDE DEF n
        <4> QED
          BY <4>2 DEF OnItsWay
      <3> QED
        BY <3>2, <3>3
    <2> QED
      BY <2>1, <2>2 DEF OnItsWay
  <1>7. NotesTell'
    <2>1. /\ n.access = server.access /\ n.revision = server.revision
          /\ n.allowed = server.members /\ n.deleted = FALSE
      OBVIOUS
    <2>2. ~ server.deleted => server.deleted = FALSE
      BY <1>1 DEF Server
    <2>3. n.access <= server.access /\ n.revision <= server.revision
      BY <1>2
    <2>4. UNCHANGED server
      BY <1>3
    <2> HIDE DEF n
    <2> QED
      BY <1>5, <2>1, <2>2, <2>3, <2>4 DEF NotesTell
  <1> HIDE DEF n
  <1>8. TypeOK'
    BY <1>1, <1>3, <1>4, <1>5 DEF TypeOK
  <1>9. SendsWhatWaits' /\ RoomHolds' /\ StreamsOnHub' /\ AccessBounded'
        /\ AllAtFirst' /\ RoomFollows'
    BY <1>3 DEF SendsWhatWaits, RoomHolds, StreamsOnHub, AccessBounded, AllAtFirst,
                RoomFollows, RoomIsTrue
  <1>10. RoomIsTold' /\ HubIsTold'
    BY <1>3, <1>6 DEF RoomIsTold, HubIsTold, Member
  <1> QED
    BY <1>7, <1>8, <1>9, <1>10
-----------------------------------------------------------------------------
(* What is published. *)

\* Publishing takes a notification off its way: if the current access is no
\* longer on its way, it was this one that told it.
LEMMA TakenOff ==
  ASSUME NEW n \in notes, notes' = notes \ {n}, UNCHANGED <<server, owed>>,
         OnItsWay, ~ OnItsWay'
  PROVE  n.access = server.access
  BY DEF OnItsWay

\* The room takes a notification that is not older than it; who is still heard
\* is admitted, and what is current is true.
LEMMA PublishToRoomKeeps ==
  ASSUME TypeInv, LiveInv, NEW n, PublishToRoom(n)
  PROVE  TypeInv' /\ LiveInv'
  <1>1. /\ server \in Server /\ owed \subseteq Owed /\ notes \subseteq Note
        /\ bound \in Bounds /\ device \in [Device -> DeviceState]
        /\ faults \in 0..bound.faults /\ lost \in BOOLEAN
        /\ \/ room = EmptyRoom
           \/ room \in [access : 0..bound.access, allowed : SUBSET User,
                        deleted : BOOLEAN, revision : 0..server.revision]
    BY DEF TypeInv, TypeOK
  <1>2. server.access \in Nat /\ server.revision \in Nat /\ bound.access \in Nat
    BY <1>1, LiveAssumption DEF Server
  <1>3. /\ transport = "relay" /\ n \in notes /\ notes' = notes \ {n} /\ n \in Note
        /\ UNCHANGED <<bound, transport, server, owed, faults, lost>>
    BY <1>1 DEF PublishToRoom
  <1>4. \A d \in Device : Good(device[d])
    BY DEF TypeInv, TypeOK, SendsWhatWaits, Good
  <1>5. n.access \in Nat /\ n.revision \in Nat /\ n.access <= server.access
        /\ n.revision <= server.revision
    BY <1>3 DEF Note, NotesTell, TypeInv
  <1>6. room = EmptyRoom \/ room \in Room
    BY <1>1, <1>2 DEF Room
  <1>7. room.access \in Nat /\ room.revision \in Nat /\ room.access <= server.access
        /\ room.revision <= server.revision
    BY <1>1, <1>2, <1>6 DEF EmptyRoom, Room, TypeInv, RoomFollows
  <1>8. CASE Stale(room, n)
    <2>1. UNCHANGED <<room, device>>
      BY <1>8 DEF PublishToRoom
    <2>2. n.access # server.access
      BY <1>2, <1>5, <1>7, <1>8 DEF Stale
    <2>3. OnItsWay => OnItsWay'
      BY <1>3, <2>2, TakenOff
    <2>4. /\ server' \in Server /\ server'.access = server.access
          /\ server'.members = server.members /\ server'.deleted = server.deleted
          /\ server'.revision >= server.revision
          /\ owed' \subseteq Owed /\ owed \subseteq owed' /\ notes' \subseteq notes
          /\ UNCHANGED <<transport, room, bound>>
          /\ lost' \in BOOLEAN /\ (lost => lost') /\ faults' \in 0..bound.faults
          /\ device' \in [Device -> DeviceState]
      BY <1>1, <1>2, <1>3, <2>1
    <2>5. \A d \in Device : /\ device'[d].sent <= device'[d].queue
                            /\ device'[d].conn \in {device[d].conn, "waiting"}
      BY <1>4, <2>1 DEF Good
    <2> HIDE DEF OnItsWay, TypeInv, LiveInv
    <2> QED
      BY <2>3, <2>4, <2>5, QuietKeeps
  <1>9. CASE ~ Stale(room, n)
    <2> DEFINE next == NextRoom(room, n)
               mail(d) == RoomMail(room, n, UserOf[d], d)
    <2>1. room' = next /\ device' = [d \in Device |->
               IF device[d].conn = "open" THEN HearAll(device[d], mail(d))
               ELSE device[d]]
      BY <1>9 DEF PublishToRoom
    <2>2. /\ next \in Room /\ next.access = n.access
          /\ next.revision = Larger(room.revision, n.revision)
          /\ \/ next.allowed = n.allowed /\ next.deleted = n.deleted
             \/ /\ room \in Room /\ room.access = n.access
                /\ next.allowed = room.allowed /\ next.deleted = room.deleted
      BY <1>3, <1>6, <1>9, NextRoomIs
    <2>3. next.access \in Nat /\ next.revision \in Nat
      BY <2>2 DEF Room
    <2>4. next.revision <= server.revision
      BY <1>5, <1>7, <2>2 DEF Larger
    <2>5. ASSUME NEW d \in Device
          PROVE  /\ Good(device'[d])
                 /\ device'[d].conn = "open" =>
                      UserOf[d] \in next.allowed /\ ~ next.deleted
                 /\ device'[d].conn \in {device[d].conn, "waiting"}
      <3>1. CASE device[d].conn = "open"
        <4>1. PICK type \in {"deleted", "access", "change"} :
                /\ mail(d) \in Mail(Message(type, next.access, next.revision))
                /\ UserOf[d] \notin next.allowed \/ next.deleted =>
                     mail(d) = <<Message(type, next.access, next.revision), End>>
          BY <2>3, RoomMailIs
        <4> HIDE DEF next, mail
        <4>2. /\ Good(HearAll(device[d], mail(d)))
              /\ HearAll(device[d], mail(d)).conn =
                   IF mail(d) = <<Message(type, next.access, next.revision), End>>
                   THEN "waiting" ELSE device[d].conn
          BY <1>4, <2>3, <4>1, HearAllGood
        <4>3. device'[d] = HearAll(device[d], mail(d))
          BY <2>1, <3>1
        <4> QED
          BY <3>1, <4>1, <4>2, <4>3
      <3>2. CASE device[d].conn # "open"
        <4>1. device'[d] = device[d]
          BY <2>1, <3>2
        <4> QED
          BY <1>4, <3>2, <4>1
      <3> QED
        BY <3>1, <3>2
    <2>6. next.access = server.access =>
            next.allowed = server.members /\ next.deleted = server.deleted
      <3> SUFFICES ASSUME next.access = server.access
                   PROVE  next.allowed = server.members /\ next.deleted = server.deleted
        OBVIOUS
      <3>1. n.access = server.access
        BY <2>2
      <3>2. n.allowed = server.members /\ n.deleted = server.deleted
        BY <1>3, <3>1 DEF TypeInv, NotesTell
      <3>3. CASE room \in Room /\ room.access = n.access
        <4>1. room.allowed # Unset
          BY <3>3, LiveAssumption DEF Room
        <4>2. room.allowed = server.members /\ room.deleted = server.deleted
          BY <3>1, <3>3, <4>1 DEF TypeInv, RoomFollows, RoomIsTrue
        <4> HIDE DEF next
        <4> QED
          BY <2>2, <3>2, <4>2
      <3> HIDE DEF next
      <3> QED
        BY <2>2, <3>2, <3>3
    <2>7. RoomIsTold'
      <3> SUFFICES ASSUME ~ OnItsWay', ~ lost
                   PROVE  next.access = server.access
        BY <1>3, <2>1 DEF RoomIsTold
      <3>1. CASE OnItsWay
        BY <1>3, <2>2, <3>1, TakenOff
      <3>2. CASE room.access = server.access
        BY <1>2, <1>5, <1>7, <1>9, <2>2, <3>2 DEF Stale
      <3> QED
        BY <1>3, <3>1, <3>2 DEF LiveInv, RoomIsTold
    <2> HIDE DEF next, mail
    <2>8. room' \in [access : 0..bound.access, allowed : SUBSET User,
                     deleted : BOOLEAN, revision : 0..server.revision]
      <3>1. next.access \in 0..bound.access /\ next.revision \in 0..server.revision
        BY <1>2, <1>5, <2>2, <2>3, <2>4 DEF TypeInv, AccessBounded
      <3> QED
        BY <2>1, <2>2, <3>1 DEF Room
    <2>9. device' \in [Device -> DeviceState]
      <3>1. device' = [d \in Device |-> device'[d]]
        BY <2>1
      <3> QED
        BY <2>5, <3>1 DEF Good
    <2>10. TypeOK'
      BY <1>3, <2>8, <2>9 DEF TypeInv, TypeOK
    <2>11. SendsWhatWaits' /\ StreamsOnHub' /\ RoomHolds'
      BY <1>3, <2>1, <2>5 DEF Good, SendsWhatWaits, StreamsOnHub, RoomHolds, LiveInv
    <2>12. AccessBounded' /\ AllAtFirst' /\ NotesTell' /\ HubIsTold'
      BY <1>3 DEF TypeInv, LiveInv, AccessBounded, AllAtFirst, NotesTell, HubIsTold
    <2>13. RoomFollows'
      BY <1>3, <1>5, <2>1, <2>2, <2>6 DEF RoomFollows, RoomIsTrue
    <2> QED
      BY <2>7, <2>10, <2>11, <2>12, <2>13 DEF TypeInv, LiveInv
  <1> QED
    BY <1>8, <1>9

\* The hub ends whom the notification does not name; the others are members if
\* it is current, or hear of the current one later.
LEMMA PublishToHubKeeps ==
  ASSUME TypeInv, LiveInv, NEW n, PublishToHub(n)
  PROVE  TypeInv' /\ LiveInv'
  <1>1. /\ notes \subseteq Note /\ device \in [Device -> DeviceState]
        /\ server \in Server
    BY DEF TypeInv, TypeOK
  <1>2. /\ transport = "hub" /\ n \in notes /\ notes' = notes \ {n} /\ n \in Note
        /\ UNCHANGED <<bound, transport, server, owed, room, faults, lost>>
    BY <1>1 DEF PublishToHub
  <1> DEFINE mail(d) == HubMail(device[d].known[1], n, UserOf[d], d)
             told(d) == [device[d] EXCEPT !.known[1] = Larger(@, n.access)]
  <1>3. device' = [d \in Device |->
          IF device[d].conn \in {"checking", "open"} THEN HearAll(told(d), mail(d))
          ELSE device[d]]
    BY DEF PublishToHub
  <1>4. \A d \in Device : Good(device[d])
    BY DEF TypeInv, TypeOK, SendsWhatWaits, Good
  <1>5. n.access \in Nat /\ n.revision \in Nat
    BY <1>2 DEF Note
  <1>6. ASSUME NEW d \in Device
        PROVE  /\ Good(device'[d])
               /\ device'[d].conn \in {device[d].conn, "waiting"}
               /\ device'[d].conn = "open" => UserOf[d] \in n.allowed /\ ~ n.deleted
    <2>1. CASE device[d].conn \in {"checking", "open"}
      <3>1. PICK type \in {"deleted", "access", "change"} :
              /\ mail(d) \in Mail(Message(type, n.access, n.revision))
              /\ n.deleted \/ UserOf[d] \notin n.allowed =>
                   mail(d) = <<Message(type, n.access, n.revision), End>>
        BY <1>2, HubMailIs
      <3>2. device[d].known \in Nat \X Nat /\ device[d] \in DeviceState
        BY <1>4 DEF Good, DeviceState
      <3>3. Larger(device[d].known[1], n.access) \in Nat
        BY <1>5, <3>2, LargerNat
      <3>4. PICK k \in Nat \X Nat : told(d) = [device[d] EXCEPT !.known = k]
        <4>1. [device[d].known EXCEPT ![1] = Larger(@, n.access)] \in Nat \X Nat
          BY <3>2, <3>3
        <4> QED
          BY <3>2, <4>1 DEF DeviceState
      <3>5. Good(told(d)) /\ told(d).conn = device[d].conn
        <4> HIDE DEF told
        <4> QED
          BY <1>4, <3>4 DEF Good, DeviceState
      <3> HIDE DEF told, mail
      <3>6. /\ Good(HearAll(told(d), mail(d)))
            /\ HearAll(told(d), mail(d)).conn =
                 IF mail(d) = <<Message(type, n.access, n.revision), End>>
                 THEN "waiting" ELSE told(d).conn
        BY <1>5, <3>1, <3>5, HearAllGood
      <3>7. device'[d] = HearAll(told(d), mail(d))
        BY <1>3, <2>1
      <3> QED
        BY <3>1, <3>5, <3>6, <3>7
    <2>2. CASE device[d].conn \notin {"checking", "open"}
      <3>1. device'[d] = device[d]
        BY <1>3, <2>2
      <3> QED
        BY <1>4, <2>2, <3>1
    <2> QED
      BY <2>1, <2>2
  <1>7. device' \in [Device -> DeviceState]
    <2> HIDE DEF told, mail
    <2>1. device' = [d \in Device |-> device'[d]]
      BY <1>3
    <2> QED
      BY <1>6, <2>1 DEF Good
  <1> HIDE DEF told, mail
  <1>8. TypeOK'
    BY <1>2, <1>7 DEF TypeInv, TypeOK
  <1>9. SendsWhatWaits' /\ StreamsOnHub' /\ AccessBounded' /\ NotesTell' /\ RoomFollows'
    BY <1>2, <1>6 DEF TypeInv, LiveInv, Good, SendsWhatWaits, StreamsOnHub,
       AccessBounded, NotesTell, RoomFollows, RoomIsTrue
  <1>10. AllAtFirst' /\ RoomHolds' /\ RoomIsTold'
    BY <1>2 DEF LiveInv, AllAtFirst, RoomHolds, RoomIsTold
  <1>11. HubIsTold'
    <2> SUFFICES ASSUME NEW d \in Device, device'[d].conn = "open", ~ OnItsWay'
                 PROVE  Member(UserOf[d])
      BY <1>2 DEF HubIsTold, Member
    <2>1. device[d].conn = "open" /\ UserOf[d] \in n.allowed /\ ~ n.deleted
      BY <1>6
    <2>2. CASE OnItsWay
      <3>1. n.access = server.access
        BY <1>2, <2>2, TakenOff
      <3>2. n.allowed = server.members /\ n.deleted = server.deleted
        BY <1>2, <3>1 DEF TypeInv, NotesTell
      <3> QED
        BY <2>1, <3>2 DEF Member
    <2> QED
      BY <1>2, <2>1, <2>2 DEF LiveInv, HubIsTold
  <1> QED
    BY <1>8, <1>9, <1>10, <1>11 DEF TypeInv, LiveInv

-----------------------------------------------------------------------------
(* The invariant, and what follows from it. *)

\* At first nobody listens, nothing is owed and the room is empty.
LEMMA InitKeeps == Init => TypeInv /\ LiveInv
  <1> SUFFICES ASSUME Init PROVE TypeInv /\ LiveInv
    OBVIOUS
  <1>1. NoAnswer \in Answer
    BY DEF NoAnswer, Answer
  <1>2. \A d \in Device : /\ device[d].sent = 0 /\ device[d].queue = 0
                          /\ device[d].conn = "off"
    BY DEF Init
  <1>3. device \in [Device -> DeviceState]
    BY <1>1 DEF Init, DeviceState, Stage
  <1>4. bound \in Bounds /\ bound.access \in Nat /\ bound.faults \in Nat
    BY LiveAssumption DEF Init
  <1>5. server \in Server /\ server.access = 0 /\ server.revision = 0
        /\ server.members = User /\ ~ server.deleted
    BY DEF Init, Server
  <1>6. room = EmptyRoom /\ room.access = 0 /\ room.allowed = Unset
    BY DEF Init, EmptyRoom
  <1>7. TypeOK
    <2>1. /\ transport \in {"relay", "hub"} /\ owed = {} /\ notes = {}
          /\ faults = 0 /\ lost = FALSE
      BY DEF Init
    <2>2. 0 \in 0..bound.faults
      BY <1>4
    <2> QED
      BY <1>3, <1>4, <1>5, <1>6, <2>1, <2>2 DEF TypeOK
  <1>8. SendsWhatWaits /\ StreamsOnHub /\ RoomHolds /\ HubIsTold
    BY <1>2 DEF SendsWhatWaits, StreamsOnHub, RoomHolds, HubIsTold
  <1>9. AccessBounded /\ NotesTell /\ RoomFollows /\ AllAtFirst /\ RoomIsTold
    BY <1>4, <1>5, <1>6 DEF Init, AccessBounded, NotesTell, RoomFollows, RoomIsTrue,
       AllAtFirst, RoomIsTold
  <1> QED
    BY <1>7, <1>8, <1>9 DEF TypeInv, LiveInv

\* Every step of the devices, the server, the notifications and the network
\* keeps the invariant.
LEMMA NextKeeps == TypeInv /\ LiveInv /\ [Next]_vars => TypeInv' /\ LiveInv'
  <1> SUFFICES ASSUME TypeInv, LiveInv, [Next]_vars PROVE TypeInv' /\ LiveInv'
    OBVIOUS
  <1>1. CASE UNCHANGED vars
    BY <1>1 DEF vars, TypeInv, LiveInv, TypeOK, SendsWhatWaits, StreamsOnHub,
       RoomHolds, HubIsTold, AccessBounded, NotesTell, RoomFollows, RoomIsTrue,
       AllAtFirst, RoomIsTold, OnItsWay, Member
  <1>2. CASE \E d \in Device : \/ DeviceStep(d) \/ ConnectionStep(d)
                               \/ Edit(d) \/ GoOnline(d) \/ Refresh(d)
    BY <1>2, DeviceKeeps
  <1>3. CASE (\E d \in Device : Serve(d) \/ Reply(d)) \/ EditElsewhere \/ Failure
    BY <1>3, ServerKeeps
  <1>4. CASE Notification
    BY <1>4, NotifyKeeps, PublishToRoomKeeps, PublishToHubKeeps DEF Notification
  <1>5. CASE (\E u \in User : ChangeMembers(u)) \/ Delete
    BY <1>5, ChangeMembersKeeps, DeleteKeeps
  <1> QED
    BY <1>1, <1>2, <1>3, <1>4, <1>5 DEF Next, Environment

\* The invariant holds throughout.
LEMMA LiveInvariant == Spec => [](TypeInv /\ LiveInv)
  BY InitKeeps, NextKeeps, PTL DEF Spec

\* The variables have their types, for all devices, users, bounds and orders of
\* delivery.
THEOREM LiveTypes == Spec => []TypeOK
  <1>1. TypeInv /\ LiveInv => TypeOK
    BY DEF TypeInv
  <1> QED
    BY <1>1, LiveInvariant, PTL

\* The relay's room never takes what is out of date for the current access: a
\* late publish does not admit who was removed, or open a deleted workspace.
THEOREM RoomStaysTrue == Spec => []RoomIsTrue
  <1>1. TypeInv /\ LiveInv => RoomIsTrue
    BY DEF TypeInv, RoomFollows
  <1> QED
    BY <1>1, LiveInvariant, PTL

\* When all that was owed has been notified and nothing was lost, every listener
\* is a member: removals and deletions overlap connections, edits and each other
\* in any number and order.
THEOREM ListenersAreMembers == Spec => []OnlyMembersListen
  <1>1. TypeInv /\ LiveInv => OnlyMembersListen
    <2> SUFFICES ASSUME TypeInv, LiveInv, owed = {}, notes = {}, ~ lost,
                        NEW d \in Device, device[d].conn = "open"
                 PROVE  Member(UserOf[d])
      BY DEF OnlyMembersListen, Listening
    <2>1. ~ OnItsWay
      BY DEF OnItsWay
    <2>2. UserOf[d] \in User /\ transport \in {"relay", "hub"}
      BY LiveAssumption DEF TypeInv, TypeOK
    <2>3. CASE transport = "hub"
      BY <2>1, <2>3 DEF LiveInv, HubIsTold
    <2>4. CASE transport = "relay"
      <3>1. room.access = server.access
        BY <2>1, <2>4 DEF LiveInv, RoomIsTold
      <3>2. CASE room.allowed = Unset
        <4>1. room.access = 0
          BY <3>2, LiveAssumption DEF TypeInv, TypeOK, EmptyRoom
        <4> QED
          BY <2>2, <3>1, <4>1 DEF LiveInv, AllAtFirst, Member
      <3>3. CASE room.allowed # Unset
        <4>1. room.allowed = server.members /\ room.deleted = server.deleted
          BY <3>1, <3>3 DEF TypeInv, RoomFollows, RoomIsTrue
        <4>2. UserOf[d] \in room.allowed /\ ~ room.deleted
          BY <2>4, <3>3 DEF LiveInv, RoomHolds
        <4> QED
          BY <4>1, <4>2 DEF Member
      <3> QED
        BY <3>2, <3>3
    <2> QED
      BY <2>2, <2>3, <2>4
  <1> QED
    BY <1>1, LiveInvariant, PTL
=============================================================================
