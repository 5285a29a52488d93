------------------------------ MODULE LiveRoom ------------------------------
(***************************************************************************)
(* What a live notification does to the listeners of one workspace.  The   *)
(* relay (worker/live-relay.ts) keeps a room: the newest revisions it was  *)
(* told of and the users it may admit.  The hub of a single process        *)
(* (live-notifications.ts) keeps nothing but its subscribers.  A           *)
(* notification carries one read of the database: access is its access     *)
(* revision, allowed the active members then, and source the connection    *)
(* whose edit it announces.                                                *)
(***************************************************************************)
EXTENDS Integers, Sequences

CONSTANTS
  Unset,   \* allowedUserIds of a room nobody has published to
  NoSource \* an announcement of a change of access

Larger(a, b) == IF a >= b THEN a ELSE b

Message(type, access, revision) ==
  [type |-> type, access |-> access, revision |-> revision]

\* The server ended the stream or closed the socket.
End == Message("end", 0, 0)

EmptyRoom == [access |-> 0, allowed |-> Unset, deleted |-> FALSE, revision |-> 0]

-----------------------------------------------------------------------------
(* The relay.  A publish reads the room, stores the next one and then uses *)
(* it; the platform lets no other event into the object meanwhile.         *)

\* Mutation of MayListen: whoever holds a capability is let in.
AnyoneListens(room, cap, user) == ~ room.deleted

\* A capability is a minute old at most, but the room may know better.
MayListen(room, cap, user) ==
  /\ ~ room.deleted
  /\ \/ room.allowed = Unset
     \/ cap.access >= room.access /\ user \in room.allowed

Ready(room, cap) ==
  Message("ready", Larger(room.access, cap.access),
          Larger(room.revision, cap.revision))

Stale(room, note) == note.access < room.access

AccessChanged(room, note) ==
  \/ note.access > room.access
  \/ room.allowed = Unset
  \/ note.deleted # room.deleted

NextRoom(room, note) ==
  LET changed == AccessChanged(room, note) IN
  [access |-> Larger(room.access, note.access),
   allowed |-> IF changed THEN note.allowed ELSE room.allowed,
   deleted |-> IF changed THEN note.deleted ELSE room.deleted,
   revision |-> Larger(room.revision, note.revision)]

\* What one listener is sent: its own edits are not announced to it.
RoomMail(room, note, user, connection) ==
  LET next == NextRoom(room, note) IN
  IF user \notin next.allowed \/ next.deleted
  THEN <<Message(IF next.deleted THEN "deleted" ELSE "access",
                 next.access, next.revision), End>>
  ELSE IF AccessChanged(room, note)
  THEN <<Message("access", next.access, next.revision)>>
  ELSE IF note.source = connection THEN <<>>
  ELSE <<Message("change", next.access, next.revision)>>

-----------------------------------------------------------------------------
(* The hub: a subscriber remembers the access revision it was told last.   *)

HubMail(known, note, user, connection) ==
  IF note.deleted
  THEN <<Message("deleted", note.access, note.revision), End>>
  ELSE IF user \notin note.allowed
  THEN <<Message("access", note.access, note.revision), End>>
  ELSE IF note.access > known
  THEN <<Message("access", note.access, note.revision)>>
  ELSE IF note.source = connection THEN <<>>
  ELSE <<Message("change", note.access, note.revision)>>
=============================================================================
