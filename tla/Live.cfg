\* A member's device, edits, changes of access, and one fault.
SPECIFICATION Spec
CONSTANTS
  ann = ann  bob = bob  d1 = d1
  Unset = Unset  NoSource = NoSource  Elsewhere = elsewhere
  Device = {d1}
  User = {ann, bob}
  UserOf <- MCUserOf
  Bounds <- MCBounds
  MaxUnderway = 2
INVARIANTS OnlyMembersListen RoomIsTrue
PROPERTY EditsAppear
CHECK_DEADLOCK FALSE
