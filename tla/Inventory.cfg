SPECIFICATION Spec
CONSTANTS
  room = room
  shelf = shelf
  bin = bin
  box = box
  nook = nook
  spare = spare
  jar = jar
  tin = tin
  lamp = lamp
  extra = extra
  plan1 = plan1
  plan2 = plan2
  c1 = c1
  c2 = c2
  c3 = c3
  c4 = c4
  c5 = c5
  soup = soup
  tool = tool
  blank = blank
  high = high
  low = low
  Blank = blank
  NameOf <- MCNameOf
  Tables <- MCTables
  Mappings <- MCMappings
  Loc = {room, shelf, bin, box, nook, spare}
  Item = {jar, tin, lamp, extra}
  Plan = {plan1, plan2}
  Home = home
  Room = {room}
  Box = {box}
  Top = top
  Gone = gone
  Whole = whole
  Code = {c1, c2, c3, c4, c5}
  Kind = {soup, tool}
  ActivityLimit = 3
  PatchLimit = 7
  AuditLimit = 2
  ReceiptLimit = 2
  SizeLimit = 12
  Scope <- MCScope
  Route <- MCRoute
  Selections <- MCSelections
  MaxQty = 2
  MaxBatch = 2
INVARIANTS
  SoundInventory
  PlanMatchesUntilStarted
  AppliedHistoryExplains
  RecentEditsCanBeUndone
PROPERTIES
  CompactedAsNeeded
CHECK_DEADLOCK FALSE
