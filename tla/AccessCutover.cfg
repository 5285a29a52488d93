SPECIFICATION Spec
CONSTANTS
  idp = idp
  policy = policy
  app = app
  oldIdp = oldIdp
  newIdp = newIdp
  oldPolicy = oldPolicy
  newPolicy = newPolicy
  gate = gate
  foreign = foreign
  noId = noId
  noKey = noKey
  x0 = x0
  x1 = x1
  Id = {oldIdp, newIdp, oldPolicy, newPolicy, gate, foreign}
  Key = {idp, policy, app}
  Detachable = {oldPolicy}
  Extra = {x0, x1}
  IdKind <- MCIdKind
  KindOf <- MCKindOf
  Fits <- MCFits
  Needs <- MCNeeds
  Blocks <- MCBlocks
  Order <- MCOrder
  Path = {1, 2}
  ReadLimit = 2
  MaxRuns = 3
  MaxOthers = 1
INVARIANTS
  FilesAreTrue
  CutoverIsReady
  RollbackRestores
PROPERTIES
  OverwritesOnlyKnown
CHECK_DEADLOCK FALSE
