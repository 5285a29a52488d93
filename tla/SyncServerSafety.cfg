SPECIFICATION Spec
CONSTANTS
  ann = ann
  bob = bob
  e1 = e1
  e2 = e2
  e3 = e3
  f = f
  g = g
  blank = blank
  r1 = r1
  r2 = r2
  Account <- MCAccount
  Edit = {e1, e2, e3}
  Field = {f, g}
  Value = {e1, e2, e3, blank}
  Blank = blank
  Restored = restored
  NoBasis = noBasis
  LedgerLimit = 2
  RecordQuota = 2
  Request = {r1, r2}
  NoAccount = noAccount
  InitialRole <- MCInitialRole
  Batch <- MCBatch
  MaxAttempts = 2
  MaxLog = 2
  MaxAccessRevision = 1
  MaxMembershipRevision = 1
INVARIANTS
  StoreExplainedByLog
  NoBlindOverwrite
  AppliedOnce
  ReceiptsAreTrue
PROPERTY KeepsPromise
SYMMETRY MCSlots
CHECK_DEADLOCK FALSE
