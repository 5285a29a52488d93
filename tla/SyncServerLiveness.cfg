SPECIFICATION FairSpec
CONSTANTS
  ann = ann
  bob = bob
  e1 = e1
  e2 = e2
  e3 = e3
  f = f
  g = g
  blank = blank
  r1 = r1
  r2 = r2
  Account <- MCAccount
  Edit = {e1, e2, e3}
  Field = {f, g}
  Value = {e1, e2, e3, blank}
  Blank = blank
  Restored = restored
  NoBasis = noBasis
  LedgerLimit = 1
  RecordQuota = 1
  Request = {r1, r2}
  NoAccount = noAccount
  InitialRole <- MCInitialRole
  Batch <- MCBatch
  MaxAttempts = 2
  MaxLog = 1
  MaxAccessRevision = 1
  MaxMembershipRevision = 1
PROPERTY EveryRequestEnds
CHECK_DEADLOCK FALSE
