SPECIFICATION FairSpec
CONSTANTS
  ann = ann
  bob = bob
  f = f
  g = g
  blank = blank
  e1 = e1
  e2 = e2
  e3 = e3
  c1 = c1
  v1 = v1
  v2 = v2
  d1 = d1
  d2 = d2
  t1 = t1
  t2 = t2
  Account = {ann, bob}
  Edit = {e1, e2, e3}
  Copies = {}
  Field = {f}
  Value = {v1, v2, blank}
  Blank = blank
  Restored = restored
  NoBasis = noBasis
  LedgerLimit = 5
  RecordQuota = 2
  InitialRole <- MCInitialRole
  MaxAccessRevision = 0
  MaxMembershipRevision = 0
  Device = {d1, d2}
  Tab = {t1, t2}
  DeviceOf <- RaceDeviceOf
  AccountOf <- RaceAccountOf
  AuthorOf <- RaceAuthorOf
  FieldOf <- RaceFieldOf
  ValueOf <- RaceValueOf
  Guarded = {e1}
  BatchLimit = 2
  Flaky = {t2}
  Scopes <- MCPlain
  MaxOrphans = 1
INVARIANTS
  QueueIsVisible
PROPERTIES
  PendingSettles
  Converges
CHECK_DEADLOCK FALSE
