SPECIFICATION Spec
CONSTANTS
  ann = ann
  bob = bob
  f = f
  g = g
  blank = blank
  e1 = e1
  e2 = e2
  e3 = e3
  c1 = c1
  v1 = v1
  v2 = v2
  d1 = d1
  d2 = d2
  t1 = t1
  t2 = t2
  Account = {ann, bob}
  Edit = {e1, e2, e3, c1}
  Copies = {c1}
  Field = {f, g}
  Value = {v1, v2, blank}
  Blank = blank
  Restored = restored
  NoBasis = noBasis
  LedgerLimit = 5
  RecordQuota = 2
  InitialRole <- MCInitialRole
  MaxAccessRevision = 1
  MaxMembershipRevision = 2
  Device = {d1}
  Tab = {t1, t2}
  DeviceOf <- TabsDeviceOf
  AccountOf <- TabsAccountOf
  AuthorOf <- TabsAuthorOf
  FieldOf <- TabsFieldOf
  ValueOf <- TabsValueOf
  Guarded = {}
  BatchLimit = 2
  Flaky = {t2}
  Scopes <- MCCopies
  MaxOrphans = 0
INVARIANTS
  NothingDropped
  IntentAppliedOnce
  DeletionIsFinal
PROPERTIES
  AnswersOnlyAdd
CHECK_DEADLOCK FALSE
