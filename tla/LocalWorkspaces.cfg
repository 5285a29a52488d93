\* Tabs of one browser: accounts that change, copies that are downloaded,
\* replaced and removed, lists of workspaces.  The instances are bounded by
\* Scopes, so a run ends when its requests and edits are used up.
SPECIFICATION Spec
CHECK_DEADLOCK FALSE
CONSTANTS
  ann = ann
  bob = bob
  w1 = w1
  w2 = w2
  e1 = e1
  e2 = e2
  t1 = t1
  t2 = t2
  Account = {ann, bob}
  Workspace = {w1, w2}
  Edit = {e1, e2}
  Tab = {t1, t2}
  Nobody = nobody
  BatchLimit = 2
  PageSize = 1
  Order <- MCOrder
  Scopes <- MCScopes
INVARIANTS
  CopiesAgree
  WorkIsKept
  WorkKeepsItsAuthor
PROPERTIES
  AccessGoesForward
