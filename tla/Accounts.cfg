\* Accounts, administrators, owners and invitations on one database.
SPECIFICATION Spec
CONSTANTS
  ann = ann  bob = bob  cat = cat  adm = adm  dee = dee
  w1 = w1  w2 = w2  w3 = w3  l1 = l1  l2 = l2  l3 = l3  l4 = l4
  sa = sa  sb = sb  sc = sc  sd = sd  se = se
  ia = ia  ib = ib  id = id  ie = ie  t1 = t1  t2 = t2
  t3 = t3  t4 = t4  t5 = t5
  Nobody = Nobody  Nothing = Nothing
  Account <- MCAccount
  Workspace <- MCWorkspace
  Link <- MCLink
  Session <- MCSession
  Identity <- MCIdentity
  SignIn <- MCSignIn
  OwnerLimit = 2
  MemberLimit = 4
  MembershipLimit = 3
  LinkLimit = 2
  IdentityLimit = 2
  DayTicks = 2  WindowTicks = 4  Grace = 1
  DayLimit <- MCDayLimit
  WindowLimit <- MCWindowLimit
  LifetimeLimit = 3
  ByteLimit = 3
  SessionLimit = 2
  TerminalLimit = 1
  SessionTicks = 3
  FirstPause = 1
  NextPause = 2
  Sizes = {1, 2}
  Scopes <- MCScopes
INVARIANTS OwnerRemains RevisionsTell InactiveHoldNothing WorkspacesAccountedFor BudgetsHold SessionsBounded RetryAfterIsEnough
PROPERTIES PausesHold AdminRemains MembersEnterByInvitation IdentitiesFollowIntent
CHECK_DEADLOCK FALSE
