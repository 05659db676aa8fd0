CONSTANTS
  None = None
  u1 = u1  u2 = u2  o1 = o1  o2 = o2  k1 = k1  k2 = k2
  m1 = m1  m1b = m1b  md = md
  app1 = app1  v1 = v1  n1 = n1  s1 = s1
  User = {u1, u2}  Org = {o1, o2}  Comp = {k1, k2}
  Ident = {app1}  Version = {v1}  Node = {n1}
  Manifest = {md}
  Seed = {s1}
  DeletableNode = {n1}
  Request = {r1, r2}
  AcceptRequest = {r1, r2}
  Code = {c1}
  OrgOf <- MCOrgOf
  IdentOf <- MCIdentOf
  VersionOf <- MCVersionOf
  NodeOf <- MCNodeOf
  SeedUser <- MCSeedUser
  SeedComp <- MCSeedComp
  SeedMan <- MCSeedMan
SPECIFICATION FairSpec
INVARIANTS DeviceTypeOK AnswersWereAccepted
PROPERTIES ExpiredIsFinal AcceptedIsDelivered
CHECK_DEADLOCK FALSE
