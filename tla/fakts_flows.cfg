CONSTANTS
  None = None
  u1 = u1  u2 = u2  o1 = o1  o2 = o2  k1 = k1  k2 = k2
  m1 = m1  m1b = m1b  md = md  mz = mz
  app1 = app1  app2 = app2  v1 = v1  n1 = n1  ta = ta  s2 = s2
  User = {u1, u2}  Org = {o1, o2}  Comp = {k1, k2}
  Ident = {app1, app2}  Version = {v1}  Node = {n1}
  Manifest = {md, mz}
  Seed = {ta, s2}
  DeletableNode = {n1}
  RedeemRequest = {r1}
  AcceptRequest = {a1}
  ReportRequest = {p1}
  Request = {r1, a1}
  Token = {ta}
  Reredeemable = {}
  Expiring = {}
  Configured = {ta}
  Code = {c1}
  OrgOf <- MCOrgOf
  IdentOf <- MCIdentOf
  VersionOf <- MCVersionOf
  NodeOf <- MCNodeOf
  SeedUser <- MCSeedUser
  SeedComp <- MCSeedComp
  SeedMan <- MCSeedMan
  TokenUser <- MCTokenUser
  TokenComp <- MCTokenComp
SPECIFICATION Spec
INVARIANTS FaktsTypeOK TokenClientFitsUser SecretsStayHome
CHECK_DEADLOCK FALSE
