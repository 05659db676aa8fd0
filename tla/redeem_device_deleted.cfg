CONSTANTS
  None = None
  u1 = u1  o1 = o1  k1 = k1  k2 = k2
  m1 = m1  m1b = m1b  m2 = m2  md = md
  app1 = app1  v1 = v1  v2 = v2  n1 = n1
  ta = ta  tb = tb  tc = tc  s0 = s0
  User = {u1}  Org = {o1}  Comp = {k1, k2}
  Ident = {app1}  Version = {v1, v2}  Node = {n1}
  Manifest = {m1, md}
  Seed = {ta}
  Token = {ta, tb}
  Reredeemable = {}
  Expiring = {}
  Configured = {}
  DeletableNode = {n1}
  Request = {r1, r2}
  RedeemRequest = {r1, r2}
  OrgOf <- MCOrgOf
  IdentOf <- MCIdentOf
  VersionOf <- MCVersionOf
  NodeOf <- MCNodeOf
  SeedUser <- MCSeedUser
  SeedComp <- MCSeedComp
  SeedMan <- MCSeedMan
  TokenUser <- MCTokenUser
  TokenComp <- MCTokenComp
SPECIFICATION Spec
INVARIANT OneClientPerKey
CHECK_DEADLOCK FALSE
