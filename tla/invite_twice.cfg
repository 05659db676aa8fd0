CONSTANTS
  None = None
  o = o  u = u  v = v  s0 = s0  s1 = s1
  admin = admin  guest = guest
  i1 = i1  i2 = i2
  r1 = r1  r2 = r2  r3 = r3
  l1 = l1  l2 = l2
  User = {o, u, v}
  Owner = o
  Role = {admin, guest}
  Admin = admin
  Guest = guest
  Request = {r1, r2}
  Seed = {s0}
  SeedUser <- MCOwnerSeeded
  Invite = {i1}
  Unknown = unknown
  Asked <- MCAsked
  Expiring = {i1}
  Layer = {l1}
  SeedLayer = {l1}
SPECIFICATION Spec
SYMMETRY Alike
INVARIANTS InviteIsUsedOnce
CHECK_DEADLOCK FALSE
