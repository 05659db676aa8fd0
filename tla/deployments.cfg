CONSTANTS
  None = None
  Null = Null
  p1 = p1  p2 = p2  p3 = p3  k1 = k1  k2 = k2  i1 = i1  i2 = i2  i3 = i3
  n1 = n1  n3 = n3  s1 = s1  s2 = s2  admin = admin  x1 = x1  a1 = a1
  bare = bare  wants = wants  q1 = q1  q2 = q2  u1 = u1  u2 = u2  g1 = g1
  Request = {r1, r2, r3}
  Reading = {r3}
  Old = Old
  Partner = {p1, p2, p3}
  Shared = {s1}
  Seeded = {p1, p2}
  Code = {k1, k2}
  ServiceCode = {sk1}
  Waiting = {k1, sk1}
  Ident = {i1, i2, i3, unnamed}
  Unnamed = unnamed
  Name = {n1, n3}
  Service = {s1, s2}
  Role = {admin, x1}
  BuiltinRole = {admin}
  App = {a1}
  Manifest = {bare, wants}
  Key = {q1, q2}
  User = {u1, u2}
  Owner = u1
  Group = {g1}
  Configured = {p3}
  OnDevice = {n3}
  ManifestOf <- MCManifestOf
  Describes <- MCDescribes
  Contents <- MCContents
  RegisteredBy <- MCRegisteredBy
  GroupsOf <- MCGroupsOf
  AllowedUsers <- MCAllowedUsers
  DeniedUsers <- MCOpen
  AllowedGroups <- MCAllowedGroups
  DeniedGroups <- MCOpen
  Columns <- MCColumns
  NamedBy <- MCNamedBy
  ClientMan <- MCClientMan
SPECIFICATION HubFairSpec
INVARIANTS HubTypeOK BuiltinRolesStay RejectedIsGone GrantedIsWhole MappedInOwnComposition StatusesTellMappings ClaimShowsOneComposition
PROPERTIES MappingsAreLostForAReason RequestsEnd
CHECK_DEADLOCK FALSE
