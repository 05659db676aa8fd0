CONSTANTS
  None = None
  Old = Old
  OpenId = OpenId
  u1 = u1  u2 = u2  u3 = u3  k1 = k1  k2 = k2  n1 = n1  n2 = n2
  Request = {r1, r2, r3, b1}
  Boot = {b1}
  User = {u1, u2, u3}
  NewUser = u3
  Founder = u1
  Member = u2
  ConfOwner = u2
  ConfMember = u3
  ConfSlug = conf
  Topics <- MCTopics
  Limit <- MCLimit
  PushToken = {p1, p2, p3}
  OldToken = p1
  Key = {k1, k2}
  Unknown = Unknown
  Place = {n1, n2}
  Known = n1
  ListSets <- MCListSets
  MentionSets <- MCMentionSets
SPECIFICATION ServerSpec
SYMMETRY MCSymmetry
INVARIANTS ServerTypeOK OwnerIsAdmin ClientsGoWithOrganization CredentialsAreSpent TokensFitTheirGrant ContextFitsToken TwinsOverlap ChannelKeepsLastAnswer NotifiedAreMentioned AnswersStand
PROPERTIES BootRepairs BootKeepsMembers
CHECK_DEADLOCK FALSE
