CONSTANTS
  admin = admin
  u1 = u1
  s1 = s1
  c1 = c1
  g1 = g1
  g2 = g2
  q1 = q1
  q2 = q2
  AllSites = AllSites
  NoUser = NoUser
  Administrator = admin
  Users <- TwoUsers
  Sites <- OneSite
  Credentials <- OneCredential
  Tags <- TwoTags
  Requests <- TwoRequests
  Kinds <- AllKinds
  MaxRequests = 6
  HasPolicy = TRUE
  Disruptions <- Failures
SPECIFICATION Spec
INVARIANTS ReferencesLive ReplacedUnlessMixed
PROPERTIES OnlyUpdatesWiden NeverStripped
SYMMETRY Interchangeable
CHECK_DEADLOCK FALSE
