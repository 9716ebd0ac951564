CONSTANTS
  o1 = o1
  s1 = s1
  s2 = s2
  e1 = e1
  e2 = e2
  e3 = e3
  NoSite = NoSite
  NoEvent = NoEvent
  NoRule = NoRule
  Unused = Unused
  Deleted = Deleted
  Rules <- OneRule
  Owners <- OneOwner
  Sites <- OneSite
  EventIds <- TwoEvents
  Thresholds <- Low
  MaxVolume = 1
  Disruptions <- ExpiryOnly
SPECIFICATION Spec
INVARIANT OneOpenEventPerRule
CHECK_DEADLOCK FALSE
