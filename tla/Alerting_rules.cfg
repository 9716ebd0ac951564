CONSTANTS
  o1 = o1
  s1 = s1
  s2 = s2
  e1 = e1
  e2 = e2
  e3 = e3
  NoSite = NoSite
  NoEvent = NoEvent
  NoRule = NoRule
  Unused = Unused
  Deleted = Deleted
  Rules <- TwoRules
  Owners <- OneOwner
  Sites <- OneSite
  EventIds <- ThreeEvents
  Thresholds <- Low
  MaxVolume = 1
  Disruptions <- AllDisruptions
SPECIFICATION FairSpec
INVARIANTS TypeOK StoresAgree
PROPERTIES OneEventPerEpisode EventFlowsWithinGrant RaisedWhenMet ResolvedWhenUnmet
