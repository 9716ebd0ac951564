CONSTANTS
  s1 = s1
  s2 = s2
  Nothing = Nothing
  Sites <- TwoSites
  Selections <- OneOrAll
  MaxChanges = 1
  MaxFaults = 1
  Disruptions <- AllDisruptions
SPECIFICATION FairSpec
INVARIANTS OneSocketOrTimer StatsMatchSelection BroadcastReachesAll
PROPERTIES StatsResume
CHECK_DEADLOCK FALSE
