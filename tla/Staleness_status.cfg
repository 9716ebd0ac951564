CONSTANTS
  s1 = s1
  s2 = s2
  NoSite = NoSite
  Sites <- TwoSites
  MaxFaults = 2
  Disruptions <- AllDisruptions
SPECIFICATION FairSpec
INVARIANTS ReportedStaleIsStale
PROPERTIES SendingShown SilentShownUnlessExcused
CHECK_DEADLOCK FALSE
