CONSTANTS
  s1 = s1
  s2 = s2
  NoSite = NoSite
  Sites <- TwoSites
  MaxFaults = 0
  Disruptions <- NoDisruption
SPECIFICATION FairSpec
PROPERTY SilentSiteShown
