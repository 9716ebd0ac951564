CONSTANTS
  f1 = f1
  f2 = f2
  s1 = s1
  s2 = s2
  NoPolicy = NoPolicy
  AnySite = AnySite
  Nothing = Nothing
  Flows <- TwoFlows
  Weightless <- SecondWeightless
  Sites <- TwoSites
  SiteOf <- OneAtEach
  Windows <- SampleWindows
  PAGE_SIZE = 1
  MaxPage = 2
  Policies <- ShortOrLong
  Cap = 3
  MaxChanges = 1
  MaxFaults = 1
  Disruptions <- AllDisruptions
SPECIFICATION Spec
INVARIANTS TypeOK
PROPERTIES AnswersWithinAccess OutsideIsOld NoTrafficIsTrue
CHECK_DEADLOCK FALSE
