CONSTANTS
  e1 = e1
  s1 = s1
  t1 = t1
  t2 = t2
  x1 = x1
  x2 = x2
  Fields <- TwoFields
  NoSite = NoSite
  Exporters <- OneExporter
  Sites <- OneSite
  Tasks <- TwoTasks
  Datagrams <- SampleDatagrams
  TTL = 2
  Cap = 3
  MaxFaults = 2
  Disruptions <- AllDisruptions
SPECIFICATION FairSpec
INVARIANTS TypeOK
PROPERTIES DatagramsAccounted AttributedRecently TasksEnd OnboardingTakesEffect
CHECK_DEADLOCK FALSE
