CONSTANTS
  k1 = k1
  k2 = k2
  t1 = t1
  t2 = t2
  Quarantined = Quarantined
  Malformed = Malformed
  Loop = Loop
  Main = Main
  None = None
  Keys <- MCKeys
  Timers <- MCTimers
  Messages <- AllMessages
  MaxSize = 2
  MaxLog = 2
  MaxReplays = 1
  Disruptions <- AllDisruptions
SPECIFICATION FairSpec
INVARIANTS TypeOK TimerGuardsBuffer BatchesBounded OneHolder DuplicatesOnlyOfForgotten
PROPERTIES SwapLosesNothing ImplementsLedger EventsSettle RecordsReachTable
CHECK_DEADLOCK FALSE
