CONSTANTS
  k1 = k1
  k2 = k2
  t1 = t1
  t2 = t2
  Quarantined = Quarantined
  Malformed = Malformed
  Loop = Loop
  Main = Main
  None = None
  Keys <- MCKeys
  Timers <- MCTimers
  Messages <- MCKeys
  MaxSize = 2
  MaxLog = 3
  MaxReplays = 1
  Disruptions <- InsertOnly
SPECIFICATION Spec
INVARIANT AcceptedIsDelivered
CHECK_DEADLOCK FALSE
