SPECIFICATION FairSpec
CONSTANTS
  Clients = {c1, c2}
  TimerThread = timerThread
  Handlers = {h1}
  Timers = {k1, k2}
  Periods = {2, 3}
  Precision = 2
  GrowBy = 1
  MaxSlots = 2
  MaxCalls = 4
  Garbage = {0, 2, 3}
  NULL = NULL
INVARIANTS
  PauseAllQuiesces
  LiveTimersKeepTheirSlot
  ForeignEventOnlyAfterKill
  AtMostOneLateCall
PROPERTIES
  NeverEarly
  ServiceSpec
  RunningTimerRings
CHECK_DEADLOCK FALSE
