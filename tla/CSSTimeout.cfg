SPECIFICATION EitherSpec
CONSTANTS
  Threads = {c1, c2, tt}
  TimeoutThread = tt
  Timeouts = {o1}
  TimerIds = {i1, i2, i3}
  MaxLives = 2
  MaxCalls = 4
  Keys = {"k1", "k2", ""}
  EmptyKey = ""
  MapClients = {c1}
  Owner = owner
  MaxInserts = 3
  NULL = NULL
INVARIANT WaiterGetsFirstSignal
PROPERTIES
  TimersServeTheirStart
  CallsEnd
  EntriesGoByTheirTimer
  EntriesExpire
\* The calls are bounded, and the map may be destroyed.
CHECK_DEADLOCK FALSE
