SPECIFICATION PartsSpec
CONSTANTS
  Width = 5
  Precision = 4
  MaxDelay = 9
  MaxTime = 100
  a1 = a1
  a2 = a2
  b1 = b1
  b2 = b2
  c1 = c1
  NULL = NULL
  Joiners = {a1, a2, c1}
  MaxRuns = 2
  MaxJoins = 4
  Queues = {"plain", "limited"}
  Limited = {"limited"}
  Items = {a1, a2}
  Consumers = {b1, b2}
  Durations = {1, 2}
  MaximumTimeInQueue = 2
  QueueWidth = 3
  StartTime = 3
  MaxQueueTime = 8
  MaxQueueCalls = 4
  MaxEvents = 2
  Threads = {1, 2, 3}
  ProcessOf <- TwoProcesses
  MaxValue = 3
  FirstValues = {0, 2}
  MaxOutlets = 3
  MaxRounds = 2
  MaxDeaths = 2
  Objects = {a1, a2}
  Variables = {b1, b2}
  PointerThreads = {"t1", "t2"}
  MaxPointerCalls = 4
  MaxMonitors = 3
  Keys = {1, 2, 3}
  Elements = {a1, a2}
  Instances = {a1, a2, c1}
  MaxLength = 4
  MaxVisits = 4
SYMMETRY Sym
INVARIANTS
  HandlesClosedOnce
  ConsumersServed
  UsedWhileAlive
  TicketsUnique
  CountsAreReferences
  StopEndsMonitoring
  IterationsComplete
PROPERTIES
  PulsesAtDeadlines
  JoinMeansFinished
  RingsInTime
CHECK_DEADLOCK FALSE
