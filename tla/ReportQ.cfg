SPECIFICATION FairSpec
CONSTANTS
  Clients = {c1, c2}
  Events = {e1, e2}
  l1 = l1
  n1 = n1
  h1 = h1
  Reporters <- AllReporters
  PriorityOf <- Priorities
  MaxInits = 2
  MaxCalls = 5
  NULL = NULL
INVARIANTS
  EventsAccounted
  SignalledInOrder
  SuspensionHolds
PROPERTY
  QueueServes
CHECK_DEADLOCK FALSE
