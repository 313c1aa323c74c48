SPECIFICATION Spec
CONSTANTS
  Clients = {c1, c2}
  Notifiers = {n1}
  Objects = {o1, o2}
  Events = {e1, e2}
  MayUnregister = TRUE
  MaxReposts = 1
  NULL = NULL
SYMMETRY Sym
INVARIANTS EventsAlive DestroyedObjectLeftAlone DeliveredInOrder
CHECK_DEADLOCK FALSE
