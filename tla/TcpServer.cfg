SPECIFICATION Spec
CONSTANTS
  Peers = {p1, p2, p3}
  Msgs = {m1, m2}
  MaxOthers = 1
SYMMETRY Sym
\* The program may be destroyed, or stopped by the timer's event.
CHECK_DEADLOCK FALSE
INVARIANTS CountsReferences ClientsServedInOrder StatusMatchesSessions
