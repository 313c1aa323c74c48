SPECIFICATION Spec
CONSTANTS
  Lists = {l1, l2}
  Processes = {p1, p2, p3}
  NbRec = 3
  MaxCount = 2
  MaxPuts = 4
  MaxStarts = 4
  MaxClients = 1
  NULL = NULL
CONSTRAINT Undisturbed
SYMMETRY Symmetry
INVARIANTS ListsAndCountsAgree RecordKeptForReader
\* A flush waits for ever, and the puts are bounded.
CHECK_DEADLOCK FALSE
