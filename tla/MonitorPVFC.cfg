SPECIFICATION Spec
CONSTANT
  MaxRuns = 3
INVARIANT
  StartedMonitors
CHECK_DEADLOCK FALSE
