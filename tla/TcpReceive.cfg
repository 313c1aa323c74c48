SPECIFICATION FairSpec
CONSTANTS
  Setups <- AllSetups
  Timers = {1, 2, 3, 4}
  Slots = {1, 2, 3}
  MaxLinks = 2
  NULL = NULL
INVARIANT MessagesAsFramed
PROPERTY SilenceDecides
\* The connections and what is sent on them are bounded.
CHECK_DEADLOCK FALSE
