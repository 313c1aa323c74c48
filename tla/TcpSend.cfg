SPECIFICATION Spec
CONSTANTS
  Clients = {c1}
  RxThread = rx
  Msgs = {m1, m2}
  Heartbeat = TRUE
  MaxRetries = 1
  MaxLinks = 2
SYMMETRY Sym
VIEW Distinguished
INVARIANT NoUseAfterDelete
PROPERTY VerdictsAreAnswered
