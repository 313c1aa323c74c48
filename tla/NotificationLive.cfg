SPECIFICATION FairSpec
CONSTANTS
  Clients = {c1, c2}
  Notifiers = {n1}
  Objects = {o1, o2}
  Events = {e1}
  MayUnregister = TRUE
  MaxReposts = 1
  NULL = NULL
CHECK_DEADLOCK FALSE
PROPERTY NotificationProgresses
