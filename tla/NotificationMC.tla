---------------------------- MODULE NotificationMC ----------------------------
\* Model checking of Notification.
EXTENDS Notification, TLC

Sym == Permutations(Clients) \cup Permutations(Notifiers) \cup Permutations(Objects)
         \cup Permutations(Events)
=============================================================================
