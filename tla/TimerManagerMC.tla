--------------------------- MODULE TimerManagerMC ---------------------------
\* The instance of TimerManager that TLC checks: its constants are all model
\* values and numbers.  Symmetry is not used, since the run checks liveness.
EXTENDS TimerManager
=============================================================================
