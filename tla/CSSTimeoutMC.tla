---------------------------- MODULE CSSTimeoutMC ----------------------------
\* The instance of TimeoutsAndMap that TLC checks.  Symmetry is not used, since the
\* run checks liveness.
EXTENDS TimeoutsAndMap
=============================================================================
