------------------------------- MODULE PartsMC -------------------------------
\* The instance of Parts that TLC checks.  The sets of its parts share model
\* values, so that few permutations serve them all.
EXTENDS Parts, TLC

CONSTANTS a1, a2, b1, b2, c1

\* Two threads in one process, one in another.
TwoProcesses == <<1, 1, 2>>

Sym == Permutations({a1, a2}) \cup Permutations({b1, b2})
=============================================================================
