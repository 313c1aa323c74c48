---------------------------- MODULE SharedListMC ----------------------------
(* SharedList with processes that are alike. *)
EXTENDS SharedList, TLC

\* The properties speak of what happens before a mishap.
Undisturbed == mishaps = {}

Symmetry == Permutations(Processes) \cup Permutations(Lists)
=============================================================================
