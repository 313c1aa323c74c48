---------------------------- MODULE ReporterList ----------------------------
(***************************************************************************)
(* cCSSEvent::ReporterList: the list of reporters an event is signalled    *)
(* to.  add() is meant to keep it sorted by priority, High first, so that  *)
(* cCSSDualReportQ can split it at the first Low reporter.                 *)
(***************************************************************************)
EXTENDS Integers, SequencesExt

CONSTANTS
  Reporters,
  PriorityOf   \* "Low", "Normal" or "High", for each reporter

\* The first position of a reporter of priority p, or the end of the list.
FirstOf(list, p) ==
  LET found == {i \in DOMAIN list : PriorityOf[list[i]] = p}
  IN IF found = {} THEN Len(list) + 1 ELSE Min(found)

NextPriority(p) == IF p = "High" THEN "Normal" ELSE "Low"

\* Mutant of Added: the new reporter goes to the end.
Added_Last(list, r) == IF Contains(list, r) THEN list ELSE Append(list, r)

Added(list, r) ==
  IF Contains(list, r) THEN list
  ELSE InsertAt(list, FirstOf(list, NextPriority(PriorityOf[r])), r)

Removed(list, r) == RemoveFirst(list, r)

-----------------------------------------------------------------------------
\* No reporter is in the list twice.
Unique(list) == \A i, j \in DOMAIN list : list[i] = list[j] => i = j

\* Reporters of priority p are before those of priority q.
Before(list, p, q) ==
  \A i, j \in DOMAIN list :
    PriorityOf[list[i]] = q /\ PriorityOf[list[j]] = p => j < i

\* As an event is signalled: each reporter once, Normal ones before Low ones.
Sorted(list) == Unique(list) /\ Before(list, "Normal", "Low")
=============================================================================
