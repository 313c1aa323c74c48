----------------------------- MODULE ReportQMC -----------------------------
(***************************************************************************)
(* A queue with a reporter of each priority.                               *)
(***************************************************************************)
EXTENDS ReportQ

CONSTANTS l1, n1, h1

AllReporters == {l1, n1, h1}
Priorities ==
  [r \in AllReporters |->
     CASE r = l1 -> "Low" [] r = n1 -> "Normal" [] OTHER -> "High"]
=============================================================================
