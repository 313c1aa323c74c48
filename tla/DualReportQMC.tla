--------------------------- MODULE DualReportQMC ---------------------------
(***************************************************************************)
(* Two queues with the reporters of ReportQMC.                             *)
(***************************************************************************)
EXTENDS DualReportQ, ReportQMC
=============================================================================
