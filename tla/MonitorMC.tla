----------------------------- MODULE MonitorMC ------------------------------
(* Profits around every threshold of the small bot profile. *)
EXTENDS Monitor
MCProfits == -3..3
MCTotalLoss == -9
=============================================================================
