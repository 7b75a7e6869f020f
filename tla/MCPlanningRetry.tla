---------------------------- MODULE MCPlanningRetry ----------------------------
(* Instance of PlanningRetry for TLC. *)
EXTENDS PlanningRetry

\* Without the key, and a slip of the pen.
MCInitialCounts == {Absent, -1}
=============================================================================
