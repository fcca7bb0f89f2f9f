--------------------------- MODULE MCPlanningGraph ---------------------------
(* Model checking of PlanningGraph; the cfg files give the bounds. *)
EXTENDS PlanningGraph
=============================================================================
