---------------------------- MODULE MCTripPlannerUi ----------------------------
(* Model checking of TripPlannerUi; the cfg files give the bounds. *)
EXTENDS TripPlannerUi
=============================================================================
