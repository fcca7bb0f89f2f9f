----------------------------- MODULE MCTripSession -----------------------------
(* Model checking of TripSession: streams are interchangeable. *)
EXTENDS TripSession, TLC

Symmetry == Permutations(Streams)
=============================================================================
