------------------------------ MODULE MCSseStream ------------------------------
(* Model checking of SseStream: every cut of every short response. *)
EXTENDS SseStream
=============================================================================
