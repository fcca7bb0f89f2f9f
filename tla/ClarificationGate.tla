--------------------------- MODULE ClarificationGate ---------------------------
(***************************************************************************)
(* What the orchestrator promises the rest of the planning graph: it asks  *)
(* at most MaxRounds questions about a prompt, waits for each answer, and  *)
(* then returns the number of rounds it made use of.  It returns without   *)
(* having understood the prompt only once all rounds are used up.          *)
(* PlanningGraph's actions AskFields, Answer and Orchestrate rely on this  *)
(* and on nothing else of agents/orchestrator.py.                          *)
(***************************************************************************)
EXTENDS Naturals

CONSTANT MaxRounds   \* settings.max_clarification_rounds

VARIABLES
  stage,       \* "working", "waiting" for the user, or "returned"
  heard,       \* answers received
  used,        \* rounds the result reports
  understood   \* the result holds a parsed trip

vars == <<stage, heard, used, understood>>

Init ==
  /\ stage = "working"
  /\ heard = 0
  /\ used = 0
  /\ understood = FALSE

Ask ==
  /\ stage = "working"
  /\ heard < MaxRounds
  /\ stage' = "waiting"
  /\ UNCHANGED <<heard, used, understood>>

Hear ==
  /\ stage = "waiting"
  /\ stage' = "working"
  /\ heard' = heard + 1
  /\ UNCHANGED <<used, understood>>

Return ==
  /\ stage = "working"
  /\ stage' = "returned"
  /\ used' \in 0..heard
  /\ understood' \in BOOLEAN
  /\ understood' \/ used' = MaxRounds
  /\ UNCHANGED heard

Next == Ask \/ Hear \/ Return

Spec == Init /\ [][Next]_vars
=============================================================================
