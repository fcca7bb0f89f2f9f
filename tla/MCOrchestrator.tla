---------------------------- MODULE MCOrchestrator ----------------------------
(* The fields whose handling differs: dates and trip_days decide the dates of *)
(* the trip together; destination stands for the plain text fields.           *)
EXTENDS Orchestrator

MCFields == {"destination", "dates", "trip_days"}

\* The worst model, one whose dates are well formed, one that never reads a
\* return date besides, and steady ones that read it and do not.
MCModels == {Habits, Habits \ {"garbles"}, {"fails", "forgets"}, {"ends"}, {}}
=============================================================================
