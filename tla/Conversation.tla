----------------------------- MODULE Conversation -----------------------------
(***************************************************************************)
(* What a chat session promises the person who uses it from one page: one  *)
(* prompt is worked on at a time; it may be interrupted by questions, each *)
(* of which waits for its answers; what is told in the end is the          *)
(* itinerary made for that prompt or the one the session had before.  A    *)
(* new prompt keeps what the session had.                                  *)
(*                                                                         *)
(* The session can go astray only when the server is restarted and keeps   *)
(* its checkpoints elsewhere than before: it then goes back to what it     *)
(* finds there, and answers to a question of before may come at any time.  *)
(***************************************************************************)
EXTENDS Naturals

CONSTANTS
  Prompts,   \* a prompt, and the itinerary made for it
  None       \* no prompt, no itinerary

VARIABLES
  phase,     \* "idle", "working", "asking" or "telling"
  prompt,    \* what the session is about
  current,   \* the itinerary it has
  told,      \* itineraries the user was told
  store,     \* where the server keeps it
  asker      \* the store from which the last question was asked

vars == <<phase, prompt, current, told, store, asker>>

Maybe == Prompts \cup {None}

Init ==
  /\ phase = "idle"
  /\ prompt = None
  /\ current = None
  /\ told = {}
  /\ store \in Nat
  /\ asker \in Nat

\* A question that still waits is dropped by a new prompt.
Ask ==
  /\ phase \in {"idle", "asking"}
  /\ phase' = "working"
  /\ prompt' \in Prompts
  /\ UNCHANGED <<current, told, store, asker>>

Question ==
  /\ phase = "working"
  /\ phase' = "asking"
  /\ asker' = store
  /\ UNCHANGED <<prompt, current, told, store>>

Reply ==
  /\ \/ phase = "asking"
     \/ phase = "idle" /\ asker # store
  /\ phase' = "working"
  /\ UNCHANGED <<prompt, current, told, store, asker>>

\* Planning ends with an itinerary for the prompt, or falls back.
Decide ==
  /\ phase = "working"
  /\ phase' = "telling"
  /\ current' \in {prompt, current}
  /\ UNCHANGED <<prompt, told, store, asker>>

Tell ==
  /\ phase = "telling"
  /\ phase' = "idle"
  /\ told' = told \cup {current}
  /\ UNCHANGED <<prompt, current, store, asker>>

\* Planning fails or is stopped: the question it went on from is open again,
\* and a result that was not told yet is kept.
Break ==
  /\ phase \in {"working", "telling"}
  /\ phase' \in IF phase = "working" THEN {"idle", "asking"} ELSE {"idle"}
  /\ UNCHANGED <<prompt, current, told, store, asker>>

\* A restart with another store.
Elsewhere ==
  /\ phase' \in {"idle", "asking"}
  /\ prompt' \in Maybe
  /\ current' \in Maybe
  /\ store' \in Nat \ {store}
  /\ UNCHANGED <<told, asker>>

Next == Ask \/ Question \/ Reply \/ Decide \/ Tell \/ Break \/ Elsewhere

Spec == Init /\ [][Next]_vars
=============================================================================
