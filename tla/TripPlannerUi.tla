---------------------------- MODULE TripPlannerUi ----------------------------
(***************************************************************************)
(* The page of a chat (hooks/use-trip-planner.ts): the transcript, the     *)
(* request whose stream feeds it, the Stop button, and the saved session   *)
(* that may still be loading.  Each handler runs to completion; between    *)
(* its awaits the user and the network go on.                              *)
(*                                                                         *)
(* The server may answer a request with any stream it can produce.  A      *)
(* request is named by its number and a new session by the request that    *)
(* created it; SavedSession is the one in the URL of the page.             *)
(***************************************************************************)
EXTENDS Naturals, Sequences

CONSTANTS
  None,         \* null
  MaxRequests,  \* bound of the model: requests sent from the page
  MaxStops      \* bound of the model: presses of Stop

ASSUME NoneAssumption == None \notin Nat
ASSUME BoundsAssumption == MaxRequests \in Nat /\ MaxStops \in Nat

VARIABLES
  turns,      \* state.turns
  sessionId,  \* state.sessionId
  current,    \* abortRef: the request whose controller it holds
  requests,   \* the requests sent, with where each one's stream is
  stopping,   \* calls of cancelPlanning that wait for POST /cancel
  hydrating,  \* the saved session is being fetched
  opening,    \* history: what page was opened, "fresh" or "saved"
  strayed,    \* history: a form that is not the last turn's was submitted
  stops       \* presses of Stop so far

page == <<turns, sessionId, current>>
history == <<opening, strayed, stops>>
vars == <<page, requests, stopping, hydrating, history>>

-----------------------------------------------------------------------------
SavedSession == 0

Sessions == 0..MaxRequests

Statuses == {"planning", "awaiting_clarification", "complete", "error"}

\* A turn is known by the request that started it (0: it was stored); asker is
\* the session that asked for clarification, plan the one its itinerary is
\* from, heard the requests whose events were applied to it.
Turn(prompt, status, plan) ==
  [prompt |-> prompt, status |-> status, asker |-> None, plan |-> plan, heard |-> {}]

\* "open" until a terminal event; then "ended", or "completed" when the usage
\* summary is still to come; "closed" by the server, or "aborted" here.
Stages == {"open", "ended", "completed", "closed", "aborted"}

Live(r) == requests[r].stage \in {"open", "ended", "completed"}

LastTurn == turns[Len(turns)]

Busy == turns # <<>> /\ LastTurn.status = "planning"

\* patchLastTurn
Patched(turn) == IF turns = <<>> THEN turns ELSE [turns EXCEPT ![Len(turns)] = turn]

\* Mutant: a stream whose turn is complete is let go on.
Aborted_OpenOnly ==
  [r \in DOMAIN requests |->
     IF r = current /\ requests[r].stage = "open"
       THEN [requests[r] EXCEPT !.stage = "aborted"] ELSE requests[r]]

\* abortRef.current?.abort()
Aborted ==
  [r \in DOMAIN requests |->
     IF r = current /\ Live(r) THEN [requests[r] EXCEPT !.stage = "aborted"] ELSE requests[r]]

\* Mutant: the request that is replaced goes on.
Sends_KeepsOld(prompt, session) ==
  /\ Len(requests) < MaxRequests
  /\ requests' = Append(requests, [prompt |-> prompt, session |-> session, stage |-> "open"])
  /\ current' = Len(requests) + 1

Sends(prompt, session) ==
  /\ Len(requests) < MaxRequests
  /\ requests' = Append(Aborted, [prompt |-> prompt, session |-> session, stage |-> "open"])
  /\ current' = Len(requests) + 1

-----------------------------------------------------------------------------
(* What the user does. *)

\* Mutant: every prompt after the first is a follow-up.
FollowsUp_AnyTurn == turns # <<>>

\* isFollowup
FollowsUp == sessionId # None /\ turns # <<>> /\ LastTurn.plan # None

\* submitPrompt
SubmitPrompt ==
  /\ ~Busy
  /\ Sends(Len(requests) + 1, IF FollowsUp THEN sessionId ELSE Len(requests) + 1)
  /\ turns' = Append(turns, Turn(Len(requests) + 1, "planning", None))
  /\ UNCHANGED <<sessionId, stopping, hydrating, history>>

\* submitClarification: every turn that waits for answers shows its form.
SubmitClarification(i) ==
  /\ turns[i].status = "awaiting_clarification"
  /\ sessionId # None
  /\ Sends(turns[i].prompt, sessionId)
  /\ turns' = Patched([LastTurn EXCEPT !.status = "planning"])
  /\ strayed' = (strayed \/ i # Len(turns))
  /\ UNCHANGED <<sessionId, stopping, hydrating, opening, stops>>

\* Mutant: only the request is aborted, the turn is left as it is.
Stopped_TurnKept ==
  /\ requests' = Aborted
  /\ current' = None
  /\ UNCHANGED turns

\* What cancelPlanning does once /cancel is answered, or at once when no
\* session is known yet.
Stopped ==
  /\ requests' = Aborted
  /\ current' = None
  /\ turns' = IF Busy THEN Patched([LastTurn EXCEPT !.status = "error"]) ELSE turns

PressStop ==
  /\ Busy
  /\ stops < MaxStops
  /\ stops' = stops + 1
  /\ IF sessionId = None
       THEN Stopped /\ UNCHANGED stopping
       ELSE stopping' = stopping + 1 /\ UNCHANGED <<requests, current, turns>>
  /\ UNCHANGED <<sessionId, hydrating, opening, strayed>>

\* POST /cancel is answered, or fails.
StopReturns ==
  /\ stopping > 0
  /\ stopping' = stopping - 1
  /\ Stopped
  /\ UNCHANGED <<sessionId, hydrating, history>>

-----------------------------------------------------------------------------
(* What the network brings. *)

\* Mutant: the session is only taken from the first stream.
Event_FirstSession(r, stage, turn, session) ==
  /\ requests' = [requests EXCEPT ![r].stage = stage]
  /\ turns' = Patched([turn EXCEPT !.heard = @ \cup {r}])
  /\ sessionId' = IF sessionId = None THEN session ELSE sessionId
  /\ UNCHANGED <<current, stopping, hydrating, history>>

\* An event of request r is applied to the last turn.
Event(r, stage, turn, session) ==
  /\ requests' = [requests EXCEPT ![r].stage = stage]
  /\ turns' = Patched([turn EXCEPT !.heard = @ \cup {r}])
  /\ sessionId' = session
  /\ UNCHANGED <<current, stopping, hydrating, history>>

\* agent_start and agent_done
AgentEvent(r) ==
  /\ requests[r].stage = "open"
  /\ Event(r, "open", LastTurn, requests[r].session)

NeedsClarification(r) ==
  /\ requests[r].stage = "open"
  /\ Event(r, "ended",
           [LastTurn EXCEPT !.status = "awaiting_clarification", !.asker = requests[r].session],
           requests[r].session)

\* complete, with an itinerary or with null.
Complete(r) ==
  /\ requests[r].stage = "open"
  /\ \E plan \in {None, requests[r].session} :
       Event(r, "completed", [LastTurn EXCEPT !.status = "complete", !.plan = plan],
             requests[r].session)

UsageSummary(r) ==
  /\ requests[r].stage = "completed"
  /\ Event(r, "ended", LastTurn, sessionId)

\* The server's error event; it is the last one.
ErrorEvent(r) ==
  /\ requests[r].stage = "open"
  /\ Event(r, "ended", [LastTurn EXCEPT !.status = "error"], sessionId)

\* The request fails or its connection breaks: the catch branch.
Breaks(r) ==
  /\ Live(r)
  /\ Event(r, "closed", [LastTurn EXCEPT !.status = "error"], sessionId)

\* Mutant: a stream that ends without a terminal event is not noticed.
Closes_Silently(r) ==
  /\ Live(r)
  /\ requests' = [requests EXCEPT ![r].stage = "closed"]
  /\ UNCHANGED <<page, stopping, hydrating, history>>

\* The stream ends; stream_ended_unexpectedly when nothing had ended it.
Closes(r) ==
  /\ Live(r)
  /\ IF requests[r].stage = "open" /\ Busy
       THEN Event(r, "closed", [LastTurn EXCEPT !.status = "error"], sessionId)
       ELSE /\ requests' = [requests EXCEPT ![r].stage = "closed"]
            /\ UNCHANGED <<page, stopping, hydrating, history>>

\* The saved session has been fetched, or could not be: the whole state is
\* replaced.
Hydrate ==
  /\ hydrating
  /\ hydrating' = FALSE
  /\ sessionId' = SavedSession
  /\ turns' \in {<<>>} \cup {<<Turn(0, "complete", plan)>> : plan \in {None, SavedSession}}
  /\ UNCHANGED <<current, requests, stopping, history>>

-----------------------------------------------------------------------------
Init ==
  /\ turns = <<>>
  /\ sessionId = None
  /\ current = None
  /\ requests = <<>>
  /\ stopping = 0
  /\ opening \in {"fresh", "saved"}
  /\ hydrating = (opening = "saved")
  /\ strayed = FALSE
  /\ stops = 0

User == SubmitPrompt \/ (\E i \in DOMAIN turns : SubmitClarification(i)) \/ PressStop

Ends(r) ==
  NeedsClarification(r) \/ Complete(r) \/ UsageSummary(r) \/ ErrorEvent(r) \/ Breaks(r) \/ Closes(r)

StreamEnds == \E r \in DOMAIN requests : Ends(r)

Next ==
  \/ User
  \/ StopReturns
  \/ StreamEnds
  \/ \E r \in DOMAIN requests : AgentEvent(r)
  \/ Hydrate

Spec == Init /\ [][Next]_vars

\* Every stream ends: the server bounds each call it makes, and a dead
\* connection is reset.  Nothing is assumed of the user.
FairSpec == Spec /\ WF_vars(StreamEnds)

-----------------------------------------------------------------------------
(* Properties. *)

Maybe(S) == S \cup {None}

TurnType ==
  [prompt : 0..MaxRequests, status : Statuses, asker : Maybe(Sessions), plan : Maybe(Sessions),
   heard : SUBSET (1..MaxRequests)]

RequestType == [prompt : 0..MaxRequests, session : Sessions, stage : Stages]

TypeOK ==
  /\ turns \in Seq(TurnType)
  /\ sessionId \in Maybe(Sessions)
  /\ current \in Maybe(1..MaxRequests)
  /\ requests \in Seq(RequestType)
  /\ Len(requests) <= MaxRequests
  /\ stopping \in Nat
  /\ stops \in Nat
  /\ hydrating \in BOOLEAN
  /\ opening \in {"fresh", "saved"}
  /\ strayed \in BOOLEAN

\* "Stale streams are aborted on retry, replacement prompt, or unmount"
\* (specs/frontend-observability-plan.md:293): only the request the page can
\* still abort may speak.
OneStream == \A r \in DOMAIN requests : Live(r) => r = current

\* A turn that shows progress has a stream that can end it, whatever was
\* pressed, and whatever arrived in between.
BusyIsServed == Busy => \E r \in DOMAIN requests : requests[r].stage = "open"

\* "One prompt->response exchange in the conversation transcript"
\* (use-trip-planner.ts:22): a turn shows what was answered to its own prompt.
\* A saved session that arrives late breaks this, and so does the form of an
\* earlier turn.
Orderly == opening = "fresh" /\ ~strayed

ResponsesMatchPrompts ==
  Orderly => \A i \in DOMAIN turns : \A r \in turns[i].heard : requests[r].prompt = turns[i].prompt

\* "Clarification resumes the existing session"
\* (specs/frontend-observability-plan.md:288): the answers of the last turn's
\* form are sent to the session that asked for them, and a follow-up goes to
\* the session whose itinerary it is about.
RequestsReachTheirSession ==
  [][/\ \A i \in DOMAIN turns :
          SubmitClarification(i) /\ i = Len(turns)
            => requests'[Len(requests')].session = turns[i].asker
     /\ SubmitPrompt /\ FollowsUp /\ Orderly
          => requests'[Len(requests')].session = LastTurn.plan]_vars

\* A prompt does not stay "planning" for ever.
PlanningEnds == Busy ~> ~Busy
=============================================================================
