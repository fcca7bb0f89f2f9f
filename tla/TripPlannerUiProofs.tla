------------------------- MODULE TripPlannerUiProofs -------------------------
(***************************************************************************)
(* Safety of the page, for any number of requests and of presses of Stop.  *)
(*                                                                         *)
(* OneStream and BusyIsServed are inductive together with the types. That  *)
(* responses match their prompts needs one more fact: a live request       *)
(* answers the prompt of the last turn. That requests reach their session  *)
(* needs another: a turn that asks or has a plan has no request open       *)
(* (Addressed).                                                            *)
(***************************************************************************)
EXTENDS TripPlannerUi, SequenceTheorems, TLAPS

Inv == TypeOK /\ OneStream /\ BusyIsServed

USE NoneAssumption, BoundsAssumption

-----------------------------------------------------------------------------
(* The operators of the page. *)

LEMMA LastTurnType ==
  ASSUME TypeOK, turns # <<>>
  PROVE  Len(turns) \in 1..Len(turns) /\ LastTurn \in TurnType
  <1>1. turns \in Seq(TurnType) /\ Len(turns) \in Nat /\ Len(turns) # 0
    BY DEF TypeOK
  <1> QED
    BY <1>1, ElementOfSeq DEF LastTurn

LEMMA PatchedType ==
  ASSUME TypeOK, NEW turn, turns # <<>> => turn \in TurnType
  PROVE  /\ Patched(turn) \in Seq(TurnType)
         /\ Len(Patched(turn)) = Len(turns)
         /\ turns # <<>> => Patched(turn) # <<>>
         /\ \A i \in 1..Len(turns) :
              Patched(turn)[i] = IF i = Len(turns) THEN turn ELSE turns[i]
  BY DEF TypeOK, Patched

LEMMA AbortedType ==
  ASSUME TypeOK
  PROVE  /\ Aborted \in Seq(RequestType)
         /\ Len(Aborted) = Len(requests)
         /\ \A r \in 1..Len(requests) :
              /\ Aborted[r].prompt = requests[r].prompt
              /\ Aborted[r].session = requests[r].session
              /\ Aborted[r].stage = IF r = current /\ Live(r) THEN "aborted"
                                                              ELSE requests[r].stage
  <1>1. \A r \in DOMAIN requests : requests[r] \in RequestType
    BY ElementOfSeq DEF TypeOK
  <1>2. \A r \in DOMAIN requests : Aborted[r] \in RequestType
    BY <1>1 DEF Aborted, RequestType, Stages
  <1>3. DOMAIN requests = 1..Len(requests) /\ Len(requests) \in Nat
    BY DEF TypeOK
  <1>4. Aborted \in [1..Len(requests) -> RequestType]
    BY <1>2, <1>3 DEF Aborted
  <1>5. Aborted \in Seq(RequestType) /\ Len(Aborted) = Len(requests)
    BY <1>3, <1>4
  <1> QED
    BY <1>1, <1>3, <1>5 DEF Aborted, RequestType

-----------------------------------------------------------------------------
(* What sending, stopping and an event do to the three conjuncts. *)

LEMMA SendsKeepsOne ==
  ASSUME Inv, NEW prompt \in 0..MaxRequests, NEW session \in Sessions, Sends(prompt, session)
  PROVE  /\ requests' \in Seq(RequestType) /\ Len(requests') = Len(requests) + 1
         /\ Len(requests') <= MaxRequests /\ current' \in Maybe(1..MaxRequests)
         /\ \A r \in 1..Len(requests) : /\ requests'[r].prompt = requests[r].prompt
                                        /\ requests'[r].stage = Aborted[r].stage
         /\ requests'[Len(requests')] = [prompt |-> prompt, session |-> session, stage |-> "open"]
         /\ OneStream'
         /\ \E r \in DOMAIN requests' : requests'[r].stage = "open"
  <1> DEFINE new == [prompt |-> prompt, session |-> session, stage |-> "open"]
  <1>1. Aborted \in Seq(RequestType) /\ Len(Aborted) = Len(requests)
    BY AbortedType DEF Inv
  <1>2. new \in RequestType
    BY DEF RequestType, Stages
  <1>3. Len(requests) \in Nat /\ Len(requests) < MaxRequests
    BY DEF Inv, TypeOK, Sends
  <1>4. /\ requests' \in Seq(RequestType) /\ Len(requests') = Len(requests) + 1
        /\ \A r \in 1..Len(requests) : requests'[r] = Aborted[r]
        /\ requests'[Len(requests) + 1] = new
    BY <1>1, <1>2, <1>3 DEF Sends
  <1>5. DOMAIN requests' = 1..(Len(requests) + 1) /\ DOMAIN requests = 1..Len(requests)
    BY <1>4 DEF Inv, TypeOK
  <1>6. \A r \in 1..Len(requests) : requests'[r].stage \notin {"open", "ended", "completed"}
    BY <1>4, <1>5, AbortedType DEF Inv, OneStream, Live
  <1>7. current' = Len(requests) + 1
    BY DEF Sends
  <1>8. OneStream'
    BY <1>3, <1>5, <1>6, <1>7 DEF OneStream, Live
  <1>9. requests'[Len(requests) + 1].stage = "open"
    BY <1>4
  <1>10. current' \in Maybe(1..MaxRequests)
    BY <1>3, <1>7 DEF Maybe
  <1>11. \A r \in 1..Len(requests) : requests'[r].prompt = requests[r].prompt
    BY <1>4, AbortedType DEF Inv
  <1> QED
    BY <1>3, <1>4, <1>5, <1>8, <1>9, <1>10, <1>11

LEMMA StoppedKeepsInv ==
  ASSUME Inv, Stopped
  PROVE  /\ turns' \in Seq(TurnType) /\ current' = None
         /\ requests' \in Seq(RequestType) /\ Len(requests') = Len(requests)
         /\ OneStream' /\ BusyIsServed'
  <1>1. /\ requests' \in Seq(RequestType) /\ Len(requests') = Len(requests)
        /\ \A r \in 1..Len(requests) : requests'[r].stage =
              IF r = current /\ Live(r) THEN "aborted" ELSE requests[r].stage
    BY AbortedType DEF Inv, Stopped
  <1>2. DOMAIN requests' = 1..Len(requests) /\ DOMAIN requests = 1..Len(requests)
    BY <1>1 DEF Inv, TypeOK
  <1>3. OneStream'
    BY <1>1, <1>2 DEF Inv, OneStream, Live
  <1>4. CASE Busy
    <2>1. turns # <<>> /\ LastTurn \in TurnType
      BY <1>4, LastTurnType DEF Busy, Inv
    <2> DEFINE ended == [LastTurn EXCEPT !.status = "error"]
    <2>2. ended \in TurnType /\ ended.status = "error"
      BY <2>1 DEF TurnType, Statuses
    <2>3. turns' = Patched(ended)
      BY <1>4 DEF Stopped
    <2>4. turns' \in Seq(TurnType) /\ Len(turns') = Len(turns) /\ turns'[Len(turns)] = ended
      BY <2>1, <2>2, <2>3, PatchedType, LastTurnType DEF Inv
    <2>5. ~Busy'
      BY <2>2, <2>4 DEF Busy, LastTurn
    <2> QED
      BY <1>1, <1>3, <2>4, <2>5 DEF BusyIsServed, Stopped
  <1>5. CASE ~Busy
    <2>1. turns' = turns
      BY <1>5 DEF Stopped
    <2>2. ~Busy'
      BY <1>5, <2>1 DEF Busy, LastTurn
    <2> QED
      BY <1>1, <1>3, <2>1, <2>2 DEF BusyIsServed, Stopped, Inv, TypeOK
  <1> QED
    BY <1>4, <1>5

LEMMA EventEffect ==
  ASSUME Inv, NEW r \in DOMAIN requests, NEW stage \in Stages, NEW turn, NEW session,
         turns # <<>> => turn \in TurnType, Event(r, stage, turn, session)
  PROVE  /\ turns' \in Seq(TurnType) /\ Len(turns') = Len(turns)
         /\ \A i \in 1..Len(turns) : turns'[i] =
              IF i = Len(turns) THEN [turn EXCEPT !.heard = @ \cup {r}] ELSE turns[i]
         /\ requests' \in Seq(RequestType) /\ Len(requests') = Len(requests)
         /\ DOMAIN requests' = DOMAIN requests
         /\ requests'[r].stage = stage /\ requests'[r].prompt = requests[r].prompt
         /\ \A q \in DOMAIN requests : q # r => requests'[q] = requests[q]
  <1> DEFINE heard == [turn EXCEPT !.heard = @ \cup {r}]
  <1>1. requests[r] \in RequestType /\ r \in 1..MaxRequests
    BY ElementOfSeq DEF Inv, TypeOK
  <1>2. turns # <<>> => heard \in TurnType
    BY <1>1 DEF TurnType
  <1>3. turns' = Patched(heard)
    BY DEF Event
  <1>4. /\ turns' \in Seq(TurnType) /\ Len(turns') = Len(turns)
        /\ \A i \in 1..Len(turns) : turns'[i] = IF i = Len(turns) THEN heard ELSE turns[i]
    BY <1>2, <1>3, PatchedType DEF Inv
  <1>5. requests' = [requests EXCEPT ![r] = [requests[r] EXCEPT !.stage = stage]]
    BY DEF Event
  <1>6. [requests[r] EXCEPT !.stage = stage] \in RequestType
    BY <1>1 DEF RequestType
  <1>7. /\ requests' \in Seq(RequestType) /\ Len(requests') = Len(requests)
        /\ DOMAIN requests' = DOMAIN requests
        /\ requests'[r] = [requests[r] EXCEPT !.stage = stage]
        /\ \A q \in DOMAIN requests : q # r => requests'[q] = requests[q]
    BY <1>5, <1>6 DEF Inv, TypeOK
  <1>8. requests'[r].stage = stage /\ requests'[r].prompt = requests[r].prompt
    BY <1>1, <1>7 DEF RequestType
  <1> QED
    BY <1>4, <1>7, <1>8

\* An event of a live request ends the turn, or leaves the request open.
LEMMA EventKeepsInv ==
  ASSUME Inv, NEW r \in DOMAIN requests, Live(r),
         NEW stage \in Stages, NEW turn, NEW session \in Maybe(Sessions),
         turns # <<>> => turn \in TurnType,
         turns # <<>> /\ turn.status = "planning" => stage = "open",
         Event(r, stage, turn, session)
  PROVE  Inv'
  <1>1. /\ turns' \in Seq(TurnType) /\ Len(turns') = Len(turns)
        /\ requests' \in Seq(RequestType) /\ Len(requests') = Len(requests)
        /\ DOMAIN requests' = DOMAIN requests
        /\ requests'[r].stage = stage
        /\ \A q \in DOMAIN requests : q # r => requests'[q] = requests[q]
    BY EventEffect
  <1>2. turns # <<>> => turns'[Len(turns)].status = turn.status
    <2>1. turns # <<>> => turns'[Len(turns)] = [turn EXCEPT !.heard = @ \cup {r}]
      BY EventEffect, LastTurnType DEF Inv
    <2> QED
      BY <2>1 DEF TurnType
  <1>3. TypeOK'
    BY <1>1 DEF Event, history, Inv, TypeOK
  <1>4. r = current /\ current' = current
    BY DEF Event, Inv, OneStream
  <1>5. OneStream'
    BY <1>1, <1>4 DEF Inv, OneStream, Live
  <1>6. Busy' => turns # <<>> /\ turn.status = "planning"
    BY <1>1, <1>2, EmptySeq DEF Busy, LastTurn, Inv, TypeOK
  <1>7. BusyIsServed'
    BY <1>1, <1>6 DEF BusyIsServed
  <1> QED
    BY <1>3, <1>5, <1>7 DEF Inv

-----------------------------------------------------------------------------
(* One lemma per action. *)

LEMMA SubmitPromptKeepsInv == ASSUME Inv, SubmitPrompt PROVE Inv'
  <1> DEFINE n == Len(requests) + 1
             to == IF FollowsUp THEN sessionId ELSE n
             turn == Turn(n, "planning", None)
  <1>1. Sends(n, to) /\ turns' = Append(turns, turn)
    BY DEF SubmitPrompt
  <1>2. n \in 1..MaxRequests /\ to \in Sessions
    BY DEF SubmitPrompt, Sends, FollowsUp, Inv, TypeOK, Maybe, Sessions
  <1>3. turn \in TurnType
    BY <1>2 DEF Turn, TurnType, Statuses, Maybe
  <1>4. turns' \in Seq(TurnType)
    BY <1>1, <1>3 DEF Inv, TypeOK
  <1>5. n \in 0..MaxRequests
    BY <1>2
  <1>6. /\ requests' \in Seq(RequestType) /\ Len(requests') <= MaxRequests
        /\ current' \in Maybe(1..MaxRequests) /\ OneStream'
        /\ \E r \in DOMAIN requests' : requests'[r].stage = "open"
    BY <1>1, <1>2, <1>5, SendsKeepsOne
  <1>7. TypeOK'
    BY <1>4, <1>6 DEF SubmitPrompt, history, Inv, TypeOK
  <1> QED
    BY <1>6, <1>7 DEF Inv, BusyIsServed

LEMMA SubmitClarificationKeepsInv ==
  ASSUME Inv, NEW i \in DOMAIN turns, SubmitClarification(i) PROVE Inv'
  <1>1. turns # <<>> /\ turns[i] \in TurnType
    BY ElementOfSeq DEF Inv, TypeOK
  <1>2. Sends(turns[i].prompt, sessionId)
    BY DEF SubmitClarification
  <1>3. turns[i].prompt \in 0..MaxRequests /\ sessionId \in Sessions
    BY <1>1 DEF SubmitClarification, TurnType, Inv, TypeOK, Maybe
  <1>4. [LastTurn EXCEPT !.status = "planning"] \in TurnType
    BY <1>1, LastTurnType DEF Inv, TurnType, Statuses
  <1>5. turns' \in Seq(TurnType)
    BY <1>4, PatchedType DEF SubmitClarification, Inv
  <1>6. strayed' \in BOOLEAN
    BY DEF SubmitClarification, Inv, TypeOK
  <1>7. TypeOK'
    BY <1>2, <1>3, <1>5, <1>6, SendsKeepsOne DEF SubmitClarification, Inv, TypeOK
  <1> QED
    BY <1>2, <1>3, <1>7, SendsKeepsOne DEF Inv, BusyIsServed

LEMMA PressStopKeepsInv == ASSUME Inv, PressStop PROVE Inv'
  <1>1. stops' \in Nat
    BY DEF PressStop, Inv, TypeOK
  <1>2. CASE sessionId = None
    <2>1. Stopped
      BY <1>2 DEF PressStop
    <2> QED
      BY <1>1, <1>2, <2>1, StoppedKeepsInv DEF PressStop, Inv, TypeOK, Maybe
  <1>3. CASE sessionId # None
    <2>1. stopping' \in Nat /\ UNCHANGED <<requests, current, turns>>
      BY <1>3 DEF PressStop, Inv, TypeOK
    <2>2. TypeOK'
      BY <1>1, <2>1 DEF PressStop, Inv, TypeOK
    <2>3. OneStream' /\ BusyIsServed'
      BY <2>1 DEF Inv, OneStream, BusyIsServed, Busy, LastTurn, Live
    <2> QED
      BY <2>2, <2>3 DEF Inv
  <1> QED
    BY <1>2, <1>3

LEMMA StopReturnsKeepsInv == ASSUME Inv, StopReturns PROVE Inv'
  <1>1. Stopped /\ stopping' \in Nat
    BY DEF StopReturns, Inv, TypeOK
  <1> QED
    BY <1>1, StoppedKeepsInv DEF StopReturns, history, Inv, TypeOK, Maybe

LEMMA EndsKeepsInv ==
  ASSUME Inv, NEW r \in DOMAIN requests, Ends(r) \/ AgentEvent(r) PROVE Inv'
  <1>1. requests[r] \in RequestType /\ requests[r].session \in Maybe(Sessions)
    <2>1. requests[r] \in RequestType
      BY ElementOfSeq DEF Inv, TypeOK
    <2> QED
      BY <2>1 DEF RequestType, Maybe
  <1>2. turns # <<>> => LastTurn \in TurnType
    BY LastTurnType DEF Inv
  <1>3. sessionId \in Maybe(Sessions)
    BY DEF Inv, TypeOK
  <1>4. turns # <<>> => [LastTurn EXCEPT !.status = "error"] \in TurnType
    BY <1>2 DEF TurnType, Statuses
  <1>5. CASE AgentEvent(r)
    BY <1>1, <1>2, <1>5, EventKeepsInv DEF AgentEvent, Live, Stages
  <1>6. CASE NeedsClarification(r)
    <2> DEFINE turn == [LastTurn EXCEPT !.status = "awaiting_clarification",
                                        !.asker = requests[r].session]
    <2>1. turns # <<>> => turn \in TurnType /\ turn.status # "planning"
      BY <1>1, <1>2 DEF TurnType, Statuses
    <2>2. Live(r) /\ Event(r, "ended", turn, requests[r].session)
      BY <1>6 DEF NeedsClarification, Live
    <2> QED
      BY <1>1, <2>1, <2>2, EventKeepsInv DEF Stages
  <1>7. CASE Complete(r)
    <2>1. PICK plan \in {None, requests[r].session} :
            Event(r, "completed", [LastTurn EXCEPT !.status = "complete", !.plan = plan],
                  requests[r].session)
      BY <1>7 DEF Complete
    <2> DEFINE turn == [LastTurn EXCEPT !.status = "complete", !.plan = plan]
    <2>2. plan \in Maybe(Sessions)
      BY <1>1 DEF Maybe
    <2>3. turns # <<>> => turn \in TurnType /\ turn.status # "planning"
      BY <1>2, <2>2 DEF TurnType, Statuses
    <2>4. Live(r)
      BY <1>7 DEF Complete, Live
    <2> QED
      BY <1>1, <2>1, <2>3, <2>4, EventKeepsInv DEF Stages
  <1>8. CASE UsageSummary(r)
    <2>1. Live(r) /\ requests[r].stage # "open"
      BY <1>8 DEF UsageSummary, Live
    <2>2. turns # <<>> => LastTurn.status # "planning"
      BY <2>1 DEF Inv, BusyIsServed, OneStream, Busy, Live
    <2> QED
      BY <1>2, <1>3, <1>8, <2>1, <2>2, EventKeepsInv DEF UsageSummary, Stages
  <1>9. CASE ErrorEvent(r)
    <2>1. turns # <<>> => [LastTurn EXCEPT !.status = "error"].status # "planning"
      BY <1>2 DEF TurnType
    <2> QED
      BY <1>3, <1>4, <1>9, <2>1, EventKeepsInv DEF ErrorEvent, Live, Stages
  <1>10. CASE Breaks(r)
    <2>1. turns # <<>> => [LastTurn EXCEPT !.status = "error"].status # "planning"
      BY <1>2 DEF TurnType
    <2> QED
      BY <1>3, <1>4, <1>10, <2>1, EventKeepsInv DEF Breaks, Stages
  <1>11. CASE Closes(r)
    <2>1. CASE requests[r].stage = "open" /\ Busy
      <3>1. Event(r, "closed", [LastTurn EXCEPT !.status = "error"], sessionId)
        BY <1>11, <2>1 DEF Closes
      <3>2. turns # <<>> => [LastTurn EXCEPT !.status = "error"].status # "planning"
        BY <1>2 DEF TurnType
      <3> QED
        BY <1>3, <1>4, <2>1, <3>1, <3>2, EventKeepsInv DEF Live, Stages
    <2>2. CASE ~(requests[r].stage = "open" /\ Busy)
      <3>1. ~Busy
        BY <1>11, <2>2 DEF Closes, Inv, BusyIsServed, OneStream, Live
      <3>2. requests' = [requests EXCEPT ![r] = [requests[r] EXCEPT !.stage = "closed"]]
        BY <1>11, <2>2 DEF Closes
      <3>3. [requests[r] EXCEPT !.stage = "closed"] \in RequestType
        BY <1>1 DEF RequestType, Stages
      <3>4. /\ requests' \in Seq(RequestType) /\ Len(requests') = Len(requests)
            /\ DOMAIN requests' = DOMAIN requests
            /\ requests'[r].stage = "closed"
            /\ \A q \in DOMAIN requests : q # r => requests'[q] = requests[q]
        BY <1>1, <3>2, <3>3 DEF Inv, TypeOK, RequestType
      <3>5. UNCHANGED <<page, stopping, hydrating, history>>
        BY <1>11, <2>2 DEF Closes
      <3>6. TypeOK'
        BY <3>4, <3>5 DEF page, history, Inv, TypeOK
      <3>7. OneStream'
        BY <3>4, <3>5 DEF page, Inv, OneStream, Live
      <3>8. BusyIsServed'
        BY <3>1, <3>5 DEF page, BusyIsServed, Busy, LastTurn
      <3> QED
        BY <3>6, <3>7, <3>8 DEF Inv
    <2> QED
      BY <2>1, <2>2
  <1> QED
    BY <1>5, <1>6, <1>7, <1>8, <1>9, <1>10, <1>11 DEF Ends

LEMMA HydrateKeepsInv == ASSUME Inv, Hydrate PROVE Inv'
  <1>1. turns' \in Seq(TurnType) /\ ~Busy'
    <2>1. CASE turns' = <<>>
      BY <2>1 DEF Busy
    <2>2. CASE \E plan \in {None, SavedSession} : turns' = <<Turn(0, "complete", plan)>>
      <3>1. PICK plan \in {None, SavedSession} : turns' = <<Turn(0, "complete", plan)>>
        BY <2>2
      <3>2. Turn(0, "complete", plan) \in TurnType
        BY DEF Turn, TurnType, Statuses, Maybe, Sessions, SavedSession
      <3>3. Turn(0, "complete", plan).status # "planning"
        BY DEF Turn
      <3> QED
        BY <3>1, <3>2, <3>3 DEF Busy, LastTurn
    <2> QED
      BY <2>1, <2>2 DEF Hydrate
  <1>2. sessionId' \in Maybe(Sessions)
    BY DEF Hydrate, Maybe, Sessions, SavedSession
  <1>3. TypeOK'
    BY <1>1, <1>2 DEF Hydrate, history, Inv, TypeOK
  <1> QED
    BY <1>1, <1>3 DEF Hydrate, Inv, OneStream, BusyIsServed, Live

-----------------------------------------------------------------------------
LEMMA InitInv == Init => Inv
  <1> SUFFICES ASSUME Init PROVE Inv
    OBVIOUS
  <1>1. turns \in Seq(TurnType) /\ requests \in Seq(RequestType) /\ Len(requests) = 0
    BY EmptySeq DEF Init
  <1>2. TypeOK
    <2>1. hydrating \in BOOLEAN
      BY Zenon DEF Init
    <2>2. strayed \in BOOLEAN /\ opening \in {"fresh", "saved"}
      BY DEF Init
    <2>3. current \in Maybe(1..MaxRequests) /\ sessionId \in Maybe(Sessions)
      BY DEF Init, Maybe
    <2>4. stopping \in Nat /\ stops \in Nat /\ Len(requests) <= MaxRequests
      BY <1>1 DEF Init
    <2> QED
      BY <1>1, <2>1, <2>2, <2>3, <2>4 DEF TypeOK
  <1>3. DOMAIN requests = {}
    BY <1>1
  <1>4. ~Busy
    BY DEF Init, Busy
  <1> QED
    BY <1>2, <1>3, <1>4 DEF Inv, OneStream, BusyIsServed

LEMMA NextInv == Inv /\ [Next]_vars => Inv'
  <1> SUFFICES ASSUME Inv, [Next]_vars PROVE Inv'
    OBVIOUS
  <1>1. CASE User
    BY <1>1, SubmitPromptKeepsInv, SubmitClarificationKeepsInv, PressStopKeepsInv DEF User
  <1>2. CASE StreamEnds \/ \E r \in DOMAIN requests : AgentEvent(r)
    BY <1>2, EndsKeepsInv DEF StreamEnds
  <1>3. CASE UNCHANGED vars
    BY <1>3 DEF vars, page, history, Inv, TypeOK, OneStream, BusyIsServed, Busy, LastTurn, Live
  <1> QED
    BY <1>1, <1>2, <1>3, StopReturnsKeepsInv, HydrateKeepsInv DEF Next

LEMMA SpecInv == Spec => []Inv
  BY InitInv, NextInv, PTL DEF Spec

\* The types of the page's state (use-trip-planner.ts:22-69).
THEOREM TypeCorrect == Spec => []TypeOK
  BY SpecInv, PTL DEF Inv

\* One stream speaks to the page at a time, however prompts, forms, Stop and a
\* saved session that arrives late follow on one another.
THEOREM OneStreamHolds == Spec => []OneStream
  BY SpecInv, PTL DEF Inv

\* A turn in progress always has a stream that can end it.
THEOREM BusyIsServedHolds == Spec => []BusyIsServed
  BY SpecInv, PTL DEF Inv

-----------------------------------------------------------------------------
(* Responses match their prompts: what a live request says belongs to the  *)
(* last turn, and nothing else is heard.                                   *)

LiveAnswersLast ==
  \A r \in DOMAIN requests : Live(r) => turns # <<>> /\ requests[r].prompt = LastTurn.prompt

HeardMatch ==
  \A i \in DOMAIN turns : \A r \in turns[i].heard :
    r \in DOMAIN requests /\ requests[r].prompt = turns[i].prompt

Matching == Orderly => ~hydrating /\ LiveAnswersLast /\ HeardMatch

\* The turns keep what they heard, and no request is revived.
LEMMA MatchingKept ==
  ASSUME Inv, Matching,
         turns' \in Seq(TurnType), Len(turns') = Len(turns),
         \A i \in 1..Len(turns) : /\ turns'[i].prompt = turns[i].prompt
                                  /\ turns'[i].heard = turns[i].heard,
         DOMAIN requests' = DOMAIN requests,
         \A r \in DOMAIN requests : /\ requests'[r].prompt = requests[r].prompt
                                    /\ Live(r)' => Live(r),
         UNCHANGED <<hydrating, opening, strayed>>
  PROVE  Matching'
  <1> SUFFICES ASSUME Orderly' PROVE (~hydrating /\ LiveAnswersLast /\ HeardMatch)'
    BY DEF Matching
  <1>1. ~hydrating /\ LiveAnswersLast /\ HeardMatch
    BY DEF Orderly, Matching
  <1>2. DOMAIN turns = 1..Len(turns) /\ DOMAIN turns' = 1..Len(turns)
    BY DEF Inv, TypeOK
  <1>3. HeardMatch'
    <2> SUFFICES ASSUME NEW i \in 1..Len(turns), NEW r \in turns'[i].heard
                 PROVE  r \in DOMAIN requests /\ requests'[r].prompt = turns'[i].prompt
      BY <1>2 DEF HeardMatch
    <2>1. r \in DOMAIN requests /\ requests[r].prompt = turns[i].prompt
      BY <1>1, <1>2 DEF HeardMatch
    <2> QED
      BY <2>1
  <1>4. turns # <<>> => turns' # <<>> /\ LastTurn'.prompt = LastTurn.prompt
    BY LastTurnType DEF Inv, TypeOK, LastTurn
  <1>5. LiveAnswersLast'
    <2> SUFFICES ASSUME NEW r \in DOMAIN requests, Live(r)'
                 PROVE  turns' # <<>> /\ requests'[r].prompt = LastTurn'.prompt
      BY DEF LiveAnswersLast
    <2>1. turns # <<>> /\ requests[r].prompt = LastTurn.prompt
      BY <1>1 DEF LiveAnswersLast
    <2> QED
      BY <1>4, <2>1
  <1> QED
    BY <1>1, <1>3, <1>5

LEMMA StoppedKeepsMatching ==
  ASSUME Inv, Matching, Stopped, UNCHANGED <<hydrating, opening, strayed>>
  PROVE  Matching'
  <1>1. turns' \in Seq(TurnType) /\ Len(requests') = Len(requests) /\ requests' \in Seq(RequestType)
    BY StoppedKeepsInv
  <1>2. DOMAIN requests' = DOMAIN requests
    BY <1>1 DEF Inv, TypeOK
  <1>3. \A r \in DOMAIN requests :
          /\ requests'[r].prompt = requests[r].prompt
          /\ requests'[r].stage = IF r = current /\ Live(r) THEN "aborted" ELSE requests[r].stage
    BY <1>1, AbortedType DEF Stopped, Inv, TypeOK
  <1>4. \A r \in DOMAIN requests : Live(r)' => Live(r)
    BY <1>3 DEF Live
  <1> DEFINE ended == [LastTurn EXCEPT !.status = "error"]
  <1>5. /\ Len(turns') = Len(turns)
        /\ \A i \in 1..Len(turns) : /\ turns'[i].prompt = turns[i].prompt
                                    /\ turns'[i].heard = turns[i].heard
    <2>1. CASE Busy
      <3>1. turns # <<>> /\ turns' = Patched(ended) /\ LastTurn \in TurnType
        BY <2>1, LastTurnType DEF Stopped, Busy, Inv
      <3>2. ended \in TurnType /\ ended.prompt = LastTurn.prompt /\ ended.heard = LastTurn.heard
        BY <3>1 DEF TurnType, Statuses
      <3>3. /\ Len(turns') = Len(turns)
            /\ \A i \in 1..Len(turns) : turns'[i] = IF i = Len(turns) THEN ended ELSE turns[i]
        BY <3>1, <3>2, PatchedType DEF Inv
      <3> QED
        BY <3>2, <3>3 DEF LastTurn
    <2>2. CASE ~Busy
      BY <2>2 DEF Stopped
    <2> QED
      BY <2>1, <2>2
  <1> QED
    BY <1>1, <1>2, <1>3, <1>4, <1>5, MatchingKept

LEMMA EventKeepsMatching ==
  ASSUME Inv, Matching, NEW r \in DOMAIN requests, Live(r), NEW stage \in Stages, NEW turn,
         NEW session, Event(r, stage, turn, session),
         turns # <<>> => /\ turn \in TurnType
                         /\ turn.prompt = LastTurn.prompt /\ turn.heard = LastTurn.heard
  PROVE  Matching'
  <1> SUFFICES ASSUME Orderly' PROVE (~hydrating /\ LiveAnswersLast /\ HeardMatch)'
    BY DEF Matching
  <1>1. ~hydrating /\ ~hydrating' /\ LiveAnswersLast /\ HeardMatch
    BY DEF Orderly, Matching, Event, history
  <1>2. turns # <<>> /\ requests[r].prompt = LastTurn.prompt
    BY <1>1 DEF LiveAnswersLast
  <1> DEFINE heard == [turn EXCEPT !.heard = @ \cup {r}]
  <1>3. heard.prompt = LastTurn.prompt /\ heard.heard = LastTurn.heard \cup {r}
    BY <1>2 DEF TurnType
  <1>4. /\ turns' \in Seq(TurnType) /\ Len(turns') = Len(turns)
        /\ \A i \in 1..Len(turns) : turns'[i] = IF i = Len(turns) THEN heard ELSE turns[i]
        /\ DOMAIN requests' = DOMAIN requests
        /\ requests'[r].prompt = requests[r].prompt
        /\ \A q \in DOMAIN requests : q # r => requests'[q] = requests[q]
    BY <1>2, EventEffect
  <1>5. DOMAIN turns = 1..Len(turns) /\ DOMAIN turns' = 1..Len(turns) /\ Len(turns) \in 1..Len(turns)
    BY <1>2, <1>4, LastTurnType DEF Inv, TypeOK
  <1>6. HeardMatch'
    <2> SUFFICES ASSUME NEW i \in 1..Len(turns), NEW q \in turns'[i].heard
                 PROVE  q \in DOMAIN requests /\ requests'[q].prompt = turns'[i].prompt
      BY <1>4, <1>5 DEF HeardMatch
    <2>1. turns'[i].prompt = turns[i].prompt /\ (q \in turns[i].heard \/ (i = Len(turns) /\ q = r))
      BY <1>3, <1>4 DEF LastTurn
    <2>2. q \in DOMAIN requests /\ requests[q].prompt = turns[i].prompt
      BY <1>1, <1>2, <1>5, <2>1 DEF HeardMatch, LastTurn
    <2> QED
      BY <1>4, <2>1, <2>2
  <1>7. LastTurn'.prompt = LastTurn.prompt /\ turns' # <<>>
    <2>1. turns'[Len(turns')] = heard
      BY <1>4, <1>5
    <2>2. turns' # <<>>
      BY <1>4, <1>5
    <2> QED
      BY <1>3, <2>1, <2>2 DEF LastTurn
  <1>8. LiveAnswersLast'
    <2> SUFFICES ASSUME NEW q \in DOMAIN requests, Live(q)'
                 PROVE  requests'[q].prompt = LastTurn.prompt
      BY <1>4, <1>7 DEF LiveAnswersLast
    <2>1. CASE q = r
      BY <1>2, <1>4, <2>1
    <2>2. CASE q # r
      BY <1>1, <1>4, <2>2 DEF Live, LiveAnswersLast
    <2> QED
      BY <2>1, <2>2
  <1> QED
    BY <1>1, <1>6, <1>8

LEMMA SubmitPromptKeepsMatching == ASSUME Inv, Matching, SubmitPrompt PROVE Matching'
  <1> SUFFICES ASSUME Orderly' PROVE (~hydrating /\ LiveAnswersLast /\ HeardMatch)'
    BY DEF Matching
  <1> DEFINE n == Len(requests) + 1
             to == IF FollowsUp THEN sessionId ELSE n
             turn == Turn(n, "planning", None)
  <1>1. ~hydrating /\ ~hydrating' /\ HeardMatch
    BY DEF Orderly, Matching, SubmitPrompt, history
  <1>2. Sends(n, to) /\ turns' = Append(turns, turn)
    BY DEF SubmitPrompt
  <1>3. n \in 0..MaxRequests /\ to \in Sessions
    BY DEF SubmitPrompt, Sends, FollowsUp, Inv, TypeOK, Maybe, Sessions
  <1>4. /\ requests' \in Seq(RequestType) /\ Len(requests') = n
        /\ \A r \in 1..Len(requests) : requests'[r].prompt = requests[r].prompt
        /\ requests'[n].prompt = n /\ OneStream' /\ current' = n
    BY <1>2, <1>3, SendsKeepsOne DEF Sends
  <1>5. DOMAIN requests' = 1..n /\ DOMAIN requests = 1..Len(requests) /\ Len(requests) \in Nat
    BY <1>4 DEF Inv, TypeOK
  <1>6. turn.prompt = n /\ turn.heard = {}
    BY DEF Turn
  <1>7. /\ DOMAIN turns' = 1..(Len(turns) + 1) /\ DOMAIN turns = 1..Len(turns)
        /\ Len(turns') = Len(turns) + 1 /\ turns' # <<>> /\ Len(turns) \in Nat
        /\ turns'[Len(turns) + 1] = turn
        /\ \A i \in 1..Len(turns) : turns'[i] = turns[i]
    BY <1>2 DEF Inv, TypeOK
  <1>8. HeardMatch'
    <2> SUFFICES ASSUME NEW i \in 1..(Len(turns) + 1), NEW r \in turns'[i].heard
                 PROVE  r \in DOMAIN requests' /\ requests'[r].prompt = turns'[i].prompt
      BY <1>7 DEF HeardMatch
    <2>1. i \in 1..Len(turns)
      BY <1>6, <1>7
    <2>2. r \in DOMAIN requests /\ requests[r].prompt = turns[i].prompt
      BY <1>1, <1>7, <2>1 DEF HeardMatch
    <2> QED
      BY <1>4, <1>5, <1>7, <2>1, <2>2
  <1>9. LastTurn'.prompt = n
    BY <1>6, <1>7 DEF LastTurn
  <1>10. LiveAnswersLast'
    BY <1>4, <1>7, <1>9 DEF LiveAnswersLast, OneStream
  <1> QED
    BY <1>1, <1>8, <1>10

LEMMA SubmitClarificationKeepsMatching ==
  ASSUME Inv, Matching, NEW i \in DOMAIN turns, SubmitClarification(i) PROVE Matching'
  <1> SUFFICES ASSUME Orderly' PROVE (~hydrating /\ LiveAnswersLast /\ HeardMatch)'
    BY DEF Matching
  <1> DEFINE n == Len(requests) + 1
             turn == [LastTurn EXCEPT !.status = "planning"]
  <1>1. ~strayed /\ i = Len(turns) /\ ~hydrating /\ ~hydrating' /\ HeardMatch
    <2>1. strayed' = FALSE /\ strayed' = (strayed \/ i # Len(turns))
      BY Zenon DEF Orderly, SubmitClarification
    <2>2. ~strayed /\ i = Len(turns)
      BY <2>1
    <2> QED
      BY <2>2 DEF Orderly, Matching, SubmitClarification
  <1>2. turns # <<>> /\ LastTurn \in TurnType /\ Len(turns) \in 1..Len(turns)
    BY LastTurnType DEF Inv, TypeOK
  <1>3. Sends(LastTurn.prompt, sessionId) /\ turns' = Patched(turn)
    BY <1>1 DEF SubmitClarification, LastTurn
  <1>4. LastTurn.prompt \in 0..MaxRequests /\ sessionId \in Sessions
    BY <1>2 DEF SubmitClarification, TurnType, Inv, TypeOK, Maybe
  <1>5. /\ requests' \in Seq(RequestType) /\ Len(requests') = n
        /\ \A r \in 1..Len(requests) : requests'[r].prompt = requests[r].prompt
        /\ requests'[n].prompt = LastTurn.prompt /\ OneStream' /\ current' = n
    BY <1>3, <1>4, SendsKeepsOne DEF Sends
  <1>6. DOMAIN requests' = 1..n /\ DOMAIN requests = 1..Len(requests) /\ Len(requests) \in Nat
    BY <1>5 DEF Inv, TypeOK
  <1>7. turn \in TurnType /\ turn.prompt = LastTurn.prompt /\ turn.heard = LastTurn.heard
    BY <1>2 DEF TurnType, Statuses
  <1>8. /\ turns' \in Seq(TurnType) /\ Len(turns') = Len(turns) /\ turns' # <<>>
        /\ \A j \in 1..Len(turns) : turns'[j] = IF j = Len(turns) THEN turn ELSE turns[j]
    BY <1>2, <1>3, <1>7, PatchedType DEF Inv
  <1>9. DOMAIN turns' = 1..Len(turns) /\ DOMAIN turns = 1..Len(turns)
    BY <1>8 DEF Inv, TypeOK
  <1>10. HeardMatch'
    <2> SUFFICES ASSUME NEW j \in 1..Len(turns), NEW r \in turns'[j].heard
                 PROVE  r \in DOMAIN requests' /\ requests'[r].prompt = turns'[j].prompt
      BY <1>9 DEF HeardMatch
    <2>1. turns'[j].heard = turns[j].heard /\ turns'[j].prompt = turns[j].prompt
      BY <1>7, <1>8 DEF LastTurn
    <2>2. r \in DOMAIN requests /\ requests[r].prompt = turns[j].prompt
      BY <1>1, <1>9, <2>1 DEF HeardMatch
    <2> QED
      BY <1>5, <1>6, <2>1, <2>2
  <1>11. LastTurn'.prompt = LastTurn.prompt
    <2>1. turns'[Len(turns')] = turn
      BY <1>2, <1>8
    <2> QED
      BY <1>7, <2>1 DEF LastTurn
  <1>12. LiveAnswersLast'
    BY <1>5, <1>8, <1>11 DEF LiveAnswersLast, OneStream
  <1> QED
    BY <1>1, <1>10, <1>12

LEMMA EndsKeepsMatching ==
  ASSUME Inv, Matching, NEW r \in DOMAIN requests, Ends(r) \/ AgentEvent(r) PROVE Matching'
  <1>1. requests[r] \in RequestType
    BY ElementOfSeq DEF Inv, TypeOK
  <1>2. turns # <<>> => LastTurn \in TurnType
    BY LastTurnType DEF Inv
  <1>3. requests[r].session \in Maybe(Sessions)
    BY <1>1 DEF RequestType, Maybe
  <1> DEFINE failed == [LastTurn EXCEPT !.status = "error"]
  <1>4. turns # <<>> => /\ failed \in TurnType /\ failed.prompt = LastTurn.prompt
                        /\ failed.heard = LastTurn.heard
    BY <1>2 DEF TurnType, Statuses
  <1>5. CASE AgentEvent(r)
    BY <1>2, <1>5, EventKeepsMatching DEF AgentEvent, Live, Stages
  <1>6. CASE NeedsClarification(r)
    <2> DEFINE turn == [LastTurn EXCEPT !.status = "awaiting_clarification",
                                        !.asker = requests[r].session]
    <2>1. turns # <<>> => /\ turn \in TurnType /\ turn.prompt = LastTurn.prompt
                          /\ turn.heard = LastTurn.heard
      BY <1>2, <1>3 DEF TurnType, Statuses
    <2>2. Live(r) /\ Event(r, "ended", turn, requests[r].session)
      BY <1>6 DEF NeedsClarification, Live
    <2> QED
      BY <2>1, <2>2, EventKeepsMatching DEF Stages
  <1>7. CASE Complete(r)
    <2>1. PICK plan \in {None, requests[r].session} :
            Event(r, "completed", [LastTurn EXCEPT !.status = "complete", !.plan = plan],
                  requests[r].session)
      BY <1>7 DEF Complete
    <2> DEFINE turn == [LastTurn EXCEPT !.status = "complete", !.plan = plan]
    <2>2. plan \in Maybe(Sessions)
      BY <1>3 DEF Maybe
    <2>3. turns # <<>> => /\ turn \in TurnType /\ turn.prompt = LastTurn.prompt
                          /\ turn.heard = LastTurn.heard
      BY <1>2, <2>2 DEF TurnType, Statuses
    <2>4. Live(r)
      BY <1>7 DEF Complete, Live
    <2> QED
      BY <2>1, <2>3, <2>4, EventKeepsMatching DEF Stages
  <1>8. CASE UsageSummary(r)
    BY <1>2, <1>8, EventKeepsMatching DEF UsageSummary, Live, Stages
  <1>9. CASE ErrorEvent(r)
    BY <1>4, <1>9, EventKeepsMatching DEF ErrorEvent, Live, Stages
  <1>10. CASE Breaks(r)
    BY <1>4, <1>10, EventKeepsMatching DEF Breaks, Stages
  <1>11. CASE Closes(r)
    <2>1. CASE requests[r].stage = "open" /\ Busy
      BY <1>4, <1>11, <2>1, EventKeepsMatching DEF Closes, Live, Stages
    <2>2. CASE ~(requests[r].stage = "open" /\ Busy)
      <3>1. /\ requests' = [requests EXCEPT ![r] = [requests[r] EXCEPT !.stage = "closed"]]
            /\ UNCHANGED <<page, stopping, hydrating, history>>
        BY <1>11, <2>2 DEF Closes
      <3>2. turns' = turns /\ UNCHANGED <<hydrating, opening, strayed>>
        BY <3>1 DEF page, history
      <3>3. DOMAIN requests' = DOMAIN requests
        BY <3>1
      <3>4. requests'[r].prompt = requests[r].prompt /\ ~Live(r)'
        BY <1>1, <3>1 DEF RequestType, Live
      <3>5. \A q \in DOMAIN requests : q # r => requests'[q] = requests[q]
        BY <3>1
      <3>6. \A q \in DOMAIN requests : requests'[q].prompt = requests[q].prompt
        BY <3>4, <3>5
      <3>7. \A q \in DOMAIN requests : Live(q)' => Live(q)
        BY <3>4, <3>5 DEF Live
      <3> QED
        BY <3>2, <3>3, <3>6, <3>7, MatchingKept DEF Inv, TypeOK
    <2> QED
      BY <2>1, <2>2
  <1> QED
    BY <1>5, <1>6, <1>7, <1>8, <1>9, <1>10, <1>11 DEF Ends

LEMMA PressStopKeepsMatching == ASSUME Inv, Matching, PressStop PROVE Matching'
  <1>1. UNCHANGED <<hydrating, opening, strayed>>
    BY DEF PressStop
  <1>2. CASE sessionId = None
    BY <1>1, <1>2, StoppedKeepsMatching DEF PressStop
  <1>3. CASE sessionId # None
    <2>1. UNCHANGED <<requests, turns>>
      BY <1>3 DEF PressStop
    <2> QED
      BY <1>1, <2>1, MatchingKept DEF Live, Inv, TypeOK
  <1> QED
    BY <1>2, <1>3

LEMMA StopReturnsKeepsMatching == ASSUME Inv, Matching, StopReturns PROVE Matching'
  BY StoppedKeepsMatching DEF StopReturns, history

LEMMA NextMatching == Inv /\ Matching /\ [Next]_vars => Matching'
  <1> SUFFICES ASSUME Inv, Matching, [Next]_vars PROVE Matching'
    OBVIOUS
  <1>1. CASE User
    BY <1>1, SubmitPromptKeepsMatching, SubmitClarificationKeepsMatching, PressStopKeepsMatching
       DEF User
  <1>2. CASE StreamEnds \/ \E r \in DOMAIN requests : AgentEvent(r)
    BY <1>2, EndsKeepsMatching DEF StreamEnds
  <1>3. CASE Hydrate
    \* Only a saved session is fetched, and then nothing is promised.
    <2>1. ~Orderly'
      BY <1>3 DEF Hydrate, Matching, Orderly, history
    <2> QED
      BY <2>1 DEF Matching
  <1>4. CASE UNCHANGED vars
    BY <1>4, MatchingKept DEF vars, page, history, Inv, TypeOK, Live
  <1> QED
    BY <1>1, <1>2, <1>3, <1>4, StopReturnsKeepsMatching DEF Next

LEMMA InitMatching == Init => Matching
  <1> SUFFICES ASSUME Init, Orderly PROVE ~hydrating /\ LiveAnswersLast /\ HeardMatch
    BY DEF Matching
  <1>1. ~hydrating
    BY DEF Init, Orderly
  <1>2. LiveAnswersLast /\ HeardMatch
    BY DEF Init, LiveAnswersLast, HeardMatch
  <1> QED
    BY <1>1, <1>2

\* On a new chat whose forms are used in order, a turn shows only what was
\* answered to its own prompt, although every event goes to the last turn.
THEOREM ResponsesMatchHolds == Spec => []ResponsesMatchPrompts
  <1>1. Inv /\ Matching => ResponsesMatchPrompts
    BY DEF Matching, HeardMatch, ResponsesMatchPrompts
  <1> QED
    BY <1>1, SpecInv, InitMatching, NextMatching, PTL DEF Spec

-----------------------------------------------------------------------------
(* Requests reach their session: once the last turn waits for answers or    *)
(* has a plan, no request is open any more, so the session the page takes   *)
(* from the next event cannot change under it.                              *)

NoneOpen == \A r \in DOMAIN requests : requests[r].stage # "open"

AskerKnown ==
  turns # <<>> /\ LastTurn.status = "awaiting_clarification"
    => LastTurn.asker = sessionId /\ NoneOpen

PlanKnown ==
  Orderly /\ turns # <<>> /\ LastTurn.plan # None
    => LastTurn.plan = sessionId /\ LastTurn.status # "awaiting_clarification" /\ NoneOpen

Addressed == AskerKnown /\ PlanKnown

\* The last turn keeps its asker and its plan, or fails; no request is opened.
LEMMA AddressedKept ==
  ASSUME Addressed, Orderly' => Orderly, NoneOpen => NoneOpen', sessionId' = sessionId,
         turns' # <<>> => /\ turns # <<>>
                          /\ LastTurn'.asker = LastTurn.asker /\ LastTurn'.plan = LastTurn.plan
                          /\ LastTurn'.status \in {LastTurn.status, "error"}
  PROVE  Addressed'
  <1>1. AskerKnown'
    BY DEF Addressed, AskerKnown
  <1>2. PlanKnown'
    BY DEF Addressed, PlanKnown
  <1>3. QED
    BY <1>1, <1>2 DEF Addressed

LEMMA EventAddresses ==
  ASSUME Inv, Addressed, NEW r \in DOMAIN requests, Live(r), NEW stage \in Stages, NEW turn,
         NEW session, Event(r, stage, turn, session), turns # <<>> => turn \in TurnType,
         stage = "open" => requests[r].stage = "open" /\ turn = LastTurn,
         stage # "open" /\ turns # <<>> =>
           /\ turn.status = "awaiting_clarification" => turn.asker = session
           /\ Orderly /\ turn.plan # None =>
                turn.plan = session /\ turn.status # "awaiting_clarification"
  PROVE  Addressed'
  <1>1. /\ turns' \in Seq(TurnType) /\ Len(turns') = Len(turns)
        /\ \A i \in 1..Len(turns) : turns'[i] =
             IF i = Len(turns) THEN [turn EXCEPT !.heard = @ \cup {r}] ELSE turns[i]
        /\ DOMAIN requests' = DOMAIN requests
        /\ requests'[r].stage = stage
        /\ \A q \in DOMAIN requests : q # r => requests'[q] = requests[q]
    BY EventEffect
  <1>2. sessionId' = session /\ (Orderly' => Orderly)
    BY DEF Event, history, Orderly
  <1>3. turns' # <<>> => turns # <<>>
    BY <1>1 DEF Inv, TypeOK
  <1>4. turns # <<>> => /\ LastTurn'.status = turn.status /\ LastTurn'.asker = turn.asker
                        /\ LastTurn'.plan = turn.plan
    <2> SUFFICES ASSUME turns # <<>>
                 PROVE  /\ LastTurn'.status = turn.status /\ LastTurn'.asker = turn.asker
                        /\ LastTurn'.plan = turn.plan
      OBVIOUS
    <2>1. LastTurn' = [turn EXCEPT !.heard = @ \cup {r}]
      BY <1>1, LastTurnType DEF LastTurn, Inv
    <2>2. QED
      BY <2>1 DEF TurnType
  <1>5. CASE stage = "open"
    <2>1. ~NoneOpen
      BY <1>5 DEF NoneOpen
    <2>2. turns # <<>> => turn.status # "awaiting_clarification" /\ (Orderly => turn.plan = None)
      BY <1>5, <2>1 DEF Addressed, AskerKnown, PlanKnown
    <2>3. QED
      BY <1>2, <1>3, <1>4, <2>2 DEF Addressed, AskerKnown, PlanKnown
  <1>6. CASE stage # "open"
    <2>1. \A q \in DOMAIN requests : q # r => requests[q].stage # "open"
      BY DEF Inv, OneStream, Live
    <2>2. NoneOpen'
      BY <1>1, <1>6, <2>1 DEF NoneOpen
    <2>3. AskerKnown'
      BY <1>2, <1>3, <1>4, <1>6, <2>2 DEF AskerKnown
    <2>4. PlanKnown'
      BY <1>2, <1>3, <1>4, <1>6, <2>2 DEF PlanKnown
    <2>5. QED
      BY <2>3, <2>4 DEF Addressed
  <1>7. QED
    BY <1>5, <1>6

LEMMA StoppedAddresses ==
  ASSUME Inv, Addressed, Stopped, UNCHANGED <<sessionId, opening, strayed>>
  PROVE  Addressed'
  <1>1. Orderly' => Orderly
    BY DEF Orderly
  <1>2. NoneOpen => NoneOpen'
    <2>1. DOMAIN requests' = DOMAIN requests
      BY DEF Stopped, Aborted
    <2>2. \A r \in DOMAIN requests :
            requests'[r].stage = IF r = current /\ Live(r) THEN "aborted" ELSE requests[r].stage
      <3>1. TypeOK /\ requests' = Aborted
        BY DEF Inv, Stopped
      <3>2. \A r \in 1..Len(requests) :
              Aborted[r].stage = IF r = current /\ Live(r) THEN "aborted" ELSE requests[r].stage
        BY <3>1, AbortedType
      <3>3. DOMAIN requests = 1..Len(requests)
        BY <3>1 DEF TypeOK
      <3>4. QED
        BY <3>1, <3>2, <3>3
    <2>3. QED
      BY <2>1, <2>2 DEF NoneOpen
  <1>3. CASE Busy
    <2>1. PICK ended : ended = [LastTurn EXCEPT !.status = "error"]
      OBVIOUS
    <2>2. turns # <<>> /\ LastTurn \in TurnType /\ turns' = Patched(ended)
      BY <1>3, <2>1, LastTurnType DEF Stopped, Busy, Inv
    <2>3. /\ ended \in TurnType /\ ended.status = "error"
          /\ ended.asker = LastTurn.asker /\ ended.plan = LastTurn.plan
      BY <2>1, <2>2 DEF TurnType, Statuses
    <2>4. LastTurn' = ended
      BY <2>2, <2>3, PatchedType, LastTurnType DEF Inv, LastTurn
    <2>5. QED
      BY <1>1, <1>2, <2>2, <2>3, <2>4, AddressedKept
  <1>4. CASE ~Busy
    <2>1. turns' = turns
      BY <1>4 DEF Stopped
    <2>2. QED
      BY <1>1, <1>2, <2>1, AddressedKept DEF LastTurn
  <1>5. QED
    BY <1>3, <1>4

\* A turn in progress is not waiting for answers; a new one has no plan, and
\* one whose form is sent has none on a page in order.
LEMMA SubmitsAddress ==
  ASSUME Inv, Addressed, SubmitPrompt \/ \E i \in DOMAIN turns : SubmitClarification(i)
  PROVE  Addressed'
  <1>1. CASE SubmitPrompt
    <2>1. PICK n, turn : turn = Turn(n, "planning", None) /\ turns' = Append(turns, turn)
      BY <1>1 DEF SubmitPrompt
    <2>2. LastTurn' = turn
      BY <2>1 DEF LastTurn, Inv, TypeOK
    <2>3. turn.status = "planning" /\ turn.plan = None
      BY <2>1 DEF Turn
    <2>4. QED
      BY <2>2, <2>3 DEF Addressed, AskerKnown, PlanKnown
  <1>2. ASSUME NEW i \in DOMAIN turns, SubmitClarification(i) PROVE Addressed'
    <2>1. turns # <<>> /\ LastTurn \in TurnType
      BY LastTurnType DEF Inv, TypeOK
    <2>2. PICK turn : turn = [LastTurn EXCEPT !.status = "planning"]
      OBVIOUS
    <2>3. turn \in TurnType /\ turn.status = "planning" /\ turn.plan = LastTurn.plan
      BY <2>1, <2>2 DEF TurnType, Statuses
    <2>4. LastTurn' = turn
      BY <1>2, <2>1, <2>2, <2>3, PatchedType, LastTurnType DEF Inv, LastTurn, SubmitClarification
    <2>5. Orderly' => Orderly /\ i = Len(turns)
      <3>1. strayed' = (strayed \/ i # Len(turns)) /\ opening' = opening
        BY <1>2 DEF SubmitClarification
      <3>2. QED
        BY <3>1, Zenon DEF Orderly
    <2>6. Orderly' => LastTurn.plan = None
      <3>1. i = Len(turns) => LastTurn.status = "awaiting_clarification"
        BY <1>2 DEF SubmitClarification, LastTurn
      <3>2. QED
        BY <2>1, <2>5, <3>1 DEF Addressed, PlanKnown
    <2>7. QED
      BY <2>3, <2>4, <2>6 DEF Addressed, AskerKnown, PlanKnown
  <1>3. QED
    BY <1>1, <1>2

LEMMA StreamAddresses ==
  ASSUME Inv, Addressed, NEW r \in DOMAIN requests, Ends(r) \/ AgentEvent(r)
  PROVE  Addressed'
  <1>1. requests[r] \in RequestType /\ requests[r].session \in Maybe(Sessions)
    <2>1. requests[r] \in RequestType
      BY ElementOfSeq DEF Inv, TypeOK
    <2>2. QED
      BY <2>1 DEF RequestType, Maybe
  <1>2. turns # <<>> => LastTurn \in TurnType
    BY LastTurnType DEF Inv
  <1>3. PICK failed : failed = [LastTurn EXCEPT !.status = "error"]
    OBVIOUS
  <1>4. turns # <<>> => failed \in TurnType /\ failed.status = "error" /\ failed.plan = LastTurn.plan
    BY <1>2, <1>3 DEF TurnType, Statuses
  <1>5. turns # <<>> /\ Orderly /\ LastTurn.plan # None => LastTurn.plan = sessionId /\ NoneOpen
    BY DEF Addressed, PlanKnown
  <1>6. ASSUME Live(r), NEW stage \in Stages \ {"open"}, Event(r, stage, failed, sessionId)
        PROVE  Addressed'
    BY <1>4, <1>5, <1>6, EventAddresses
  <1>7. CASE AgentEvent(r)
    BY <1>2, <1>7, EventAddresses DEF AgentEvent, Live, Stages
  <1>8. CASE NeedsClarification(r)
    <2>1. PICK turn : turn = [LastTurn EXCEPT !.status = "awaiting_clarification",
                                              !.asker = requests[r].session]
      OBVIOUS
    <2>2. turns # <<>> => /\ turn \in TurnType /\ turn.asker = requests[r].session
                          /\ turn.plan = LastTurn.plan
      BY <1>1, <1>2, <2>1 DEF TurnType, Statuses
    <2>3. Live(r) /\ ~NoneOpen /\ Event(r, "ended", turn, requests[r].session)
      BY <1>8, <2>1 DEF NeedsClarification, Live, NoneOpen
    <2>4. QED
      BY <1>5, <2>2, <2>3, EventAddresses DEF Stages
  <1>9. CASE Complete(r)
    <2>1. PICK plan \in {None, requests[r].session} :
            Event(r, "completed", [LastTurn EXCEPT !.status = "complete", !.plan = plan],
                  requests[r].session)
      BY <1>9 DEF Complete
    <2>2. PICK turn : turn = [LastTurn EXCEPT !.status = "complete", !.plan = plan]
      OBVIOUS
    <2>3. turns # <<>> => turn \in TurnType /\ turn.status = "complete" /\ turn.plan = plan
      BY <1>1, <1>2, <2>2 DEF TurnType, Statuses, Maybe
    <2>4. Live(r) /\ Event(r, "completed", turn, requests[r].session)
      BY <1>9, <2>1, <2>2 DEF Complete, Live
    <2>5. QED
      BY <2>3, <2>4, EventAddresses DEF Stages
  <1>10. CASE UsageSummary(r)
    <2>1. Live(r) /\ Event(r, "ended", LastTurn, sessionId)
      BY <1>10 DEF UsageSummary, Live
    <2>2. QED
      BY <1>2, <2>1, EventAddresses DEF Addressed, AskerKnown, PlanKnown, Stages
  <1>11. CASE ErrorEvent(r)
    BY <1>3, <1>6, <1>11 DEF ErrorEvent, Live, Stages
  <1>12. CASE Breaks(r)
    BY <1>3, <1>6, <1>12 DEF Breaks, Stages
  <1>13. CASE Closes(r)
    <2>1. CASE requests[r].stage = "open" /\ Busy
      BY <1>3, <1>6, <1>13, <2>1 DEF Closes, Live, Stages
    <2>2. CASE ~(requests[r].stage = "open" /\ Busy)
      <3>1. /\ requests' = [requests EXCEPT ![r].stage = "closed"]
            /\ UNCHANGED <<turns, sessionId, opening, strayed>>
        BY <1>13, <2>2 DEF Closes, page, history
      <3>2. /\ DOMAIN requests' = DOMAIN requests /\ requests'[r].stage = "closed"
            /\ \A q \in DOMAIN requests : q # r => requests'[q] = requests[q]
        BY <1>1, <3>1 DEF RequestType
      <3>3. NoneOpen => NoneOpen'
        BY <3>2 DEF NoneOpen
      <3>4. QED
        BY <3>1, <3>3, AddressedKept DEF LastTurn, Orderly
    <2>3. QED
      BY <2>1, <2>2
  <1>14. QED
    BY <1>7, <1>8, <1>9, <1>10, <1>11, <1>12, <1>13 DEF Ends

LEMMA NextAddressed ==
  ASSUME Inv, Matching, Addressed, [Next]_vars
  PROVE  Addressed'
  <1>1. CASE User
    <2>1. CASE PressStop
      <3>1. CASE sessionId = None
        BY <2>1, <3>1, StoppedAddresses DEF PressStop
      <3>2. CASE sessionId # None
        <4>1. UNCHANGED <<turns, requests, sessionId, opening, strayed>>
          BY <2>1, <3>2 DEF PressStop
        <4>2. QED
          BY <4>1, AddressedKept DEF LastTurn, Orderly, NoneOpen
      <3>3. QED
        BY <3>1, <3>2
    <2>2. QED
      BY <1>1, <2>1, SubmitsAddress DEF User
  <1>2. CASE StopReturns
    BY <1>2, StoppedAddresses DEF StopReturns, history
  <1>3. CASE StreamEnds \/ \E r \in DOMAIN requests : AgentEvent(r)
    BY <1>3, StreamAddresses DEF StreamEnds
  <1>4. CASE Hydrate
    <2>1. ~Orderly'
      BY <1>4 DEF Hydrate, Matching, Orderly, history
    <2>2. turns' = <<>> \/ LastTurn'.status = "complete"
      BY <1>4 DEF Hydrate, LastTurn, Turn
    <2>3. QED
      BY <2>1, <2>2 DEF Addressed, AskerKnown, PlanKnown
  <1>5. CASE UNCHANGED vars
    <2>1. UNCHANGED <<turns, requests, sessionId, opening, strayed>>
      BY <1>5 DEF vars, page, history
    <2>2. QED
      BY <2>1, AddressedKept DEF LastTurn, Orderly, NoneOpen
  <1>6. QED
    BY <1>1, <1>2, <1>3, <1>4, <1>5 DEF Next

LEMMA SentTo ==
  ASSUME Inv, NEW prompt \in 0..MaxRequests, NEW session \in Sessions, Sends(prompt, session)
  PROVE  requests'[Len(requests')].session = session
  <1>1. requests'[Len(requests')] = [prompt |-> prompt, session |-> session, stage |-> "open"]
    BY SendsKeepsOne
  <1>2. QED
    BY <1>1

\* The form of the last turn is sent to the session that asked, whatever else
\* happened on the page, and a follow-up on a page in order goes to the session
\* whose itinerary it is about.
THEOREM RequestsReachTheirSessionHolds == Spec => RequestsReachTheirSession
  <1> DEFINE reach ==
        /\ \A i \in DOMAIN turns :
             SubmitClarification(i) /\ i = Len(turns)
               => requests'[Len(requests')].session = turns[i].asker
        /\ SubmitPrompt /\ FollowsUp /\ Orderly
             => requests'[Len(requests')].session = LastTurn.plan
  <1>1. Init => Addressed
    BY DEF Init, Addressed, AskerKnown, PlanKnown
  <1>2. ASSUME Inv, Addressed PROVE reach
    <2>1. ASSUME NEW i \in DOMAIN turns, SubmitClarification(i), i = Len(turns)
          PROVE  requests'[Len(requests')].session = turns[i].asker
      <3>1. turns # <<>> /\ turns[i] \in TurnType /\ LastTurn = turns[i]
        BY <1>2, <2>1, ElementOfSeq DEF Inv, TypeOK, LastTurn
      <3>2. /\ turns[i].prompt \in 0..MaxRequests /\ sessionId \in Sessions
            /\ Sends(turns[i].prompt, sessionId)
        BY <1>2, <2>1, <3>1 DEF SubmitClarification, TurnType, Inv, TypeOK, Maybe
      <3>3. requests'[Len(requests')].session = sessionId
        BY <1>2, <3>2, SentTo
      <3>4. turns[i].asker = sessionId
        BY <1>2, <2>1, <3>1 DEF SubmitClarification, Addressed, AskerKnown
      <3>5. QED
        BY <3>3, <3>4
    <2>2. ASSUME SubmitPrompt, FollowsUp, Orderly
          PROVE  requests'[Len(requests')].session = LastTurn.plan
      <3>1. /\ Len(requests) + 1 \in 0..MaxRequests /\ sessionId \in Sessions
            /\ Sends(Len(requests) + 1, sessionId)
        BY <1>2, <2>2 DEF SubmitPrompt, Sends, FollowsUp, Inv, TypeOK, Maybe, Sessions
      <3>2. requests'[Len(requests')].session = sessionId
        BY <1>2, <3>1, SentTo
      <3>3. LastTurn.plan = sessionId
        BY <1>2, <2>2 DEF FollowsUp, Addressed, PlanKnown
      <3>4. QED
        BY <3>2, <3>3
    <2>3. QED
      BY <2>1, <2>2
  <1>3. Spec => []Addressed
    BY <1>1, NextAddressed, SpecInv, InitMatching, NextMatching, PTL DEF Spec
  <1>4. Inv /\ Addressed => [reach]_vars
    BY <1>2
  <1>5. QED
    BY <1>3, <1>4, SpecInv, PTL DEF RequestsReachTheirSession
=============================================================================
