------------------------------ MODULE TripSession ------------------------------
(***************************************************************************)
(* One chat session as the server keeps it: the SSE streams of its /plan   *)
(* and /clarify requests (services/trip_stream_service.py), the registry   *)
(* that lets /cancel find their task (services/cancellation_service.py),   *)
(* the rows of tables trips and chat_turns (services/trip_service.py,      *)
(* services/chat_turn_service.py) and the checkpoint of the LangGraph      *)
(* thread, in Postgres or, when Postgres did not answer at start-up, in    *)
(* the memory of the process (checkpointer.py).                            *)
(*                                                                         *)
(* A stream is one asyncio task; it is split into actions at its awaits,   *)
(* where another stream's task may run or a CancelledError may arrive.     *)
(* A prompt, the trip id drawn by its request (a fresh UUID) and the       *)
(* itinerary compiled for it are all named by the stream that brought it.  *)
(* What the graph does between two checkpoints is PlanningGraph's subject. *)
(***************************************************************************)
EXTENDS Naturals, Sequences, FiniteSets

CONSTANTS
  Streams,       \* requests to /plan and /clarify
  None,          \* no stream, no itinerary
  SeveralPages,  \* whether a second browser page may be open on the session
  MaxPauses,     \* bound of the model: clarification pauses of the session
  MaxLosses,     \* bound of the model: best-effort database calls that fail
  MaxRestarts    \* bound of the model: times the server process ends and starts

ASSUME NoneAssumption == None \notin Streams
ASSUME SeveralPagesAssumption == SeveralPages \in BOOLEAN
ASSUME BoundsAssumption == MaxPauses \in Nat /\ MaxLosses \in Nat /\ MaxRestarts \in Nat

VARIABLES
  pc,        \* where each stream is
  trip,      \* the trip id it will persist under
  named,     \* whether it carries the username
  mem,       \* channel values its run of the graph holds
  index,     \* turn_index its open INSERT has computed
  saved,     \* the thread's latest checkpoint
  registry,  \* _active_tasks[session_id]
  rows,      \* table trips, in the order of created_at
  turns,     \* table chat_turns, in the order of commit
  asked,     \* a page shows clarification questions that await answers
  holder,    \* history: the saver that asked them
  gone,      \* the user deleted the session and has asked nothing since
  shown,     \* history: <<itinerary_id, itinerary>> of "complete" events
  newest,    \* history: the stream that registered last
  pauses,    \* pauses so far
  losses,    \* database calls lost so far
  process,   \* the server process: 1 and, after each restart, one more
  saver,     \* where it keeps checkpoints: Postgres, or its own memory
  durable    \* while it is in memory: the thread's checkpoint in Postgres

server == <<pc, trip, named, mem, index, saved, registry>>
tables == <<rows, turns>>
client == <<asked, holder, gone, shown>>
history == <<newest, pauses, losses>>
storage == <<process, saver, durable>>
vars == <<server, tables, client, history, storage>>

-----------------------------------------------------------------------------
(* Values and small queries. *)

Maybe == Streams \cup {None}

\* The channels of TripState this model tells apart, and whether the thread
\* is paused at an interrupt.
Checkpoints == [query : Maybe, itinerary : Maybe, waiting : BOOLEAN]

\* Savers: one in Postgres, and one in the memory of each process.
Postgres == 0

Fresh == [query |-> None, itinerary |-> None, waiting |-> FALSE]

\* A stream's places that come after register().
Registered == {"turn", "turn_commit", "stub", "input", "running", "snapshot",
               "persist", "result", "result_commit"}

Places == {"unused", "routed", "done"} \cup Registered

Live(s) == pc[s] \in Registered

Busy == \E s \in Streams : pc[s] \notin {"unused", "done"}

\* get_latest_trip_id: the most recent row, deleted ones included.
LatestTripId == IF rows = <<>> THEN None ELSE rows[Len(rows)].id

\* A page can follow up: it shows an itinerary of the session, from an event
\* or from hydration with the latest row.
Displayed ==
  \/ rows # <<>> /\ rows[Len(rows)].itinerary # None
  \/ \E d \in shown : d[2] # None

\* list_sessions has the session.
Listed == \E i \in DOMAIN rows : rows[i].named /\ ~rows[i].hidden

\* Mutant: the turns are numbered within the prompt.
NextIndex_PerPrompt(s) ==
  Cardinality({i \in DOMAIN turns : turns[i].by = s})

\* COALESCE((SELECT MAX(turn_index) + 1 ...), 0)
NextIndex(s) ==
  IF turns = <<>> THEN 0
  ELSE (CHOOSE m \in {turns[i].index : i \in DOMAIN turns} :
          \A i \in DOMAIN turns : turns[i].index <= m) + 1

\* INSERT ... ON CONFLICT (id) DO UPDATE: an existing row keeps its username
\* and its deleted_at.
Upserted(id, itinerary, isNamed) ==
  IF \E i \in DOMAIN rows : rows[i].id = id
    THEN [i \in DOMAIN rows |->
            IF rows[i].id = id THEN [rows[i] EXCEPT !.itinerary = itinerary] ELSE rows[i]]
    ELSE Append(rows, [id |-> id, itinerary |-> itinerary,
                       named |-> isNamed, hidden |-> FALSE])

\* A best-effort call is carried out, or fails and is only logged.
Lose == losses < MaxLosses /\ losses' = losses + 1

Go(s, place) == pc' = [pc EXCEPT ![s] = place]

\* Mutant: whoever ends empties the registry.
End_Always(s) ==
  /\ pc' = [pc EXCEPT ![s] = "done"]
  /\ registry' = None

\* The stream's `finally`: unregister() leaves another task's entry alone.
End(s) ==
  /\ pc' = [pc EXCEPT ![s] = "done"]
  /\ registry' = IF registry = s THEN None ELSE registry

Register(s) ==
  /\ registry' = s
  /\ newest' = s

-----------------------------------------------------------------------------
(* Requests. *)

\* A page sends at most one request at a time.
MayRequest(s) == pc[s] = "unused" /\ (SeveralPages \/ ~Busy)

\* POST /plan, mode "new": the page has no session yet.
PlanNew(s) ==
  /\ MayRequest(s)
  /\ \A t \in Streams : pc[t] = "unused"
  /\ Register(s)
  /\ Go(s, "turn")
  /\ trip' = [trip EXCEPT ![s] = s]
  /\ named' = [named EXCEPT ![s] = TRUE]
  /\ mem' = [mem EXCEPT ![s].query = s]
  /\ UNCHANGED <<index, saved, tables, client, pauses, losses>>

\* POST /plan, mode "followup".  The page that asks shows no questions.
PlanFollowUp(s) ==
  /\ MayRequest(s)
  /\ Displayed
  /\ Register(s)
  /\ Go(s, "turn")
  /\ trip' = [trip EXCEPT ![s] = s]
  /\ named' = [named EXCEPT ![s] = TRUE]
  /\ mem' = [mem EXCEPT ![s].query = s]
  /\ asked' = (asked /\ SeveralPages)
  /\ gone' = FALSE
  /\ UNCHANGED <<index, saved, tables, holder, shown, pauses, losses>>

\* POST /clarify, in the router: the trip id is looked up before the stream
\* starts; a failed or empty lookup draws a new one.  No username is passed.
Clarify(s) ==
  /\ MayRequest(s)
  /\ asked
  /\ asked' = FALSE
  /\ gone' = FALSE
  /\ Go(s, "routed")
  /\ \/ /\ trip' = [trip EXCEPT ![s] = IF LatestTripId # None THEN LatestTripId ELSE s]
        /\ UNCHANGED losses
     \/ /\ Lose
        /\ trip' = [trip EXCEPT ![s] = s]
  /\ UNCHANGED <<named, mem, index, saved, registry, tables, holder, shown, newest, pauses>>

\* Mutant: only the first request of a session registers its task.
Resume_Unregistered(s) ==
  /\ pc[s] = "routed"
  /\ newest' = s
  /\ Go(s, "running")
  /\ mem' = [mem EXCEPT ![s] = [saved EXCEPT !.waiting = FALSE]]
  /\ UNCHANGED <<trip, named, index, saved, registry, tables, client, pauses, losses>>

\* stream_resumed_graph starts: Command(resume=answers) on the checkpoint.
Resume(s) ==
  /\ pc[s] = "routed"
  /\ Register(s)
  /\ Go(s, "running")
  /\ mem' = [mem EXCEPT ![s] = [saved EXCEPT !.waiting = FALSE]]
  /\ UNCHANGED <<trip, named, index, saved, tables, client, pauses, losses>>

-----------------------------------------------------------------------------
(* The stream of a /plan request, up to the graph's first superstep. *)

\* append_turn: the INSERT reads MAX(turn_index) and commits later.
ReadIndex(s) ==
  /\ pc[s] \in {"turn", "result"}
  /\ index' = [index EXCEPT ![s] = NextIndex(s)]
  /\ Go(s, IF pc[s] = "turn" THEN "turn_commit" ELSE "result_commit")
  /\ UNCHANGED <<trip, named, mem, saved, registry, tables, client, history>>

AppendTurn(s, role) ==
  \/ /\ turns' = Append(turns, [index |-> index[s], role |-> role, by |-> s])
     /\ UNCHANGED losses
  \/ /\ Lose
     /\ UNCHANGED turns

\* mode = "new": the session's first request; a page that follows up has been
\* shown the result of an earlier one.
IsNew(s) == \A t \in Streams \ {s} : pc[t] = "unused"

AppendPrompt(s) ==
  /\ pc[s] = "turn_commit"
  /\ AppendTurn(s, "user")
  /\ Go(s, IF IsNew(s) THEN "stub" ELSE "input")
  /\ UNCHANGED <<trip, named, mem, index, saved, registry, rows, client, newest, pauses>>

\* Mutant: the stub row is written without the username.
PersistStub_Anonymous(s) ==
  /\ pc[s] = "stub"
  /\ rows' = Upserted(trip[s], None, FALSE)
  /\ Go(s, "input")
  /\ UNCHANGED <<trip, named, mem, index, saved, registry, turns, client, history>>

\* Only a new session writes a row before the graph runs.
PersistStub(s) ==
  /\ pc[s] = "stub"
  /\ \/ /\ rows' = Upserted(trip[s], None, named[s])
        /\ UNCHANGED losses
     \/ /\ Lose
        /\ UNCHANGED rows
  /\ Go(s, "input")
  /\ UNCHANGED <<trip, named, mem, index, saved, registry, turns, client, newest, pauses>>

\* Mutant: a follow-up passes the defaults too.
Input_Defaults(s) ==
  /\ pc[s] = "input"
  /\ saved' = [Fresh EXCEPT !.query = s]
  /\ mem' = [mem EXCEPT ![s] = saved']
  /\ Go(s, "running")
  /\ UNCHANGED <<trip, named, index, registry, tables, client, history>>

\* astream(state): the defaults and the query, or the query alone on top of
\* what the thread holds; a pending interrupt is dropped.
Input(s) ==
  /\ pc[s] = "input"
  /\ saved' = [saved EXCEPT !.query = s, !.waiting = FALSE]
  /\ mem' = [mem EXCEPT ![s] = saved']
  /\ Go(s, "running")
  /\ UNCHANGED <<trip, named, index, registry, tables, client, history>>

-----------------------------------------------------------------------------
(* The graph, and the end of the stream. *)

\* interrupt(): "needs_clarification" is sent and the stream closes.
Pause(s) ==
  /\ pc[s] = "running"
  /\ pauses < MaxPauses
  /\ pauses' = pauses + 1
  /\ saved' = [mem[s] EXCEPT !.waiting = TRUE]
  /\ asked' = TRUE
  /\ holder' = saver
  /\ End(s)
  /\ UNCHANGED <<trip, named, mem, index, tables, gone, shown, newest, losses>>

\* The run ends.  The itinerary in its state is the one it compiled, or the
\* one already there when route discovery is given up.
Finish(s) ==
  /\ pc[s] = "running"
  /\ \E it \in {mem[s].query, mem[s].itinerary} :
       saved' = [mem[s] EXCEPT !.itinerary = it]
  /\ Go(s, "snapshot")
  /\ UNCHANGED <<trip, named, mem, index, registry, tables, client, history>>

\* aget_state: the latest checkpoint of the thread, whoever wrote it.
Snapshot(s) ==
  /\ pc[s] = "snapshot"
  /\ mem' = [mem EXCEPT ![s] = saved]
  /\ Go(s, "persist")
  /\ UNCHANGED <<trip, named, index, saved, registry, tables, client, history>>

\* Mutant: every result goes to the session's latest row.
Persist_Latest(s) ==
  /\ pc[s] = "persist"
  /\ rows' = Upserted(IF LatestTripId # None THEN LatestTripId ELSE trip[s],
                      mem[s].itinerary, named[s])
  /\ Go(s, "result")
  /\ UNCHANGED <<trip, named, mem, index, saved, registry, turns, client, history>>

Persist(s) ==
  /\ pc[s] = "persist"
  /\ \/ /\ rows' = Upserted(trip[s], mem[s].itinerary, named[s])
        /\ UNCHANGED losses
     \/ /\ Lose
        /\ UNCHANGED rows
  /\ Go(s, "result")
  /\ UNCHANGED <<trip, named, mem, index, saved, registry, turns, client, newest, pauses>>

\* The assistant's turn is stored, "complete" is sent and the stream closes.
Complete(s) ==
  /\ pc[s] = "result_commit"
  /\ AppendTurn(s, "assistant")
  /\ shown' = shown \cup {<<trip[s], mem[s].itinerary>>}
  /\ End(s)
  /\ UNCHANGED <<trip, named, mem, index, saved, rows, asked, holder, gone, newest, pauses>>

\* The graph raises ("error" is sent), the client disconnects, or a
\* CancelledError arrives at the stream's current await.
Abort(s) ==
  /\ Live(s)
  /\ End(s)
  /\ UNCHANGED <<trip, named, mem, index, saved, tables, client, history>>

\* POST /cancel.
Cancel ==
  /\ registry # None
  /\ Abort(registry)

\* DELETE .../sessions/{session_id}: every row of the session is hidden.
Delete ==
  /\ rows # <<>>
  /\ ~gone
  /\ gone' = TRUE
  /\ rows' = [i \in DOMAIN rows |-> [rows[i] EXCEPT !.hidden = TRUE]]
  /\ UNCHANGED <<server, turns, asked, holder, shown, history>>

\* What a new process finds in its saver.
Loaded(place) ==
  IF place # Postgres THEN Fresh ELSE IF saver = Postgres THEN saved ELSE durable

\* The process ends, with every stream, and the next one starts:
\* get_checkpointer falls back to a MemorySaver when Postgres does not answer.
Restart ==
  /\ process <= MaxRestarts
  /\ process' = process + 1
  /\ saver' \in {Postgres, process'}
  /\ saved' = Loaded(saver')
  /\ durable' = IF saver = Postgres THEN saved ELSE durable
  /\ pc' = [s \in Streams |-> IF pc[s] = "unused" THEN "unused" ELSE "done"]
  /\ registry' = None
  /\ UNCHANGED <<trip, named, mem, index, tables, client, history>>

-----------------------------------------------------------------------------
Init ==
  /\ pc = [s \in Streams |-> "unused"]
  /\ trip = [s \in Streams |-> None]
  /\ named = [s \in Streams |-> FALSE]
  /\ mem = [s \in Streams |-> Fresh]
  /\ index = [s \in Streams |-> 0]
  /\ saved = Fresh
  /\ registry = None
  /\ rows = <<>>
  /\ turns = <<>>
  /\ asked = FALSE
  /\ holder = Postgres
  /\ gone = FALSE
  /\ shown = {}
  /\ newest = None
  /\ pauses = 0
  /\ losses = 0
  /\ process = 1
  /\ saver \in {Postgres, process}
  /\ durable = Fresh

Request(s) == PlanNew(s) \/ PlanFollowUp(s) \/ Clarify(s)

Step(s) ==
  \/ Resume(s) \/ ReadIndex(s) \/ AppendPrompt(s) \/ PersistStub(s) \/ Input(s)
  \/ Pause(s) \/ Finish(s) \/ Snapshot(s) \/ Persist(s) \/ Complete(s)

Serve == (\E s \in Streams : Request(s) \/ Step(s) \/ Abort(s)) \/ Cancel \/ Delete

Next == (Serve /\ UNCHANGED storage) \/ Restart

Spec == Init /\ [][Next]_vars

-----------------------------------------------------------------------------
(* Properties. *)

\* "Remove a session task without disturbing a newer task for the same
\* session" (cancellation_service.py:29): the registry holds the stream that
\* registered last for as long as it lives, and nothing afterwards.
RegistrySound ==
  registry = IF newest # None /\ Live(newest) THEN newest ELSE None

\* "Cancel the active planning stream for a session, if one exists"
\* (routers/trip.py:105): while a stream is active, /cancel finds a task.
CancelFindsStream == (\E s \in Streams : Live(s)) => registry # None

\* "chat_turns: ordered prompt/response history per session"
\* (migrations/002): turn_index tells any two turns of the session apart.
TurnsOrdered ==
  \A i, j \in DOMAIN turns : i # j => turns[i].index # turns[j].index

\* "trips: one row per generated itinerary" (migrations/001): what a page was
\* shown under an itinerary_id is what the PDF, the public link and the
\* reordering of days will find under it.
ShownIsStored ==
  \A d \in shown : d[2] # None =>
    \E i \in DOMAIN rows : rows[i].id = d[1] /\ rows[i].itinerary = d[2]

\* That holds as long as no prompt of the session has paused and no database
\* call was lost, even with overlapping follow-ups.
StoredUnlessPaused == pauses = 0 /\ losses = 0 => ShownIsStored

\* A session that delivered a result is in the user's sidebar, if nothing of it
\* was deleted and no database call was lost, also when the result came through
\* /clarify, which is sent without the username.
ShownIsListed ==
  losses = 0 /\ shown # {} /\ (\A i \in DOMAIN rows : ~rows[i].hidden) => Listed

\* "provides persistent graph state across HTTP requests" (checkpointer.py:1):
\* answers resume a thread that is paused at the question they answer, across
\* restarts too, unless the question is in another saver than the one in use.
AnswersReachQuestion ==
  [][\A s \in Streams : Resume(s) => saved.waiting \/ holder # saver]_vars

\* Where the conversation is: a stream runs the graph, or is about to tell its
\* result; else the thread waits for answers or not.
Telling == {"snapshot", "persist", "result", "result_commit"}

Phase ==
  IF \E s \in Streams : pc[s] = "running" THEN "working"
  ELSE IF \E s \in Streams : pc[s] \in Telling THEN "telling"
  ELSE IF saved.waiting THEN "asking" ELSE "idle"

Told == {d[2] : d \in shown}

Promise == INSTANCE Conversation WITH
  Prompts <- Streams,
  phase <- Phase,
  prompt <- saved.query,
  current <- saved.itinerary,
  told <- Told,
  store <- saver,
  asker <- holder

\* "A follow-up reuses the checkpointed thread ... so prior parsed fields and
\* the previous itinerary survive" (trip_stream_service.py:96): used from one
\* page, the streams, cancellations and restarts of a session are one
\* conversation, whose results are for the prompt in hand or the previous ones.
HoldsConversation == Promise!Spec
=============================================================================
