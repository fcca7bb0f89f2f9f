# Verification of TravelCopilot

TravelCopilot plans trips in a chat: a React page posts a prompt, a FastAPI
server runs a LangGraph graph of some seventeen agents over a checkpointed
thread, and the page follows the run on a stream of server-sent events. The
graph may pause to ask the user; the answers resume it. This directory holds
TLA+ models of that machinery, the TLC configurations that check them, and
theorems that TLAPS checks.

Paths below are relative to `src/`; `agents/`, `graph/`, `services/`,
`routers/` and `tools/` stand for their directories under `src/backend/app/`,
and `hooks/`, `lib/` and `components/` for those under `src/frontend/src/`.

## 1. The system

| Component | State it keeps | Operations | Correct when |
|---|---|---|---|
| Planning graph (`graph/graph.py`, `graph/state.py`) | `TripState`, checkpointed after every superstep | nodes, edges, three branches, interrupts, resume | nothing is planned on a failed route; every prompt's final itinerary is of one route version and complete; rounds are bounded; a prompt ends |
| Planning agents (`agents/*.py`) | none of their own; channels of `TripState` | read reports, write reports | concurrent agents never write one channel; each runs once per prompt |
| Orchestrator (`agents/orchestrator.py`) | local variables, rebuilt on every replay | parse, ask, merge answers, default | nothing guessed without asking; answers kept; rounds bounded |
| Trip streams (`services/trip_stream_service.py`, `routers/trip.py`) | one asyncio task per request | plan, clarify, cancel, disconnect | the answers resume the checkpoint that asked; what is shown is stored |
| Task registry (`services/cancellation_service.py`) | `_active_tasks` | register, unregister, cancel | a running stream is found, an ended one is not |
| Trips and chat turns (`services/trip_service.py`, `services/chat_turn_service.py`) | tables `trips`, `chat_turns` | upsert, append, list, soft delete, hydrate | one row per itinerary, turns in order, a deleted session stays hidden |
| Trip planner page (`hooks/use-trip-planner.ts`) | turns, session, current request | submit, answer, stop, apply events, hydrate | one stream speaks; a response reaches the turn it answers; no turn waits for ever |
| Route discovery (`agents/stops_discovery_agent.py`) | none | shape what the model proposes into stops, days and dated legs | nights add up to the trip's days; the legs are one tour |
| External API client (`services/external_api_client.py`) | a semaphore per provider, one HTTP client | request, retry, close | permits are neither lost nor made up; a call gives up at its limit, not before; every call ends |
| Tool factory and recordings (`tools/factory.py`, `services/tool_response_store.py`) | a directory of recorded responses | record, replay, clean up | a replay is the newest recorded success of the same request |
| Usage accounting (`llm.py`, `services/cache_service.py`) | a queue, a worker thread, a Redis row per session and agent | enqueue, add up, flush, read, expire | usage is counted once; a flush that did not give up missed nothing |
| Tool adapters (`tools/real/*.py`) | none | map provider payloads; check hours and durations | |
| Itinerary compiler (`agents/itinerary_compiler_agent.py`, `services/itinerary_compiler_service.py`) | none | lay picks onto days, run the gate, attach stays and legs | nothing is scheduled while closed, by the clock and by the weekday; days, stays and transfers are the route's |
| Currencies (`services/fx_converter_service.py`) | rates in memory | convert | |
| Users and profiles (`services/user_service.py`, `services/user_profile_service.py`) | tables `users`, `user_profiles` | upsert, read | |
| Start-up and storage (`main.py`, `checkpointer.py`, `db.py`) | the saver in use | open, migrate, fall back to memory, close | what Postgres was told survives a restart; answers do not resume something else |
| Stream parsing (`lib/sse.ts`) | the unread rest of a frame | split, decode | the page is given what was sent, however it is cut |
| Session list (`hooks/use-sessions.tsx`) | the list shown | refresh, rename, delete | |
| PDF, configuration, logging, data types, presentation | | | |

How they interact. The page's `POST /plan` and `POST /clarify` each start one
stream. The stream registers its task, writes a chat turn and a stub row, runs
the graph on the thread of the session, and forwards its events; at the end it
reads the checkpoint, writes the itinerary's row and sends `complete`. A pause
ends the stream with `needs_clarification`; the next stream continues the
thread. `/cancel` finds the task by session and cancels it. The page applies
every event it gets to the last turn.

What is hard. Agents of one superstep run at the same time on one snapshot; an
edge of the graph is not a join. `interrupt()` cuts a superstep short and the
node is replayed from its first line. State outlives a prompt: reports, the
itinerary, and the count of rounds. Streams of a session overlap when two pages
are open or when the server has not noticed that a page left. Cancellation can
arrive at any `await`. Best-effort writes may be lost. On the page, a late
answer of `/cancel` or of a fetch meets a newer prompt. A call of a tool
may be cancelled at every await of its way through a semaphore. The process may
end anywhere, and comes back with Postgres or without it. `PROJECT.json` lists
these hazards line by line under "hazards", with the properties aimed at each.

## 2. Modules

`PlanningGraph` is the thread: one action per control node, `FinishAgent` for
an agent's write, `Barrier` for the end of a superstep, `AskFood` for the pause
of the food gate, the user's `NewPrompt`, `FollowUp` and `Answer`, and `Fail`.
Each agent is a record of the channels it reads and writes (`Contract`), taken
from the agent's code. Report contents are abstracted to the route version they
were computed under.

`Orchestrator` is one prompt inside the orchestrator node, as a call that is
replayed from its first line on each resume, with recorded answers consumed by
position. `ClarificationGate` is the abstract specification of that node: what
the rest of the graph relies on. `PlanningGraph`'s actions `AskFields`,
`Answer` and `Orchestrate` have the shape of `ClarificationGate`'s `Ask`,
`Hear` and `Return`, and `Orchestrator` is shown to implement it.

`TripSession` is the server's side of one session: the streams split at their
awaits, the registry, the tables, the latest checkpoint and the saver it is in.
`Restart` ends the process with all its streams and starts the next one, which
keeps checkpoints in Postgres or in its own memory. What the graph does between
two checkpoints is left to `PlanningGraph`. `Conversation` is the abstract
specification of a session used from one page: `Ask`, `Question`, `Reply`,
`Decide`, `Tell`, `Break`, and `Elsewhere` for a restart with another saver.
`TripSession` instantiates it (`Promise`) and is shown to implement it:
`working` and `telling` are places of the stream under way, prompt and itinerary
those of the latest checkpoint.

`TripPlannerUi` is the page: its turns, the requests it sent and the stage each
one's stream has reached, the Stop button, and the saved session that loads in
the background. The server may send any stream it can produce.

`SseStream` is the response between the two: `Encoded` is what `sse_event`
writes, `Read` a chunk of any length, `TakeFrame` one turn of the parser's inner
loop, `EndOfBody` and `ConnectionBreaks` the ways it ends.

`RouteShaping` is the arithmetic of `_shape_route`: operators for nights, stop
ids, days, gateways, legs and their order, applied to everything the model may
propose. `ItineraryCompilation` extends it: the discovered route goes through
`CompileStop` (one stop at a time: candidates, trial slots, picks),
`GatePasses` or `GateResolves` (one iteration each) and `Deliver`, which attaches
stays where there are options, and the legs of the route or, for a single
destination, the transfer recommended for the whole trip. The two are
the first and the last layer of a run of `PlanningGraph`, whose actions
`Discover` and `FinishAgent` stand for them.

`ProviderCalls` is a tool call on its way through the semaphores of the providers
it asks one after the other: `Invoke` (or `InvokeUnasked`, when there is nothing
to ask), `Resume`, `Answer`, `StatusError`, `TransportError`, `WakeUp`, and a
cancellation at every await (`CancelGranted`, `CancelHolding`, `CancelWaiting`
with `Leave`), with the directory of recordings, its clean-up, and `Crash`. The
three limits of the retry loop are three definitions, `Tries`,
`IsRetryableStatus` and `LastTry`. From the last answer of a request to the
recorded file (`Concludes`), or to the tool's next request (`AsksNext`), there is
no await, so it is one step. `Locked`, `ReleaseWakes` and `AcquireWakes` are the
semaphore of CPython 3.12, the version `backend/Dockerfile` runs.

`UsageMeter` is what a call of the model costs on its way into Redis: the
callback (`LogSuccess`), the worker split at its awaits (`Take`, `GetRow`,
`SetRow`, `TaskDone`), and the summary of a finished prompt (`BeginFlush`,
`Joined` or `FlushTimesOut`, `ReadRow`), with restarts and rows that expire. An
amount is left out: a row says how often each call was added to it.

Each model `M` has a module `MCM` that TLC runs and a module `MProofs` with
theorems; those about `RouteShaping` are in `ItineraryCompilationProofs`.
`ClarificationGate` is checked and proved through `Orchestrator`, `Conversation`
through `TripSession`.
`PROJECT.json` maps each definition to the lines it models.

## 3. Assumptions of the models

Planning graph

- The first prompt on a thread is "new", later ones are follow-ups. The API also
  accepts a "new" prompt with the id of an existing session; the page never
  sends it, and it is left out.
- A follow-up is possible once an itinerary has been delivered, also while the
  thread is paused or after it failed, because a hydrated page offers it.
- When a node interrupts, any subset of its siblings has finished. Finished
  siblings are kept as pending writes, the rest run again.
- `Fail` is any end without completion: an exception in a node, a
  cancellation, the end of the process.
- The compiler has three predecessors that end in different supersteps, and
  `add_edge` with a single source is not a join: it fires up to three times in
  a prompt and the last firing's itinerary is the one delivered
  (`plan.md:1099` says "exactly once"). `FinalCompileComplete` speaks of that
  last one.

Orchestrator

- A value is abstracted to where it comes from: read with or without
  confidence, garbled, stated in the text, given by the user, defaulted. The
  length of the trip is returned inside its dates only (`Length`): with a return
  date it is what the model read.
- A language model has habits: it may fail, forget (read one text differently
  on a replay), garble (a confident date not in ISO form), or give an end date.
  `Models` says which models are considered and one is chosen in `Init`.
- The answer to a question about fields fills any subset of them, none
  included. The answer to a rewording question is any text.
- The checks use the fields destination, dates and trip_days. Dates and days
  are the two that are derived from one another; source and travelers behave
  like destination.

Trip session

- A prompt, the trip id of its request and its itinerary are named by the
  stream that brought them.
- Two streams on one thread: each writes a whole checkpoint and the last one
  wins.
- A cancellation or disconnect may hit at any await after `register`.
- The `finally` of a stream runs in the stream's own task, which `unregister`
  compares with `current_task()`. So it does when a generator is exhausted or its
  task is cancelled; one that another task finalises later would leave a done
  task registered.
- `SeveralPages = FALSE` means a request is only sent when the session's other
  requests have ended. `TRUE` also covers the page that left without the server
  noticing yet.

- A restart may come at any moment and lets either saver be chosen, whatever was
  chosen before: Postgres answers at start-up or does not. A saver in memory
  starts empty; Postgres has what it was last told. Chat turns and rows are in
  Postgres and stay. The page does not notice and keeps its form.
- While a process runs its Postgres saver does not fail; a checkpoint that
  cannot be written raises in the graph, which is `Abort`.

Route discovery and compilation

- A place is its slug, a day its index: dates are the departure plus the index.
- The model's proposal is any sequence of stops and gateways within the bounds,
  its picks any sequence from `Menu`, which holds venues found upstream and one
  made up.
- Clustering is any split of the venues of a stop into groups: it goes by
  coordinates, which are left out.
- An itinerary's meals, prices, reviews, notes and prose are left out; nothing
  of what is modelled depends on them.
- Whether there is a shortlist of stays for a stop, and a recommended transfer
  for the trip, is up to the agents before: any choice. A stop without options
  has no stay (0 nights in `Delivered`).
- Opening hours are minutes of the day and weekdays. The code reads the minutes
  only, and so does `IsOpenAt`; the weekdays are there for `OpenOnItsDay`.

Tool calls

- A try ends as a success, a status that is retried or not, a transport error or
  any other exception. A tool makes its requests in a row: none (`search_taxi_info`
  without a place), one, two (`rental_search` and `visa_centre_search`, of two
  providers in opposite orders) or three (`search_flights`, of one provider).
- What a result is called is up to the tool (`StatusOf`): an exception makes it an
  error; the two tools that merge runtimes call it a success whatever became of
  their requests; the others go by the last request alone.
- `asyncio.Semaphore` is modelled as CPython 3.12 has it: a released permit is
  handed to the first waiter, which is then "granted" until the loop runs it, and
  until then `locked()` is true and a new call queues, also while permits are
  free; who leaves `acquire` wakes as many waiters as there are permits. A
  cancelled waiter is in nobody's way and leaves when the loop runs it.
- `Scenarios` says what the calls of a run may be, and `may` what can become of
  each.
- Recordings fail or not at will; a file removed while it is read is a file not
  found, as in the code.

Usage

- A failed `get` is an absent row and a failed `set` is silence, as
  `CacheService` has it; rows on which the worker met one are `spoilt` and
  nothing is said about them.
- One server process: `uvicorn` is started with one worker. A second process
  would run a second worker on the same rows.

Page

- The bytes of a response are ASCII, which `json.dumps` sees to, so decoding them
  changes nothing. A field name is one character of the model, an event name and
  a JSON text are two: each can be cut, and half of one is no event.
- A proxy may turn a frame's LFs into CRLFs and add a comment; a blank line made
  of one of each is not considered.
- A handler runs to its next await without interruption; no event of an aborted
  stream is applied.
- Of a stored session's turns at most the last one matters; earlier ones have
  no form and receive no event.
- Timers, the PDF download and the list of finished agents are left out.

## 4. Runs

| Run | Question | Bounds | Result |
|---|---|---|---|
| `planning_graph` | Does every prompt end, with nothing planned on a failed route, no concurrent writers, no agent run twice, a complete last itinerary, and bounded rounds? | `MaxRounds = 3` (the setting's default), two prompts | holds |
| `planning_stale_itinerary` | Is a route that could not be found never answered with an itinerary? (`NeverSilentlyDegrade`) | same | violated |
| `session_one_page` | With one page: cancel finds the stream, turns are ordered, shown sessions are listed, what the streams do is a conversation (so answers reach the checkpoint that asked), across restarts | three streams, two pauses, two restarts, one lost write | holds, 642,059 states |
| `session_several_pages` | With several: is the registry sound and is what is shown stored when nothing paused? | three streams, one pause, one restart | holds, 5,112,393 states |
| `session_overwritten` | Is what is shown always what is stored? (`ShownIsStored`) | three streams, one pause | violated |
| `orchestrator` | Does the node implement the gate, settle, never guess without asking unless dates are garbled, and keep answers and confirmed values when the model is steady? | two rounds, three fields, three models: every habit, every one but garbling, none but end dates; with end dates the length is not spoken of | holds, 620,158 states |
| `ui` | One stream at a time; a turn in progress is served and ends; responses and requests reach whom they are for | three requests, two stops | holds |
| `sse_stream` | Is the page given what was sent, without gaps and at once, however the response is cut and wherever it ends? | three frames of two messages, each with LF or CRLF, with or without a comment | holds, 65,950 states |
| `itinerary_compilation` | Do nights add up whatever is suggested, and are the legs one tour? Do the days, stays and transfers delivered follow the route? Is what is delivered open by the clock, and what is missing accounted for? | three stops of three places, hints of none and four nights, two gateways, six days; picks and clusters for trips in `Busy`: two stops, two days, four venues, three picks; three iterations (the default) | holds, 1,298,798 states |
| `itinerary_weekday` | Is what is delivered open on the day it is for? (`OpenOnItsDay`) | one stop, two days from a Sunday (`Departs`), one pick | violated |
| `provider_calls` | Are permits conserved under every cancellation, do the limits of the retries agree, is a replay the newest success, and does every call end? | four calls, two permits a provider, one retry, two days, one crash; three scenarios: `Rush` (a flight search among hotel searches), `Merged` (two tools, two providers, opposite orders), `Mixed` (everything that may become of a call) | holds, 197,999 states |
| `usage_meter` | Is usage counted once and a summary complete? | three calls of two sessions, two rows looked up, two threads that could be started, two looks | holds, 2,277,990 states |

Why the bounds are enough. Two prompts make everything a prompt leaves behind
meet the next one; a third meets the same kinds of state. Three rounds reach
the give-up branch of the route gate on its own and after rounds spent in the
orchestrator. Three streams make two overlap with a third still to come, and
allow prompt, answers, follow-up on one page; two restarts lead from Postgres
to memory and back, with a question asked on either side. Two rounds in the
orchestrator replay a recorded answer and ask again afterwards. Three requests
let a late Stop or form of the first meet the third. Three frames of two
endings put every ending before and after every other. Three stops and hints of
zero and four nights on up to six days reach both the rounding up of short
stops and the loop that takes nights back; a place visited twice gets two ids.
Two days hold a stop of one day (arrival and departure at once) and of two;
`Busy` keeps the picks to short trips, since a route's shape matters to what is
picked only by which days are whose, and the longer trips still go through the
compiler with their stays and legs. Four calls of two permits let two permits
return before the first waiter that was woken runs, with a third still waiting
and a fourth to come; the shipped default of five permits adds no other relation
between a free permit, a woken waiter and a new call, and the theorems hold for
every number. A day more than the retention lets recordings go. Two calls
of one session and agent write the same row, the third that of another session.

Deadlock is checked in `usage_meter` only: every other model stops when the user
asks nothing more or its bound is reached. `NeverStuck`, `PromptSettles`, `Settles`,
`CallsEnd` and `PlanningEnds` say instead what must not stop.

Fairness. `PlanningGraph`: weak fairness of the graph's own steps, which
asyncio schedules and whose model and HTTP calls all have timeouts;
`PromptSettles` also assumes that the user answers (`Answered`), `NeverStuck`
does not. `Orchestrator`: the same for its step, and that the user answers.
`TripPlannerUi`: every stream ends, because the server bounds each call and a
dead connection is reset; nothing is assumed of the user. The fairness of
`StreamEnds` is for all streams together: `OneStream` leaves one at a time.
`ProviderCalls`: the loop runs what is ready, sleeps end and `httpx` times every
try out. A sleep ends because a `Retry-After` is some number; nothing in the
code bounds it, so `CallsEnd` says that calls end, not when. `UsageMeter`, `SseStream`
and `TripSession` state safety only.

Faults. `PlanningGraph`: an end of the run at any moment. `TripSession`:
cancellation and disconnection at every await, a lost write, restarts with
either saver. `ProviderCalls`: cancellation, failed and half-written
recordings, the end of the process. `UsageMeter`: failed operations on Redis,
expiry, the end of the process, a flush that times out. `TripPlannerUi`: a
stream that ends or breaks at any event; `SseStream`: at any byte.

## 5. Findings

The violated runs show where the code does something other than the
repository says. `PROJECT.json` quotes the lines.

- **A failed follow-up answers with the old itinerary.** The final checkpoint
  still holds it and `complete` sends it; nothing reads `TripState.error`.
- **An itinerary is overwritten.** A follow-up that pauses has no row yet, so
  `/clarify` continues the row of the previous prompt.
- **A venue is planned on a day it is shut.** `enforce_opening_hours` is passed
  the dates and ignores them, and `OpeningHours.days` is read nowhere; `plan.md:631`
  promises the check of the weekday ("e.g. place closed on Tuesday") and
  `plan.md:1280` that every place is open on its date. By the clock the promise is
  kept (`OpenByTheClock`).

Seen while modelling, found by TLC and kept without a run of their own (the
property, where a module states it, in parentheses):

- A follow-up's itinerary mixes route versions (`NeverMixVersions`;
  `specs/stops-discovery-agent-spec.md:149`): report channels are not reset and
  neither the budget planner nor the compiler compares versions.
- A deleted session is listed again when a stream that was still planning
  stores its result, with `deleted_at` null.
- An answer is lost when the model call fails on a replay (`AnswersKept`;
  `plan.md:440`): the next interrupt consumes the answer meant for another
  question.
- The gate gives up on what is too long: flags of a whole day are not read, and a
  slot is only cut to two activities, so an overfull day is delivered where
  `plan.md:642` promises an empty slot with a note.
- A garbled date becomes today + 30 days without a question
  (`NeverSilentlyGuesses`; `plan.md:459`).
- An answered number of days is lost when the model reads a return date, however
  unsure it was of it: the dates returned end on that date
  (`AnswersKept`, also for a steady model; `agents/orchestrator.py:501-506`). A
  test says that an answered departure "preserves the parsed trip duration"
  (`backend/tests/unit/test_agents.py:395`); it has no return date. Hence
  `SteadyAnswersKept` and `NeverGuessesUngarbled` speak of the length only where
  the model reads no return dates (`Deciding`).
- A recording called a success may tell of failed requests. `rental_search` and
  `visa_centre_search` merge the runtimes of their two requests as "success"
  (`tools/real/rental_tools.py:69`, `tools/real/visa_tools.py:69`), and
  `search_flights` goes by its last request, so a failed look-up of an airport
  goes unnoticed. Mock mode replays them. `ReplayFaithful` allows both and says
  of the other tools that the last request went well.
- The form of an earlier turn posts its answers to the newer prompt's session.

Seen while reading, in the parts the newer models cover:

- Hours past midnight (closing before opening) leave no overlap with any slot,
  so a bar open until two counts as closed in the evening.
- A venue is tried before the model's choice in the slot of its place in a
  cluster, and kept from the model when it is closed then; the model might have
  placed it in another slot. What the gate removes is dropped, not swapped
  (`plan.md:642` and `plan.md:1309` speak of slot-swap or replacement).
- The first and last day of a stay are flagged as travel days also when no leg
  is on them, and `TripDays.leg_id` is the first departing leg of the day.
- Names in non-Latin scripts all have the slug "stop"; their ids differ by count
  only.
- A failed `get` from Redis makes the worker replace what had been added up; the
  summary adds up all prompts of a session; the agent `stops_discovery` is not
  in `AGENT_LAYERS`, so what it used is shown to nobody.

Also: with a model that forgets, a
confirmed field may be asked again (`ConfirmedNotAsked`; `plan.md:440`). The
node may return without a parse after all rounds, which
`agents/orchestrator.py:476` calls impossible; `ClarificationGate` allows it.
With several pages
`CancelFindsStream` and `TurnsOrdered` fail, since a registration overwrites
the other and `turn_index` is computed without a unique constraint.

## 6. Proofs

All theorems hold for every value of the constants that satisfies the modules'
named assumptions. Every safety property the passing runs check is also a
theorem.

`PlanningGraphProofs`. Types are inductive on their own. `NoSupplyWithoutRoute`,
`NoConcurrentWriters` and `SingleFiring` rest on one fact: which sets of nodes a
superstep can be. Starting from the four branches, the successors of any
reachable superstep are again one of a few sets, and what has fired is what came
before. `FinalCompileComplete` needs that each report required has been written
under the current version by the time the last set is reached.
`RoundsBounded` needs that an interrupted node counts only answers it received,
and that the food question is asked at most once in a thread.
`FirstNeverMixes` needs that the first prompt starts without reports and that no
agent has written one before the route it plans on is settled: then there is one
version a report can be of (`OneVersion`). A follow-up starts with the reports
of the last route, which is why nothing like it is claimed of the second prompt.

`TripSessionProofs`. `RegistrySound` is inductive with the types: the registry
names the newest stream or nobody, and the newest is live whenever it is named;
a restart empties both. The other proofs need more:

- With one page at most one stream is between its request and its end
  (`OneBusy`), which makes `CancelFindsStream` inductive, and gives
  `AnswersReachQuestion` (a part of what `HoldsConversation` says): between a
  pause and its answers no other stream moves the checkpoint. Across restarts it
  needs `Held`: as long as the page shows the questions, the saver they were
  asked into still has the thread waiting, be it in use or not.
- `StoredUnlessPaused`, for any number of pages: without a pause nobody looks up
  "the latest row", so a stream writes to the row of its own trip id from its
  result until it is shown, and no other stream writes there (`OwnRows`).
- `ShownIsListed`, also for any number of pages: either a row with the username
  exists, which no upsert takes away, or the session still has only the streams
  that are on the way to their first row, which carry the username (`Unlisted`).
- `TurnsOrdered`: with one page turns are numbered from 0 without a gap, so the
  `COALESCE(MAX(turn_index) + 1, 0)` of the one stream under way is their number,
  and stays it until the insert (`TurnsNumbered`).
- `HoldsConversation`: on one page every step of `TripSession` is a step of
  `Conversation` or leaves its variables alone. This adds `Following`: the state
  in the hands of the one stream under way is the thread's, because a run starts
  from the latest checkpoint and what is stored and told was read after the run's
  last one. With several pages it is not so: another stream's checkpoint may come
  between.

`OrchestratorProofs`. The invariant `Progress` says that a replay never consumes
more answers than recorded and that no question is asked in the place of one
more than the last round. With it, every step of `Orchestrator` is a step of
`ClarificationGate` or leaves its variables alone, hence `PromiseKept`.
`NeverGuessesUngarbled` needs that a default enters a parse only when the rounds
are used up (`NoDefaults`), and that a garbled date comes from a model that
garbles (`NoGarbage`). `SteadyAnswersKept` and `SteadyConfirmedNotAsked` are about the
replay as a whole: with a steady model each recorded question is the one the
latest text calls for, less what was already heard (`WellAsked`), so a
replay asks again exactly what it asked before, and each answer meets its own
question. What is heard only grows, and what the node returns contains it. Where
the model reads no return dates no parse has one (`NoEnds`), so the length is the
number of days heard; elsewhere nothing is claimed of the length.

`TripPlannerUiProofs`. `OneStream` and `BusyIsServed` are inductive together
with the types: sending aborts the request the page holds, which by
`OneStream` is the only one that can speak. `ResponsesMatchPrompts` is not
inductive; it needs `LiveAnswersLast`, that a live request answers the prompt of
the last turn, which a saved session that arrives late and the form of an
earlier turn break: hence its condition `Orderly`. `RequestsReachTheirSession`
needs `Addressed`: when the last turn waits for answers or has a plan, the page
holds the session that asked or planned, and no request is open whose next event
could give it another.

`ItineraryCompilationProofs`, the route. A step of the compiler changes the route
by `RouteNext` or not at all, so what is invariant of the one is of the other.
Both properties of `RouteShaping` are about what loops over data compute, so the
module first builds the means: induction over a set of numbers (`CountUp`, from the library's theorem on minimal elements), sums over finite sets that do
not depend on the order in which a fold takes the elements, and concatenation of
a sequence of sequences. `NightsAddUp`: what is scaled and rounded has at least
one night a stop and never falls short of the total (`ScaledEnough`), and each
round of `_force_total` over the stops takes at least one night back until the
total is met, as long as a stop has one to give, which the bound of a night a stop
ensures (`ForceTotalExact`).
`LegsMakeATour`: the days of a stop follow those of the stop before
(`DaysInARow`), sorting by day and direction puts each leg at its rank, and the
order is written out leg by leg (`Tour`).

`ItineraryCompilationProofs`, the compiler. `OpenByTheClock` is inductive as it stands: the
gate delivers either on a clean check (`GatePasses`) or right after an iteration
(`GateResolves`), and one iteration is enough for the hours, since the names it
removes include that of every entry found closed (`ResolvedIsOpen`).
`PicksAccountedFor` needs that what is scheduled was laid down for a pick
(`Laid`) and that a valid pick that is not scheduled was excluded as a trial,
closed somewhere, or in a slot that was too long and has a note (`Missed`); a slot only
gets shorter. `DaysFollowRoute` needs that what leaves the gate is laid over the
route as it was shaped, or over one stay without legs, and that what has been
delivered is `Delivered` of some choice of stops with a stay and of a transfer
(`DaysInv`). From there it is about sequences: the legs of a route are in the
order of their days, so they can be cut into one run a day, and the runs joined
are the legs again; without legs the first day has the one transfer or none, and
the other days have nothing.

`ProviderCallsProofs`. `PermitsConserved` counts calls, so it is proved with the
library's facts on finite sets. Its invariant `PermitsInv` adds what a call may be
at each stage (`CallsType`, `Places`: a call under way has a request left to make)
and that the queue of a provider holds calls of that provider that wait, each
once (`Queued`); without it a released permit could be handed to a call that has
one, or to nobody. That a free permit beside a waiter is watched by a woken one
(`Watched`) is kept because `release` wakes one waiter, and whoever leaves
`acquire` wakes as many as there are permits (`AcquireWakes`). `GivesUpOnlyAtLimit`
is a property of steps and needs `Counted`: tries are retries and one more in a
try, and a sleep leaves a try to make, which ties the test of the status and that
of the except branch to the range of tries. `ReplayFaithful` needs that a file
tells of a call that is over and what became of it (`FilesGenuine`), that a call
that gave a success merged what it asked, asked nothing or ended well
(`SuccessIsLast`), and that no two calls began at once (`CallsInOrder`), so that
the newest file is one file.

`UsageMeterProofs`. `UsageConserved` needs `OneWorker` (at most one thread takes
from the queue), `QueueFresh` (queued calls are distinct and at the stage
"queued") and `CopiesFresh` (a row in the worker's hand is the row in Redis
unless that row is spoilt, and the call it is for is at the stage "held").
`SummaryComplete` adds that a call no row has is on the queue, in the worker's
hand, or lost to a spoilt row (`Located`), and that the number of unfinished
tasks counts the first two (`Counted`): when `join` returns, every call of the
prompt is in its row, and what is then read of it stays read.

`SseStreamProofs`. The invariant, `StreamInv`: what was given is a beginning of
what was sent, and while the page reads, the buffer is what has arrived after
those frames, byte for byte. That it is kept rests on what the parser makes of
one frame, in any of its four forms (either line end, with a comment or without):

- Its fields and its line ends are in known places, and nothing else looks like
  one (`EncodedIs`).
- A beginning of a frame, of any length, makes the frame's event if its data is
  whole and no event before (`EventsOfBeginning`): either the field is not there
  yet, or half a JSON text is none, or only line ends are missing.
- Less than a frame has no blank line (`NoBlankLine`), and of more than a frame the
  first is the one that ends it (`FirstBlankLine`): a frame with LF has no CR, in
  one with CRLF no two LFs meet, and neither has two line ends in a row earlier.

Frames follow each other in the bytes of a response (`FrameBytes`), by induction
on their number. `GivenAsSent` says the first half of the invariant;
`NothingHeldBack` follows because a frame that has arrived would put a blank line
in the buffer. The same shows that a body that ends after its last byte has been
given whole (`WholeResponseGivenHolds`), which no run states.

Only model-checked: liveness, that is `PromptSettles`, `NeverStuck`, `Settles`,
`CallsEnd` and `PlanningEnds`. TLAPS proves neither fairness arguments nor ENABLED.

The library's induction theorems take an operator as a parameter, which the
provers at hand cannot instantiate, and they know nothing of RECURSIVE
operators. Hence the models use folds and recursive functions, and the proofs
`CountUp`.

## 7. Not modelled

- The profile prefill of the orchestrator: no code loads the stored profile
  into `TripState`, so its branch is unreachable.
- `run_graph`, used by tests only; the lazy construction of the graph.
- Titles, renaming, `PUT` of an itinerary.
- What the searching and ranking agents put into reports; prompts; meals and
  prices; layout; PDF. `extract_llm_usage` reads a provider's response.
- `get_llm` and Langfuse; the lazy HTTP client and `close()`; the registry of
  tools.
- The currency converter: one lookup with a fallback to the unconverted amount.
- Users and profiles: single statements without state between requests.
- Configuration, logging, metrics, data types, presentation.
- The session list: see the plan.

## 8. Plan

Done, in this order: `PlanningGraph`, `TripSession`, `ClarificationGate` with
`Orchestrator`, `TripPlannerUi`, `RouteShaping`, `ItineraryCompilation`,
`ProviderCalls`, `UsageMeter`, restarts in `TripSession`, `Conversation`,
`SseStream`, and the proofs of all of them.

Next modules:

1. `SessionList`: overlapping refreshes, renaming while a prompt is planned, and
   with it titles in `TripSession`'s rows.
2. The currency converter, and the budget that adds up what it returns.

Composition: the page and the server's session side by side, so that
`TripPlannerUi`'s streams are those `TripSession` sends.

Next theorems: those of the modules to come, and the page refined together with
`TripSession` once the two are composed.
