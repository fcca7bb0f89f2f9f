----------------------------- MODULE PlanningGraph -----------------------------
(***************************************************************************)
(* The planning graph of one chat session (backend/app/graph/graph.py),    *)
(* run by LangGraph in supersteps on one checkpointed thread.              *)
(*                                                                         *)
(* A superstep runs a set of nodes concurrently on the same snapshot of    *)
(* TripState.  Their writes are applied together at the barrier, and every *)
(* node with at least one predecessor in the set runs in the next one: an  *)
(* edge is not a join.  A node that calls interrupt() pauses the thread;   *)
(* the stream that was driving it returns at once, which cancels the       *)
(* siblings still running, and they run again when the user answers.       *)
(*                                                                         *)
(* Report contents are abstracted to the route_version they were computed  *)
(* under (tag, 0 for "never written"), which is what the route contract of *)
(* specs/stops-discovery-agent-spec.md speaks about.                       *)
(***************************************************************************)
EXTENDS Naturals, FiniteSets

CONSTANTS
  MaxRounds,   \* settings.max_clarification_rounds
  MaxPrompts   \* bound of the model: prompts submitted on the thread

ASSUME MaxRoundsAssumption == MaxRounds \in Nat \ {0}
ASSUME MaxPromptsAssumption == MaxPrompts \in Nat \ {0}

VARIABLES
  phase,      \* what the thread is doing
  prompt,     \* number of prompts submitted so far
  tasks,      \* nodes of the current superstep
  done,       \* those of them whose writes the checkpoint already holds
  answers,    \* resume values the interrupted node has received
  fired,      \* times each node's writes were applied during this prompt
  round,      \* TripState.clarification_round
  route,      \* TripState.route_discovery_status
  version,    \* TripState.route_version
  dated,      \* TripState.dates is set
  foodKnown,  \* TripState.user_profile.food_preferences_configured
  tag,        \* route_version each report was written under
  tainted,    \* reports computed from another version's data
  seen,       \* tag, as the compiler of the current itinerary read it
  delivered   \* tag of the itinerary in the last "complete" event, 0 for null

thread == <<phase, prompt, tasks, done, answers, fired>>
trip == <<round, route, version, dated, foodKnown, tag, tainted, seen, delivered>>
vars == <<thread, trip>>

-----------------------------------------------------------------------------
(***************************************************************************)
(* Nodes, edges and channels.                                              *)
(***************************************************************************)

\* Control nodes run alone in their superstep.
Control == {"orchestrator", "stops_discovery", "route_clarification",
            "discovery_failed_end"}

Agents == {"visa", "transport_search", "stay_search", "local_experiences",
           "transport_optimizer", "self_drive_search", "stay_analyst",
           "food_clarification", "reviews", "food_discovery",
           "budget_planner", "safety", "itinerary_compiler"}

Nodes == Control \cup Agents

\* The four branches opened by a usable route.
Entry == {"visa", "transport_search", "stay_search", "local_experiences"}

Reports == {"visa_report", "transport_legs_raw", "transport_legs_raw_by_leg",
            "stays_raw", "stays_raw_by_stop", "experiences_raw",
            "experiences_raw_by_stop", "transport_recommendation",
            "transport_recommendation_by_leg", "stays_shortlist",
            "stays_shortlist_by_stop", "self_drive_report", "reviews_summary",
            "food_recommendations", "food_recommendations_by_stop",
            "budget_report", "safety_report", "itinerary"}

\* Channels merged by operator.or_; a write to one keeps its older entries.
Merged == {"reviews_summary", "food_recommendations",
           "food_recommendations_by_stop"}

\* Mutant: the edge that graph.py:253-257 says was taken out.
VisaSuccessors_ToBudget == {"budget_planner"}

\* visa has no outgoing edge: the budget planner finds its report in the state.
VisaSuccessors == {}

\* The edges between agents.
AgentSuccessors ==
  [visa                |-> VisaSuccessors,
   transport_search    |-> {"transport_optimizer", "self_drive_search"},
   stay_search         |-> {"stay_analyst"},
   local_experiences   |-> {"reviews", "food_clarification"},
   transport_optimizer |-> {"budget_planner"},
   self_drive_search   |-> {"budget_planner"},
   stay_analyst        |-> {"budget_planner", "reviews"},
   food_clarification  |-> {"food_discovery"},
   food_discovery      |-> {"safety"},
   reviews             |-> {"itinerary_compiler"},
   budget_planner      |-> {"itinerary_compiler"},
   safety              |-> {"itinerary_compiler"},
   itinerary_compiler  |-> {}]

\* Mutant: best effort once the rounds are used up.
RouteAfterDiscovery_BestEffort(status, rounds) ==
  IF status # "discovery_failed" \/ rounds >= MaxRounds THEN Entry
  ELSE {"route_clarification"}

\* Mutant: one round too many.
RouteAfterDiscovery_OffByOne(status, rounds) ==
  IF status # "discovery_failed" THEN Entry
  ELSE IF rounds > MaxRounds THEN {"discovery_failed_end"}
  ELSE {"route_clarification"}

\* _route_after_discovery: the nodes that follow stops_discovery.
RouteAfterDiscovery(status, rounds) ==
  IF status # "discovery_failed" THEN Entry
  ELSE IF rounds >= MaxRounds THEN {"discovery_failed_end"}
  ELSE {"route_clarification"}

Multi == route = "multi_stop_provisional"

\* A per-stop variant of a channel on multi-stop routes, else the plain one.
Shaped(plain, byPart) == IF Multi THEN byPart ELSE plain

\* `state[byPart] or state[plain]`: the plain channel only while byPart is empty.
FirstPresent(byPart, plain) == IF tag[byPart] # 0 THEN byPart ELSE plain

-----------------------------------------------------------------------------
(***************************************************************************)
(* What each agent takes from TripState and returns: the report channels   *)
(* whose contents reach what it writes, the report channels it writes, and *)
(* the other last-write-wins channels it writes.  Tool and model failures  *)
(* are caught inside the agents, which then write an emptier report to the *)
(* same channels.                                                          *)
(***************************************************************************)

Agent(reads, reports, other) == [reads |-> reads, reports |-> reports, other |-> other]

\* Mutant: a domestic trip leaves visa_report alone, as plan.md:438 has it.
Visa_WritesNothing == Agent({}, {}, {})

Visa == Agent({}, {"visa_report"}, {})

\* On a multi-stop route it also returns the legs with their final mode.
TransportSearch ==
  Agent({}, {Shaped("transport_legs_raw", "transport_legs_raw_by_leg")},
        IF Multi THEN {"route_legs"} ELSE {})

\* Mutant: the stay search also refreshes the legs it was planned around.
StaySearch_ReturnsLegs ==
  Agent({}, {Shaped("stays_raw", "stays_raw_by_stop")},
        IF Multi THEN {"route_legs"} ELSE {})

StaySearch == Agent({}, {Shaped("stays_raw", "stays_raw_by_stop")}, {})

LocalExperiences ==
  Agent({}, {Shaped("experiences_raw", "experiences_raw_by_stop")}, {})

TransportOptimizer ==
  Agent({Shaped("transport_legs_raw", "transport_legs_raw_by_leg")},
        {"transport_recommendation"} \cup
          (IF Multi THEN {"transport_recommendation_by_leg"} ELSE {}), {})

SelfDriveSearch == Agent({}, {"self_drive_report"}, {})

StayAnalyst ==
  Agent({Shaped("stays_raw", "stays_raw_by_stop")},
        {Shaped("stays_shortlist", "stays_shortlist_by_stop")}, {})

\* The food gate: silent once the profile knows the preferences.
FoodClarification ==
  Agent({}, {}, IF foodKnown THEN {} ELSE {"user_profile", "clarification_round"})

Reviews ==
  Agent({Shaped("stays_shortlist", "stays_shortlist_by_stop"),
         Shaped("experiences_raw", "experiences_raw_by_stop")},
        {"reviews_summary"}, {})

FoodDiscovery ==
  Agent(IF Multi THEN {} ELSE {"experiences_raw"},
        {Shaped("food_recommendations", "food_recommendations_by_stop")}, {})

BudgetPlanner ==
  Agent({"transport_recommendation", "visa_report", "self_drive_report",
         Shaped("stays_shortlist", "stays_shortlist_by_stop"),
         FirstPresent("food_recommendations_by_stop", "food_recommendations"),
         FirstPresent("experiences_raw_by_stop", "experiences_raw")},
        {"budget_report"}, {})

Safety == Agent({"experiences_raw", "food_recommendations"}, {"safety_report"}, {})

\* Without dates the compiler returns an error and no itinerary.
ItineraryCompiler ==
  Agent({"visa_report", "self_drive_report", "budget_report", "safety_report",
         "reviews_summary", "transport_recommendation",
         "transport_recommendation_by_leg", "stays_shortlist",
         FirstPresent("food_recommendations_by_stop", "food_recommendations"),
         FirstPresent("experiences_raw_by_stop", "experiences_raw")}
          \cup (IF Multi THEN {"stays_shortlist_by_stop"} ELSE {"stays_raw"}),
        IF dated THEN {"itinerary"} ELSE {}, IF dated THEN {} ELSE {"error"})

Contract ==
  [visa                |-> Visa,
   transport_search    |-> TransportSearch,
   stay_search         |-> StaySearch,
   local_experiences   |-> LocalExperiences,
   transport_optimizer |-> TransportOptimizer,
   self_drive_search   |-> SelfDriveSearch,
   stay_analyst        |-> StayAnalyst,
   food_clarification  |-> FoodClarification,
   reviews             |-> Reviews,
   food_discovery      |-> FoodDiscovery,
   budget_planner      |-> BudgetPlanner,
   safety              |-> Safety,
   itinerary_compiler  |-> ItineraryCompiler]

-----------------------------------------------------------------------------
(***************************************************************************)
(* Running and leaving a superstep.                                        *)
(***************************************************************************)

\* The thread runs the single control node n.
RunsAlone(n) == phase = "running" /\ tasks = {n}

\* Mutant: the finished tasks of the previous superstep are kept.
Advance_KeepsDone(next) ==
  /\ tasks' = next
  /\ answers' = 0
  /\ fired' = [n \in Nodes |-> IF n \in tasks THEN fired[n] + 1 ELSE fired[n]]
  /\ phase' = IF next = {} THEN "finished" ELSE "running"
  /\ delivered' = IF next = {} THEN tag'["itinerary"] ELSE delivered
  /\ UNCHANGED <<prompt, done>>

\* The barrier: the current nodes' writes are applied, `next` is scheduled.
\* With nothing to schedule the run is over, and the stream sends "complete"
\* with whatever itinerary the state holds.
Advance(next) ==
  /\ tasks' = next
  /\ done' = {}
  /\ answers' = 0
  /\ fired' = [n \in Nodes |-> IF n \in tasks THEN fired[n] + 1 ELSE fired[n]]
  /\ phase' = IF next = {} THEN "finished" ELSE "running"
  /\ delivered' = IF next = {} THEN tag'["itinerary"] ELSE delivered
  /\ UNCHANGED prompt

\* interrupt(): the thread pauses until the user answers.
Ask ==
  /\ phase' = "paused"
  /\ UNCHANGED <<prompt, tasks, done, answers, fired, trip>>

-----------------------------------------------------------------------------
(***************************************************************************)
(* The user: prompts and answers.                                          *)
(***************************************************************************)

StartAtOrchestrator ==
  /\ phase' = "running"
  /\ prompt' = prompt + 1
  /\ tasks' = {"orchestrator"}
  /\ done' = {}
  /\ answers' = 0
  /\ fired' = [n \in Nodes |-> 0]
  /\ UNCHANGED trip

\* First prompt of the session: initial_state(), every report None.
NewPrompt ==
  /\ phase = "idle"
  /\ StartAtOrchestrator

\* A later prompt on a session that has an itinerary: {"query"} only, so all
\* other channels keep what earlier prompts left, and the thread restarts at
\* START whatever it was doing.
FollowUp ==
  /\ phase \in {"paused", "finished", "failed"}
  /\ delivered # 0
  /\ prompt < MaxPrompts
  /\ StartAtOrchestrator

\* Mutant: the graph is resumed without the answers, and asks again.
Answer_Unheard ==
  /\ phase = "paused"
  /\ phase' = "running"
  /\ UNCHANGED <<prompt, tasks, done, answers, fired, trip>>

\* POST /clarify: Command(resume=answers).
Answer ==
  /\ phase = "paused"
  /\ phase' = "running"
  /\ answers' = answers + 1
  /\ UNCHANGED <<prompt, tasks, done, fired, trip>>

-----------------------------------------------------------------------------
(***************************************************************************)
(* Control nodes.                                                          *)
(***************************************************************************)

\* The orchestrator is missing a field, could not parse, or refuses the query.
AskFields ==
  /\ RunsAlone("orchestrator")
  /\ answers < MaxRounds
  /\ Ask

\* The orchestrator returns after `used` of the answers it was given: it runs
\* from the top on every resume and parses anew, so it may need fewer than
\* were asked.  Only with all MaxRounds used may it end unparsed.
Orchestrate(used, isParsed) ==
  /\ RunsAlone("orchestrator")
  /\ used <= answers
  /\ isParsed \/ used = MaxRounds
  /\ round' = round + used
  /\ dated' = (dated \/ isParsed)
  /\ UNCHANGED <<route, version, foodKnown, tag, tainted, seen>>
  /\ Advance({"stops_discovery"})

\* Stops discovery shapes a route or fails; without dates and destination it
\* does not try.
Discover(status) ==
  /\ RunsAlone("stops_discovery")
  /\ dated \/ status = "single_destination"
  /\ route' = status
  /\ version' = version + 1
  /\ UNCHANGED <<round, dated, foodKnown, tag, tainted, seen>>
  /\ Advance(RouteAfterDiscovery(status, round))

AskRoute ==
  /\ RunsAlone("route_clarification")
  /\ answers = 0
  /\ Ask

ReviseDestination ==
  /\ RunsAlone("route_clarification")
  /\ answers > 0
  /\ round' = round + 1
  /\ UNCHANGED <<route, version, dated, foodKnown, tag, tainted, seen>>
  /\ Advance({"stops_discovery"})

\* discovery_failed_end only sets TripState.error, which nothing reads.
HardStop ==
  /\ RunsAlone("discovery_failed_end")
  /\ UNCHANGED <<round, route, version, dated, foodKnown, tag, tainted, seen>>
  /\ Advance({})

-----------------------------------------------------------------------------
(***************************************************************************)
(* Agents.                                                                 *)
(***************************************************************************)

RunsAgents == phase = "running" /\ tasks # {} /\ tasks \subseteq Agents

AskFood ==
  /\ RunsAgents
  /\ "food_clarification" \in tasks \ done
  /\ ~foodKnown
  /\ answers = 0
  /\ Ask

\* Mutant: the food gate waits for an answer it never asked for.
FinishAgent_AlwaysAsked(n) ==
  /\ RunsAgents
  /\ n \in tasks \ done
  /\ n = "food_clarification" => answers > 0
  /\ done' = done \cup {n}
  /\ UNCHANGED <<phase, prompt, tasks, answers, fired, trip>>

\* Agent n returns; its writes wait in the checkpoint for the barrier.
FinishAgent(n) ==
  /\ RunsAgents
  /\ n \in tasks \ done
  /\ n = "food_clarification" => foodKnown \/ answers > 0
  /\ done' = done \cup {n}
  /\ UNCHANGED <<phase, prompt, tasks, answers, fired, trip>>

Stale(f) == tag[f] \notin {0, version}

\* Agent n combines data of two route versions, itself or through an input; a
\* merged channel counts as an input, since its older entries stay.
Mixes(n) == \E f \in Contract[n].reads \cup (Contract[n].reports \cap Merged) :
               Stale(f) \/ f \in tainted

WrittenBy(S) == UNION {Contract[n].reports : n \in S}

\* Mutant: rewriting the legs counts as a new route version.
Barrier_Reshapes ==
  /\ RunsAgents
  /\ done = tasks
  /\ tag' = [f \in Reports |-> IF f \in WrittenBy(tasks) THEN version ELSE tag[f]]
  /\ tainted' = (tainted \ WrittenBy(tasks)) \cup WrittenBy({n \in tasks : Mixes(n)})
  /\ version' = IF Multi /\ "transport_search" \in tasks THEN version + 1 ELSE version
  /\ UNCHANGED <<round, route, dated, foodKnown, seen>>
  /\ Advance(UNION {AgentSuccessors[n] : n \in tasks})

\* All agents of the superstep have returned.
Barrier ==
  /\ RunsAgents
  /\ done = tasks
  /\ tag' = [f \in Reports |-> IF f \in WrittenBy(tasks) THEN version ELSE tag[f]]
  /\ tainted' = (tainted \ WrittenBy(tasks))
                  \cup WrittenBy({n \in tasks : Mixes(n)})
  /\ seen' = IF "itinerary" \in WrittenBy(tasks) THEN tag ELSE seen
  /\ IF "food_clarification" \in tasks /\ ~foodKnown
       THEN foodKnown' = TRUE /\ round' = round + 1
       ELSE UNCHANGED <<foodKnown, round>>
  /\ UNCHANGED <<route, version, dated>>
  /\ Advance(UNION {AgentSuccessors[n] : n \in tasks})

\* A node raises, the stream is cancelled, or the process stops: the thread
\* keeps its last checkpoint and the run is abandoned.
Fail ==
  /\ phase = "running"
  /\ phase' = "failed"
  /\ UNCHANGED <<prompt, tasks, done, answers, fired, trip>>

-----------------------------------------------------------------------------
Statuses == {"single_destination", "multi_stop_provisional", "discovery_failed"}

Init ==
  /\ phase = "idle"
  /\ prompt = 0
  /\ tasks = {}
  /\ done = {}
  /\ answers = 0
  /\ fired = [n \in Nodes |-> 0]
  /\ round = 0
  /\ route = "single_destination"
  /\ version = 0
  /\ dated = FALSE
  /\ foodKnown = FALSE
  /\ tag = [f \in Reports |-> 0]
  /\ tainted = {}
  /\ seen = [f \in Reports |-> 0]
  /\ delivered = 0

User == NewPrompt \/ FollowUp \/ Answer

ControlStep ==
  \/ AskFields
  \/ \E used \in 0..MaxRounds, isParsed \in BOOLEAN : Orchestrate(used, isParsed)
  \/ \E status \in Statuses : Discover(status)
  \/ AskRoute
  \/ ReviseDestination
  \/ HardStop

AgentStep == AskFood \/ (\E n \in Agents : FinishAgent(n)) \/ Barrier

Next == User \/ ControlStep \/ AgentStep \/ Fail

Spec == Init /\ [][Next]_vars

\* asyncio schedules every task of a superstep and every tool and model call
\* has a timeout, so the graph's own steps are fair.
Fairness == WF_vars(ControlStep \/ AgentStep)

FairSpec == Spec /\ Fairness

\* The user answers every question put to them.
Answered == WF_vars(Answer)

-----------------------------------------------------------------------------
(***************************************************************************)
(* Properties.                                                             *)
(***************************************************************************)

TypeOK ==
  /\ phase \in {"idle", "running", "paused", "finished", "failed"}
  /\ prompt \in Nat
  /\ tasks \in SUBSET Nodes
  /\ done \in SUBSET tasks
  /\ answers \in Nat
  /\ fired \in [Nodes -> Nat]
  /\ round \in Nat
  /\ route \in Statuses
  /\ version \in Nat
  /\ dated \in BOOLEAN
  /\ foodKnown \in BOOLEAN
  /\ tag \in [Reports -> Nat]
  /\ tainted \in SUBSET Reports
  /\ seen \in [Reports -> Nat]
  /\ delivered \in Nat

\* "A discovery_failed route must never reach Layer 2 supply search"
\* (graph.py:44-46): while agents are scheduled the route in the state is a
\* usable one, in every prompt of the session and after every resume.
NoSupplyWithoutRoute ==
  tasks \cap Agents # {} => route # "discovery_failed"

\* Two nodes of one superstep never write the same last-write-wins channel,
\* which LangGraph rejects with an InvalidUpdateError that ends the run.
NoConcurrentWriters ==
  \A m, n \in tasks \cap Agents :
    m # n => ((Contract[m].reports \cup Contract[m].other)
                \cap (Contract[n].reports \cup Contract[n].other)) \ Merged = {}

\* Agents whose predecessors are all at one depth run once per prompt
\* (graph.py:253-257, said there of budget_planner), even though pauses make
\* the siblings of food_clarification run again.
SingleFiring ==
  \A n \in Agents \ {"reviews", "itinerary_compiler"} : fired[n] <= 1

\* What the last compile of a prompt must have been given.
Required ==
  {"visa_report", "self_drive_report", "budget_report", "safety_report",
   "reviews_summary", "transport_recommendation",
   Shaped("stays_shortlist", "stays_shortlist_by_stop"),
   Shaped("experiences_raw", "experiences_raw_by_stop"),
   Shaped("food_recommendations", "food_recommendations_by_stop")}
  \cup (IF Multi THEN {"transport_recommendation_by_leg"} ELSE {})

\* The early compiles run without the budget and safety reports; the itinerary
\* of a run that ends on a usable route is nevertheless one compiled from
\* every report of that route version.
FinalCompileComplete ==
  phase = "finished" /\ route # "discovery_failed" /\ dated
    => /\ delivered = version
       /\ \A f \in Required : seen[f] = version

\* "A discovery_failed route must never silently degrade into a plausible-
\* looking but wrong ... itinerary" (graph.py:134-137): a run that ends without
\* a route hands the client no itinerary.
NeverSilentlyDegrade ==
  phase = "finished" /\ route = "discovery_failed" => delivered = 0

\* "the compiler ... must never mix results from two different route versions"
\* (specs/stops-discovery-agent-spec.md:149).
NeverMixVersions ==
  phase = "finished" => "itinerary" \notin tainted

\* That holds of the first prompt of a session, whatever is asked and revised
\* on the way to its itinerary.
FirstNeverMixes == prompt = 1 => NeverMixVersions

\* Rounds add up over the prompts of a session (nothing resets the channel):
\* each prompt adds at most MaxRounds, and the food gate one for the session.
RoundsBounded == round <= prompt * MaxRounds + (IF foodKnown THEN 1 ELSE 0)

\* If the user answers, every prompt comes to an outcome.
PromptSettles == Answered => (phase = "running" ~> phase \in {"finished", "failed"})

\* Without any help from the user the graph stops or asks: no set of agents
\* waits for each other.
NeverStuck == phase = "running" ~> phase # "running"
=============================================================================
