-------------------------- MODULE PlanningGraphProofs --------------------------
(***************************************************************************)
(* Proofs about PlanningGraph, for every number of clarification rounds    *)
(* and of prompts.                                                         *)
(*                                                                         *)
(* The argument: although an edge is not a join, the supersteps a run can  *)
(* reach are few (Supersteps), each determined by the one before.  What is *)
(* true of TripState when a superstep starts is then stated layer by layer.*)
(***************************************************************************)
EXTENDS PlanningGraph, TLAPS

-----------------------------------------------------------------------------
(* The supersteps of a run. *)

Layer2 == Entry
Layer3 == {"transport_optimizer", "self_drive_search", "stay_analyst",
           "reviews", "food_clarification"}
Layer4 == {"budget_planner", "reviews", "itinerary_compiler", "food_discovery"}
Layer5 == {"itinerary_compiler", "safety"}
Layer6 == {"itinerary_compiler"}

AgentLayers == {Layer2, Layer3, Layer4, Layer5, Layer6}
ControlSteps == {{n} : n \in Control}

Supersteps == {{}} \cup ControlSteps \cup AgentLayers

Following(S) == UNION {AgentSuccessors[n] : n \in S}

\* The reports that the layers before superstep S have written.
EarlierAgents(S) ==
  CASE S = Layer3 -> Layer2
    [] S = Layer4 -> Layer2 \cup Layer3
    [] S = Layer5 -> Layer2 \cup Layer3 \cup Layer4
    [] S = Layer6 -> Layer2 \cup Layer3 \cup Layer4 \cup Layer5
    [] OTHER      -> {}

-----------------------------------------------------------------------------
(* Lemmas about the graph. *)

\* Each layer of agents is followed by the next one, and the last by nothing.
LEMMA LayerEdges ==
  /\ Following(Layer2) = Layer3
  /\ Following(Layer3) = Layer4
  /\ Following(Layer4) = Layer5
  /\ Following(Layer5) = Layer6
  /\ Following(Layer6) = {}
  <1>1. Following(Layer2) = Layer3
    BY DEF Following, Layer2, Entry, Layer3, AgentSuccessors, VisaSuccessors
  <1>2. Following(Layer3) = Layer4
    BY DEF Following, Layer3, Layer4, AgentSuccessors
  <1>3. Following(Layer4) = Layer5
    BY DEF Following, Layer4, Layer5, AgentSuccessors
  <1>4. Following(Layer5) = Layer6
    BY DEF Following, Layer5, Layer6, AgentSuccessors
  <1>5. Following(Layer6) = {}
    BY DEF Following, Layer6, AgentSuccessors
  <1>6. QED
    BY <1>1, <1>2, <1>3, <1>4, <1>5

\* Every edge of an agent leads to an agent.
LEMMA AgentEdges ==
  \A n \in Agents : AgentSuccessors[n] \subseteq Agents
  BY DEF AgentSuccessors, VisaSuccessors, Agents

\* Agents write report channels only.
LEMMA WritesAreReports ==
  \A n \in Agents : Contract[n].reports \subseteq Reports
  BY DEF Reports, Agents, Contract, Agent, Visa, TransportSearch, StaySearch,
       LocalExperiences, TransportOptimizer, SelfDriveSearch, StayAnalyst, FoodClarification,
       Reviews, FoodDiscovery, BudgetPlanner, Safety, ItineraryCompiler, Shaped, FirstPresent

\* The reports an agent writes depend on the route's shape and on the dates.
LEMMA ReportsStable ==
  ASSUME UNCHANGED <<route, dated>>, NEW n \in Agents
  PROVE  Contract'[n].reports = Contract[n].reports
  <1>1. Multi' = Multi
    BY DEF Multi
  <1>2. /\ Visa'.reports = Visa.reports
        /\ TransportSearch'.reports = TransportSearch.reports
        /\ StaySearch'.reports = StaySearch.reports
        /\ LocalExperiences'.reports = LocalExperiences.reports
        /\ TransportOptimizer'.reports = TransportOptimizer.reports
    BY <1>1 DEF Agent, Visa, TransportSearch, StaySearch, LocalExperiences,
       TransportOptimizer, Shaped
  <1>3. /\ SelfDriveSearch'.reports = SelfDriveSearch.reports
        /\ StayAnalyst'.reports = StayAnalyst.reports
        /\ FoodClarification'.reports = FoodClarification.reports
        /\ Reviews'.reports = Reviews.reports
    BY <1>1 DEF Agent, SelfDriveSearch, StayAnalyst, FoodClarification, Reviews, Shaped
  <1>4. /\ FoodDiscovery'.reports = FoodDiscovery.reports
        /\ BudgetPlanner'.reports = BudgetPlanner.reports
        /\ Safety'.reports = Safety.reports
        /\ ItineraryCompiler'.reports = ItineraryCompiler.reports
    BY <1>1 DEF Agent, FoodDiscovery, BudgetPlanner, Safety, ItineraryCompiler, Shaped
  <1>5. QED
    BY <1>2, <1>3, <1>4 DEF Contract, Agents

-----------------------------------------------------------------------------
(* Type correctness. *)

\* The barrier keeps the thread's half of TypeOK once the next nodes and the
\* tags are known to be well-typed.
LEMMA AdvanceType ==
  ASSUME TypeOK, NEW next \in SUBSET Nodes, Advance(next), tag' \in [Reports -> Nat]
  PROVE  /\ phase' \in {"idle", "running", "paused", "finished", "failed"}
         /\ prompt' \in Nat
         /\ tasks' \in SUBSET Nodes
         /\ done' \in SUBSET tasks'
         /\ answers' \in Nat
         /\ fired' \in [Nodes -> Nat]
         /\ delivered' \in Nat
  BY DEF TypeOK, Advance, Reports

LEMMA TypeStep ==
  ASSUME TypeOK, [Next]_vars
  PROVE  TypeOK'
  <1>1. CASE User
    <2>1. CASE StartAtOrchestrator
      BY <2>1 DEF StartAtOrchestrator, TypeOK, trip, Nodes, Control
    <2>2. CASE Answer
      BY <2>2 DEF Answer, TypeOK, trip
    <2>3. QED
      BY <1>1, <2>1, <2>2 DEF User, NewPrompt, FollowUp
  <1>2. CASE AskFields \/ AskRoute \/ AskFood
    BY <1>2 DEF AskFields, AskRoute, AskFood, Ask, TypeOK, trip
  <1>3. ASSUME NEW used \in 0..MaxRounds, NEW isParsed \in BOOLEAN,
               Orchestrate(used, isParsed)
        PROVE  TypeOK'
    <2>1. {"stops_discovery"} \in SUBSET Nodes /\ tag' \in [Reports -> Nat]
      BY <1>3 DEF Orchestrate, Nodes, Control, TypeOK
    <2>2. Advance({"stops_discovery"})
      BY <1>3 DEF Orchestrate
    <2>3. QED
      BY <1>3, <2>1, <2>2, AdvanceType, MaxRoundsAssumption DEF Orchestrate, TypeOK
  <1>4. ASSUME NEW status \in Statuses, Discover(status)
        PROVE  TypeOK'
    <2> DEFINE next == RouteAfterDiscovery(status, round)
    <2>1. next \in SUBSET Nodes
      BY DEF RouteAfterDiscovery, Entry, Nodes, Control, Agents
    <2>2. Advance(next) /\ tag' \in [Reports -> Nat]
      BY <1>4 DEF Discover, TypeOK
    <2> HIDE DEF next
    <2>3. QED
      BY <1>4, <2>1, <2>2, AdvanceType DEF Discover, TypeOK
  <1>5. CASE ReviseDestination
    <2>1. {"stops_discovery"} \in SUBSET Nodes /\ tag' \in [Reports -> Nat]
      BY <1>5 DEF ReviseDestination, Nodes, Control, TypeOK
    <2>2. QED
      BY <1>5, <2>1, AdvanceType DEF ReviseDestination, TypeOK
  <1>6. CASE HardStop
    <2>1. {} \in SUBSET Nodes /\ tag' \in [Reports -> Nat]
      BY <1>6 DEF HardStop, TypeOK
    <2>2. QED
      BY <1>6, <2>1, AdvanceType DEF HardStop, TypeOK
  <1>7. ASSUME NEW n \in Agents, FinishAgent(n)
        PROVE  TypeOK'
    BY <1>7 DEF FinishAgent, TypeOK, trip
  <1>8. CASE Barrier
    <2> DEFINE next == UNION {AgentSuccessors[n] : n \in tasks}
    <2>1. next \in SUBSET Nodes
      BY <1>8, AgentEdges DEF Barrier, RunsAgents, Nodes
    <2>2. tag' \in [Reports -> Nat] /\ Advance(next)
      BY <1>8 DEF Barrier, TypeOK
    <2>3. WrittenBy(tasks) \subseteq Reports
      BY <1>8, WritesAreReports DEF Barrier, RunsAgents, WrittenBy
    <2>4. WrittenBy({n \in tasks : Mixes(n)}) \subseteq Reports
      BY <1>8, WritesAreReports DEF Barrier, RunsAgents, WrittenBy
    <2>5. tainted' \in SUBSET Reports /\ seen' \in [Reports -> Nat]
      BY <1>8, <2>3, <2>4 DEF Barrier, TypeOK
    <2>6. foodKnown' \in BOOLEAN
      BY <1>8, Zenon DEF Barrier, TypeOK
    <2>9. round' \in Nat
      BY <1>8, SMT DEF Barrier, TypeOK
    <2> HIDE DEF next
    <2>7. QED
      BY <1>8, <2>1, <2>2, <2>5, <2>6, <2>9, AdvanceType DEF Barrier, TypeOK
  <1>9. CASE Fail
    BY <1>9 DEF Fail, TypeOK, trip
  <1>10. CASE UNCHANGED vars
    BY <1>10 DEF vars, thread, trip, TypeOK
  <1>11. QED
    BY <1>1, <1>2, <1>3, <1>4, <1>5, <1>6, <1>7, <1>8, <1>9, <1>10
       DEF Next, ControlStep, AgentStep

\* TypeOK holds in every reachable state of the planning graph.
THEOREM TypeCorrect == Spec => []TypeOK
  <1>1. Init => TypeOK
    <2> SUFFICES ASSUME Init PROVE TypeOK
      OBVIOUS
    <2>1. dated \in BOOLEAN /\ foodKnown \in BOOLEAN
      BY Zenon DEF Init
    <2>2. QED
      BY <2>1 DEF Init, TypeOK, Statuses
  <1>2. TypeOK /\ [Next]_vars => TypeOK'
    BY TypeStep
  <1>3. QED
    BY <1>1, <1>2, PTL DEF Spec

-----------------------------------------------------------------------------
(* The order of the layers. *)

LEMMA LayersDistinct ==
  /\ Layer2 \notin {Layer3, Layer4, Layer5, Layer6}
  /\ Layer3 \notin {Layer4, Layer5, Layer6}
  /\ Layer4 \notin {Layer5, Layer6}
  /\ Layer5 # Layer6
  <1>1. "visa" \in Layer2 /\ "visa" \notin Layer3 /\ "visa" \notin Layer4
        /\ "visa" \notin Layer5 /\ "visa" \notin Layer6
    BY DEF Layer2, Entry, Layer3, Layer4, Layer5, Layer6
  <1>2. "stay_analyst" \in Layer3 /\ "stay_analyst" \notin Layer4
        /\ "stay_analyst" \notin Layer5 /\ "stay_analyst" \notin Layer6
    BY DEF Layer3, Layer4, Layer5, Layer6
  <1>3. "budget_planner" \in Layer4 /\ "budget_planner" \notin Layer5
        /\ "budget_planner" \notin Layer6
    BY DEF Layer4, Layer5, Layer6
  <1>4. "safety" \in Layer5 /\ "safety" \notin Layer6
    BY DEF Layer5, Layer6
  <1>5. QED
    BY <1>1, <1>2, <1>3, <1>4

\* No layer is a control step, and every layer consists of agents.
LEMMA LayersAreAgents ==
  /\ \A S \in AgentLayers : S \subseteq Agents /\ S # {}
  /\ \A S \in AgentLayers, n \in Control : S # {n}
  /\ \A n \in Control : n \notin Agents
  <1>1. \A S \in AgentLayers : S \subseteq Agents /\ S # {}
    BY DEF AgentLayers, Layer2, Entry, Layer3, Layer4, Layer5, Layer6, Agents
  <1>2. \A n \in Control : n \notin Agents
    BY DEF Control, Agents
  <1>3. QED
    BY <1>1, <1>2

LEMMA EarlierOf ==
  /\ EarlierAgents(Layer2) = {}
  /\ EarlierAgents(Layer3) = Layer2
  /\ EarlierAgents(Layer4) = Layer2 \cup Layer3
  /\ EarlierAgents(Layer5) = Layer2 \cup Layer3 \cup Layer4
  /\ EarlierAgents(Layer6) = Layer2 \cup Layer3 \cup Layer4 \cup Layer5
  /\ EarlierAgents({}) = {}
  /\ \A n \in Control : EarlierAgents({n}) = {}
  BY LayersDistinct, LayersAreAgents DEF EarlierAgents, AgentLayers

\* A barrier moves its layer's agents to the earlier ones of the next layer.
LEMMA NextLayer ==
  ASSUME NEW S \in AgentLayers
  PROVE  \/ /\ S # Layer6
            /\ Following(S) \in AgentLayers
            /\ EarlierAgents(Following(S)) = EarlierAgents(S) \cup S
         \/ /\ S = Layer6
            /\ Following(S) = {}
  <1>1. CASE S = Layer2
    BY <1>1, LayerEdges, EarlierOf, LayersDistinct DEF AgentLayers
  <1>2. CASE S = Layer3
    BY <1>2, LayerEdges, EarlierOf, LayersDistinct DEF AgentLayers
  <1>3. CASE S = Layer4
    BY <1>3, LayerEdges, EarlierOf, LayersDistinct DEF AgentLayers
  <1>4. CASE S = Layer5
    BY <1>4, LayerEdges, EarlierOf, LayersDistinct DEF AgentLayers
  <1>5. CASE S = Layer6
    BY <1>5, LayerEdges
  <1>6. QED
    BY <1>1, <1>2, <1>3, <1>4, <1>5 DEF AgentLayers

-----------------------------------------------------------------------------
(***************************************************************************)
(* The inductive invariant.  FinalCompileComplete says nothing of a run    *)
(* that has not ended; UpToDate carries what the earlier layers of this    *)
(* route version have written up to the barrier that ends it.              *)
(***************************************************************************)

Compiler == "itinerary_compiler"

Scheduled ==
  /\ tasks \in Supersteps
  /\ phase \in {"idle", "finished"} => tasks = {}
  /\ phase \in {"running", "paused", "failed"} => tasks # {}

RouteMatches ==
  /\ NoSupplyWithoutRoute
  /\ tasks = {"discovery_failed_end"} => route = "discovery_failed"

UpToDate ==
  \A n \in EarlierAgents(tasks) \ {Compiler} :
    \A f \in Contract[n].reports : tag[f] = version

LayerInv == Scheduled /\ RouteMatches /\ UpToDate /\ FinalCompileComplete

\* Every report the last compile must see is written by an earlier agent.
LEMMA RequiredAreWritten ==
  \A f \in Required :
    \E n \in EarlierAgents(Layer6) \ {Compiler} : f \in Contract[n].reports
  <1> DEFINE W(f, n) == n \in EarlierAgents(Layer6) \ {Compiler} /\ f \in Contract[n].reports
  <1>1. \A n \in Agents \ {Compiler} : n \in EarlierAgents(Layer6)
    BY EarlierOf DEF Agents, Compiler, Layer2, Entry, Layer3, Layer4, Layer5
  <1>2. /\ W("visa_report", "visa")
        /\ W("self_drive_report", "self_drive_search")
        /\ W("budget_report", "budget_planner")
        /\ W("safety_report", "safety")
        /\ W("reviews_summary", "reviews")
        /\ W("transport_recommendation", "transport_optimizer")
        /\ Multi => W("transport_recommendation_by_leg", "transport_optimizer")
    BY <1>1 DEF Contract, Agent, Visa, SelfDriveSearch, BudgetPlanner, Safety,
       Reviews, TransportOptimizer, Agents, Compiler
  <1>3. /\ W(Shaped("stays_shortlist", "stays_shortlist_by_stop"), "stay_analyst")
        /\ W(Shaped("experiences_raw", "experiences_raw_by_stop"), "local_experiences")
        /\ W(Shaped("food_recommendations", "food_recommendations_by_stop"),
             "food_discovery")
    BY <1>1 DEF Contract, Agent, StayAnalyst, LocalExperiences, FoodDiscovery,
       Shaped, Agents, Compiler
  <1>4. QED
    BY <1>2, <1>3 DEF Required

\* A step that schedules a control node, or nothing, leaves no layer behind.
LEMMA ControlAdvance ==
  ASSUME NEW next \in ControlSteps \cup {{}}, Advance(next)
  PROVE  /\ tasks' \in Supersteps
         /\ EarlierAgents(tasks') = {}
         /\ tasks' \cap Agents = {}
         /\ next = {} => phase' = "finished"
         /\ next # {} => phase' = "running"
  <1>1. EarlierAgents(next) = {} /\ next \cap Agents = {}
    <2>1. CASE next = {}
      BY <2>1, EarlierOf
    <2>2. ASSUME NEW n \in Control, next = {n}
          PROVE  EarlierAgents(next) = {} /\ next \cap Agents = {}
      BY <2>2, EarlierOf, LayersAreAgents
    <2>3. QED
      BY <2>1, <2>2 DEF ControlSteps
  <1>2. QED
    BY <1>1 DEF Advance, Supersteps

LEMMA LayerInit == Init => LayerInv
  BY EarlierOf DEF Init, LayerInv, Scheduled, Supersteps, RouteMatches,
     NoSupplyWithoutRoute, UpToDate, FinalCompileComplete

\* Steps that keep the superstep and everything in TripState.
LEMMA LayerStutter ==
  ASSUME LayerInv, UNCHANGED <<tasks, trip>>,
         phase' \in {"idle", "finished"} => phase' = phase,
         phase' \in {"running", "paused", "failed"} => tasks # {}
  PROVE  LayerInv'
  <1>1. Scheduled' /\ RouteMatches'
    BY DEF LayerInv, Scheduled, RouteMatches, NoSupplyWithoutRoute, trip
  <1>2. UpToDate'
    <2>1. EarlierAgents(tasks) \subseteq Agents
      BY EarlierOf, LayersAreAgents
         DEF LayerInv, Scheduled, Supersteps, ControlSteps, AgentLayers
    <2>2. QED
      BY <2>1, ReportsStable DEF LayerInv, UpToDate, trip
  <1>3. FinalCompileComplete'
    BY DEF LayerInv, FinalCompileComplete, trip, Required, Shaped, Multi
  <1>4. QED
    BY <1>1, <1>2, <1>3 DEF LayerInv

LEMMA LayerStep ==
  ASSUME TypeOK, LayerInv, [Next]_vars
  PROVE  LayerInv'
  <1>1. CASE StartAtOrchestrator
    <2>1. tasks' = {"orchestrator"} /\ phase' = "running" /\ UNCHANGED trip
      BY <1>1 DEF StartAtOrchestrator
    <2>2. tasks' \in Supersteps /\ EarlierAgents(tasks') = {} /\ tasks' \cap Agents = {}
      BY <2>1, EarlierOf, LayersAreAgents DEF Supersteps, ControlSteps, Control
    <2>3. QED
      BY <2>1, <2>2 DEF LayerInv, Scheduled, RouteMatches, NoSupplyWithoutRoute,
         UpToDate, FinalCompileComplete
  <1>2. CASE Answer \/ AskFields \/ AskRoute \/ AskFood \/ Fail
              \/ (\E n \in Agents : FinishAgent(n)) \/ UNCHANGED vars
    <2>1. UNCHANGED <<tasks, trip>>
      BY <1>2 DEF Answer, AskFields, AskRoute, AskFood, Ask, Fail, FinishAgent,
         vars, thread
    <2>2. /\ phase' \in {"idle", "finished"} => phase' = phase
          /\ phase' \in {"running", "paused", "failed"} => tasks # {}
      BY <1>2 DEF Answer, AskFields, AskRoute, AskFood, Ask, Fail, FinishAgent,
         RunsAlone, RunsAgents, vars, thread, LayerInv, Scheduled
    <2>3. QED
      BY <2>1, <2>2, LayerStutter
  <1>3. CASE ReviseDestination \/ (\E used \in 0..MaxRounds, isParsed \in BOOLEAN :
                                      Orchestrate(used, isParsed))
    <2> DEFINE next == {"stops_discovery"}
    <2>1. next \in ControlSteps \cup {{}} /\ next # {}
      BY DEF ControlSteps, Control
    <2>2. Advance(next)
      BY <1>3 DEF ReviseDestination, Orchestrate
    <2>3. tasks' = next
      BY <2>2 DEF Advance
    <2>4. QED
      BY <2>1, <2>2, <2>3, ControlAdvance
         DEF LayerInv, Scheduled, RouteMatches, NoSupplyWithoutRoute, UpToDate,
             FinalCompileComplete
  <1>4. ASSUME NEW status \in Statuses, Discover(status)
        PROVE  LayerInv'
    <2> DEFINE next == RouteAfterDiscovery(status, round)
    <2>1. Advance(next) /\ tasks' = next /\ route' = status
      BY <1>4 DEF Discover, Advance
    <2>2. CASE status = "discovery_failed"
      <3>1. next \in ControlSteps \cup {{}} /\ next # {}
        BY <2>2 DEF RouteAfterDiscovery, ControlSteps, Control
      <3> HIDE DEF next
      <3>2. QED
        BY <2>1, <2>2, <3>1, ControlAdvance
           DEF LayerInv, Scheduled, RouteMatches, NoSupplyWithoutRoute, UpToDate,
               FinalCompileComplete
    <2>3. CASE status # "discovery_failed"
      <3>1. tasks' = Layer2 /\ phase' = "running"
        BY <2>1, <2>3 DEF RouteAfterDiscovery, Layer2, Advance, Entry
      <3>2. tasks' # {"discovery_failed_end"} /\ tasks' # {} /\ tasks' \in Supersteps
        BY <3>1, LayersAreAgents DEF AgentLayers, Supersteps, Control
      <3>3. QED
        BY <2>1, <2>3, <3>1, <3>2, EarlierOf
           DEF LayerInv, Scheduled, RouteMatches, NoSupplyWithoutRoute, UpToDate,
               FinalCompileComplete
    <2>4. QED
      BY <2>2, <2>3
  <1>5. CASE HardStop
    <2>1. Advance({}) /\ tasks' = {} /\ route' = route /\ route = "discovery_failed"
      BY <1>5 DEF HardStop, Advance, LayerInv, RouteMatches, RunsAlone
    <2>2. QED
      BY <2>1, ControlAdvance
         DEF LayerInv, Scheduled, RouteMatches, NoSupplyWithoutRoute, UpToDate,
             FinalCompileComplete
  <1>6. CASE Barrier
    <2> DEFINE Old == EarlierAgents(tasks)
    <2>1. tasks \in AgentLayers
      BY <1>6, LayersAreAgents DEF Barrier, RunsAgents, LayerInv, Scheduled, Supersteps,
         ControlSteps
    <2>2. tasks' = Following(tasks)
      BY <1>6 DEF Barrier, Advance, Following
    <2>3. UNCHANGED <<route, version, dated>> /\ route # "discovery_failed"
      BY <1>6 DEF Barrier, RunsAgents, LayerInv, RouteMatches, NoSupplyWithoutRoute
    <2>4. \A n \in Agents : Contract'[n].reports = Contract[n].reports
      BY <2>3, ReportsStable
    <2>5. \A n \in Old \ {Compiler} : \A f \in Contract[n].reports : tag[f] = version
      BY DEF LayerInv, UpToDate
    <2>6. Old \subseteq Agents
      BY <2>1, EarlierOf, LayersAreAgents DEF AgentLayers
    <2>7. \A n \in (Old \cup tasks) \ {Compiler} :
            \A f \in Contract[n].reports : tag'[f] = version
      <3> SUFFICES ASSUME NEW n \in (Old \cup tasks) \ {Compiler},
                          NEW f \in Contract[n].reports
                   PROVE  tag'[f] = version
        OBVIOUS
      <3>1. f \in Reports
        BY <1>6, <2>6, WritesAreReports DEF Barrier, RunsAgents
      <3>2. tag'[f] = IF f \in WrittenBy(tasks) THEN version ELSE tag[f]
        BY <1>6, <3>1 DEF Barrier
      <3>3. n \in tasks => f \in WrittenBy(tasks)
        BY DEF WrittenBy
      <3>4. n \in Old => tag[f] = version
        BY <2>5
      <3>5. QED
        BY <3>2, <3>3, <3>4
    <2>8. CASE tasks # Layer6
      <3>1. tasks' \in AgentLayers /\ EarlierAgents(tasks') = Old \cup tasks
        BY <2>1, <2>2, <2>8, NextLayer
      <3>2. tasks' # {} /\ phase' = "running" /\ tasks' \in Supersteps
            /\ tasks' # {"discovery_failed_end"}
        BY <1>6, <3>1, LayersAreAgents DEF Barrier, Advance, Supersteps, Control
      <3>3. EarlierAgents(tasks') \subseteq Agents
        BY <3>1, <2>6, <1>6 DEF Barrier, RunsAgents
      <3>4. UpToDate'
        BY <3>1, <3>3, <2>7, <2>4, <2>3 DEF UpToDate
      <3>5. QED
        BY <3>2, <3>4, <2>3 DEF LayerInv, Scheduled, RouteMatches, NoSupplyWithoutRoute,
           FinalCompileComplete
    <2>9. CASE tasks = Layer6
      <3>1. tasks' = {} /\ EarlierAgents(tasks') = {} /\ phase' = "finished"
            /\ delivered' = tag'["itinerary"]
        BY <1>6, <2>2, <2>9, LayerEdges, EarlierOf DEF Barrier, Advance, Following
      <3>2. dated => WrittenBy(tasks) = {"itinerary"}
        BY <2>9 DEF WrittenBy, Layer6, Contract, Agent, ItineraryCompiler
      <3>3. dated => delivered' = version /\ seen' = tag
        BY <1>6, <3>1, <3>2 DEF Barrier, Reports
      <3>4. \A f \in Required : tag[f] = version
        BY <2>5, <2>9, RequiredAreWritten
      <3>5. Required' = Required
        BY <2>3 DEF Required, Shaped, Multi
      <3>6. FinalCompileComplete'
        BY <3>3, <3>4, <3>5, <2>3 DEF FinalCompileComplete
      <3>7. QED
        BY <3>1, <3>6 DEF LayerInv, Scheduled, RouteMatches, NoSupplyWithoutRoute, UpToDate,
           Supersteps
    <2>10. QED
      BY <2>8, <2>9
  <1>7. QED
    BY <1>1, <1>2, <1>3, <1>4, <1>5, <1>6
       DEF Next, User, NewPrompt, FollowUp, ControlStep, AgentStep

\* A discovery_failed route never reaches the supply search: in no reachable
\* state is an agent scheduled while the state's route is a failed one.
THEOREM NoSupplyHolds == Spec => []NoSupplyWithoutRoute
  <1>1. LayerInv => NoSupplyWithoutRoute
    BY DEF LayerInv, RouteMatches
  <1>2. QED
    BY <1>1, LayerInit, LayerStep, TypeCorrect, PTL DEF Spec

\* A run that ends on a usable route delivers an itinerary compiled from every
\* report of that route version, on any prompt of the session.
THEOREM FinalCompileHolds == Spec => []FinalCompileComplete
  <1>1. LayerInv => FinalCompileComplete
    BY DEF LayerInv
  <1>2. QED
    BY <1>1, LayerInit, LayerStep, TypeCorrect, PTL DEF Spec

-----------------------------------------------------------------------------
(***************************************************************************)
(* No two nodes of a superstep write the same last-write-wins channel.     *)
(***************************************************************************)

AllWrites(n) == Contract[n].reports \cup Contract[n].other

\* Every pair of agents with a common channel is never in one layer.
LEMMA LayersWriteApart ==
  \A S \in AgentLayers : \A m, n \in S :
    m # n => (AllWrites(m) \cap AllWrites(n)) \ Merged = {}
  <1>1. \A m, n \in Layer2 : m # n => AllWrites(m) \cap AllWrites(n) = {}
    BY DEF AllWrites, Contract, Agent, Visa, TransportSearch,
       StaySearch, LocalExperiences, Shaped, Layer2, Entry
  <1>2. \A m, n \in Layer3 : m # n => AllWrites(m) \cap AllWrites(n) = {}
    BY DEF AllWrites, Contract, Agent, TransportOptimizer,
       SelfDriveSearch, StayAnalyst, Reviews, FoodClarification, Shaped, Layer3
  <1>3. \A m, n \in Layer4 : m # n => AllWrites(m) \cap AllWrites(n) = {}
    BY DEF AllWrites, Contract, Agent, BudgetPlanner, Reviews,
       ItineraryCompiler, FoodDiscovery, Shaped, Layer4
  <1>4. \A m, n \in Layer5 \cup Layer6 : m # n => AllWrites(m) \cap AllWrites(n) = {}
    BY DEF AllWrites, Contract, Agent, ItineraryCompiler, Safety,
       Layer5, Layer6
  <1>5. QED
    BY <1>1, <1>2, <1>3, <1>4 DEF AgentLayers

\* No superstep of the graph is rejected for concurrent writes.
THEOREM NoConcurrentWritersHolds == Spec => []NoConcurrentWriters
  <1>1. LayerInv => NoConcurrentWriters
    <2> SUFFICES ASSUME LayerInv, NEW m \in tasks \cap Agents, NEW n \in tasks \cap Agents,
                        m # n
                 PROVE  (AllWrites(m) \cap AllWrites(n)) \ Merged = {}
      BY DEF NoConcurrentWriters, AllWrites
    <2>1. tasks \in AgentLayers
      BY LayersAreAgents DEF LayerInv, Scheduled, Supersteps, ControlSteps
    <2>2. QED
      BY <2>1, LayersWriteApart
  <1>2. QED
    BY <1>1, LayerInit, LayerStep, TypeCorrect, PTL DEF Spec

-----------------------------------------------------------------------------
(***************************************************************************)
(* Agents whose predecessors share a depth run once per prompt.            *)
(***************************************************************************)

Once == Agents \ {"reviews", "itinerary_compiler"}

FiringInv ==
  \A n \in Once :
    /\ fired[n] <= 1
    /\ tasks # {} /\ n \notin EarlierAgents(tasks) => fired[n] = 0

LEMMA OnceIsNotRepeated ==
  \A S \in AgentLayers : \A n \in S \cap Once : n \notin EarlierAgents(S)
  <1>1. Layer3 \cap Layer2 = {} /\ Layer4 \cap (Layer2 \cup Layer3) \cap Once = {}
    BY DEF Layer2, Entry, Layer3, Layer4, Once
  <1>2. Layer5 \cap (Layer2 \cup Layer3 \cup Layer4) \cap Once = {}
    BY DEF Layer2, Entry, Layer3, Layer4, Layer5, Once
  <1>3. Layer6 \cap Once = {}
    BY DEF Layer6, Once
  <1>4. QED
    BY <1>1, <1>2, <1>3, EarlierOf DEF AgentLayers

LEMMA FiringStep ==
  ASSUME TypeOK, LayerInv, FiringInv, [Next]_vars
  PROVE  FiringInv'
  <1> USE DEF FiringInv
  <1>1. Once \subseteq Nodes /\ Once \subseteq Agents
    BY DEF Once, Nodes
  <1>2. CASE StartAtOrchestrator
    BY <1>1, <1>2 DEF StartAtOrchestrator
  <1>3. CASE UNCHANGED <<tasks, fired>>
    BY <1>3
  <1>4. CASE ControlStep /\ ~ UNCHANGED <<tasks, fired>>
    <2>1. PICK c \in Control, next \in SUBSET Nodes : tasks = {c} /\ Advance(next)
      <3>1. /\ "orchestrator" \in Control /\ "stops_discovery" \in Control
            /\ "route_clarification" \in Control /\ "discovery_failed_end" \in Control
            /\ {"stops_discovery"} \in SUBSET Nodes /\ {} \in SUBSET Nodes
        BY DEF Control, Nodes
      <3>2. \A status \in Statuses : RouteAfterDiscovery(status, round) \in SUBSET Nodes
        BY DEF RouteAfterDiscovery, Entry, Nodes, Control, Agents
      <3>3. QED
        BY <1>4, <3>1, <3>2 DEF ControlStep, AskFields, AskRoute, Ask, Orchestrate, Discover,
           ReviseDestination, HardStop, RunsAlone
    <2>2. \A n \in Once : fired'[n] = 0
      BY <1>1, <2>1, EarlierOf, LayersAreAgents DEF Advance
    <2>3. QED
      BY <2>2
  <1>5. CASE Barrier
    <2>1. tasks \in AgentLayers
      BY <1>5, LayersAreAgents DEF Barrier, RunsAgents, LayerInv, Scheduled, Supersteps,
         ControlSteps
    <2>2. tasks' = Following(tasks)
          /\ fired' = [n \in Nodes |-> IF n \in tasks THEN fired[n] + 1 ELSE fired[n]]
      BY <1>5 DEF Barrier, Advance, Following
    <2>3. tasks' # {} => EarlierAgents(tasks') = EarlierAgents(tasks) \cup tasks
      BY <2>1, <2>2, NextLayer
    <2>4. QED
      BY <1>1, <2>1, <2>2, <2>3, OnceIsNotRepeated, LayersAreAgents DEF TypeOK
  <1>6. QED
    BY <1>2, <1>3, <1>4, <1>5 DEF Next, User, NewPrompt, FollowUp, Answer, AgentStep, AskFood,
       Ask, FinishAgent, Fail, vars, thread

\* Apart from reviews and the compiler, every agent's writes are applied at
\* most once per prompt, however often the user is asked.
THEOREM SingleFiringHolds == Spec => []SingleFiring
  <1>1. Init => FiringInv
    BY DEF Init, FiringInv, Once, Nodes
  <1>2. FiringInv => SingleFiring
    BY DEF FiringInv, SingleFiring, Once
  <1>3. QED
    BY <1>1, <1>2, LayerInit, LayerStep, FiringStep, TypeCorrect, PTL DEF Spec

-----------------------------------------------------------------------------
(***************************************************************************)
(* Clarification rounds.                                                   *)
(***************************************************************************)

Budget(p) == p * MaxRounds

FoodRound == IF foodKnown THEN 1 ELSE 0

\* RoundsBounded leaves no room for the orchestrator's own rounds; before it
\* has run, the channel still holds only what the earlier prompts added.
RoundInv ==
  /\ round <= Budget(prompt) + FoodRound
  /\ tasks # {} => prompt >= 1
  /\ tasks = {"orchestrator"} =>
       /\ round <= Budget(prompt - 1) + FoodRound
       /\ answers <= MaxRounds
       /\ phase = "paused" => answers < MaxRounds
  /\ tasks = {"route_clarification"} => round < MaxRounds

LEMMA BudgetGrows ==
  ASSUME NEW p \in Nat
  PROVE  /\ Budget(p) \in Nat
         /\ Budget(p + 1) = Budget(p) + MaxRounds
         /\ p >= 1 => Budget(p) >= MaxRounds /\ Budget(p) = Budget(p - 1) + MaxRounds
  BY MaxRoundsAssumption DEF Budget

LEMMA RoundStep ==
  ASSUME TypeOK, LayerInv, RoundInv, [Next]_vars
  PROVE  RoundInv'
  <1> USE DEF FoodRound
  <1>1. CASE StartAtOrchestrator
    <2>1. prompt' = prompt + 1 /\ tasks' = {"orchestrator"} /\ answers' = 0
          /\ phase' = "running" /\ UNCHANGED <<round, foodKnown>>
      BY <1>1 DEF StartAtOrchestrator, trip
    <2>2. Budget(prompt') = Budget(prompt) + MaxRounds /\ Budget(prompt) \in Nat
          /\ Budget(prompt' - 1) = Budget(prompt)
      BY <2>1, BudgetGrows DEF TypeOK
    <2>3. QED
      BY <2>1, <2>2, MaxRoundsAssumption DEF RoundInv, TypeOK
  <1>2. CASE Answer
    <2>1. phase = "paused" /\ phase' = "running" /\ answers' = answers + 1
          /\ UNCHANGED <<prompt, tasks, round, foodKnown>>
      BY <1>2 DEF Answer, trip
    <2>2. QED
      BY <2>1, MaxRoundsAssumption DEF RoundInv, TypeOK
  <1>3. CASE AskFields \/ AskRoute \/ AskFood
    <2>1. tasks = {"orchestrator"} => answers < MaxRounds
      BY <1>3 DEF AskFields, AskRoute, AskFood, RunsAlone, RunsAgents, Agents
    <2>2. UNCHANGED <<prompt, tasks, answers, round, foodKnown>>
      BY <1>3 DEF AskFields, AskRoute, AskFood, Ask, trip
    <2>3. QED
      BY <2>1, <2>2 DEF RoundInv
  <1>4. ASSUME NEW used \in 0..MaxRounds, NEW isParsed \in BOOLEAN,
               Orchestrate(used, isParsed)
        PROVE  RoundInv'
    <2>1. tasks = {"orchestrator"} /\ tasks' = {"stops_discovery"} /\ round' = round + used
          /\ UNCHANGED <<prompt, foodKnown>>
      BY <1>4 DEF Orchestrate, Advance, RunsAlone
    <2>2. Budget(prompt) = Budget(prompt - 1) + MaxRounds /\ prompt >= 1
          /\ round <= Budget(prompt - 1) + FoodRound /\ Budget(prompt - 1) \in Nat
      BY <2>1, BudgetGrows DEF RoundInv, TypeOK
    <2>3. round' <= Budget(prompt') + FoodRound'
      BY <2>1, <2>2, MaxRoundsAssumption DEF TypeOK
    <2>4. tasks' # {"orchestrator"} /\ tasks' # {"route_clarification"}
      BY <2>1
    <2>5. QED
      BY <2>1, <2>2, <2>3, <2>4 DEF RoundInv
  <1>5. ASSUME NEW status \in Statuses, Discover(status)
        PROVE  RoundInv'
    <2>1. tasks' = RouteAfterDiscovery(status, round) /\ tasks # {}
          /\ UNCHANGED <<prompt, round, foodKnown>>
      BY <1>5 DEF Discover, Advance, RunsAlone
    <2>2. "orchestrator" \notin tasks'
      BY <2>1 DEF RouteAfterDiscovery, Entry
    <2>3. "route_clarification" \in tasks' => round < MaxRounds
      BY <2>1, MaxRoundsAssumption DEF RouteAfterDiscovery, Entry, TypeOK
    <2>4. QED
      BY <2>1, <2>2, <2>3 DEF RoundInv
  <1>6. CASE ReviseDestination
    <2>1. tasks = {"route_clarification"} /\ tasks' = {"stops_discovery"} /\ round' = round + 1
          /\ UNCHANGED <<prompt, foodKnown>>
      BY <1>6 DEF ReviseDestination, Advance, RunsAlone
    <2>2. round < MaxRounds /\ prompt >= 1 /\ Budget(prompt) >= MaxRounds
          /\ Budget(prompt) \in Nat
      BY <2>1, BudgetGrows DEF RoundInv, TypeOK
    <2>3. round' <= Budget(prompt') + FoodRound'
      BY <2>1, <2>2, MaxRoundsAssumption DEF TypeOK
    <2>4. tasks' # {"orchestrator"} /\ tasks' # {"route_clarification"}
      BY <2>1
    <2>5. QED
      BY <2>1, <2>2, <2>3, <2>4 DEF RoundInv
  <1>7. CASE HardStop
    BY <1>7 DEF HardStop, Advance, RoundInv
  <1>8. CASE (\E n \in Agents : FinishAgent(n)) \/ Fail \/ UNCHANGED vars
    BY <1>8 DEF FinishAgent, Fail, RoundInv, vars, thread, trip
  <1>9. CASE Barrier
    <2>1. tasks \in AgentLayers
      BY <1>9, LayersAreAgents DEF Barrier, RunsAgents, LayerInv, Scheduled, Supersteps,
         ControlSteps
    <2>2. tasks' = Following(tasks) /\ prompt' = prompt
      BY <1>9 DEF Barrier, Advance, Following
    <2>3. tasks' \subseteq Agents
      BY <2>1, <2>2, NextLayer, LayersAreAgents
    <2>4. tasks' # {"orchestrator"} /\ tasks' # {"route_clarification"}
      BY <2>3 DEF Agents
    <2>5. tasks # {}
      BY <2>1, LayersAreAgents
    <2>6. round' + FoodRound = round + FoodRound'
      BY <1>9 DEF Barrier, TypeOK
    <2>7. round' <= Budget(prompt') + FoodRound'
      BY <2>2, <2>6, <1>9, BudgetGrows DEF RoundInv, TypeOK, Barrier
    <2>8. QED
      BY <2>2, <2>4, <2>5, <2>7 DEF RoundInv
  <1>10. QED
    BY <1>1, <1>2, <1>3, <1>4, <1>5, <1>6, <1>7, <1>8, <1>9
       DEF Next, User, NewPrompt, FollowUp, ControlStep, AgentStep

\* clarification_round never exceeds MaxRounds per prompt and one for food.
THEOREM RoundsBoundedHolds == Spec => []RoundsBounded
  <1>1. Init => RoundInv
    BY MaxRoundsAssumption DEF Init, RoundInv, FoodRound, Budget
  <1>2. RoundInv => RoundsBounded
    BY DEF RoundInv, RoundsBounded, Budget, FoodRound
  <1>3. QED
    BY <1>1, <1>2, LayerInit, LayerStep, RoundStep, TypeCorrect, PTL DEF Spec

-----------------------------------------------------------------------------
(***************************************************************************)
(* The first prompt of a session.  It starts with no report, and until the *)
(* agents run nothing writes one, so however often the route is discovered *)
(* again there is only one version a report can be of (OneVersion).        *)
(***************************************************************************)

Unwritten == \A f \in Reports : tag[f] = 0

OneVersion ==
  /\ tainted = {}
  /\ \A f \in Reports : tag[f] \in {0, version}
  /\ tasks \cap Agents = {} /\ phase # "finished" => Unwritten

FirstInv ==
  /\ prompt = 0 => phase = "idle"
  /\ phase = "idle" => tasks = {}
  /\ prompt <= 1 => OneVersion

\* Agents read report channels only.
LEMMA ReadsAreReports ==
  \A n \in Agents : Contract[n].reads \subseteq Reports
  <1>1. \A byPart, plain \in Reports :
          Shaped(plain, byPart) \in Reports /\ FirstPresent(byPart, plain) \in Reports
    BY DEF Shaped, FirstPresent
  <1>2. /\ Visa.reads \subseteq Reports
        /\ TransportSearch.reads \subseteq Reports
        /\ StaySearch.reads \subseteq Reports
        /\ LocalExperiences.reads \subseteq Reports
        /\ SelfDriveSearch.reads \subseteq Reports
        /\ FoodClarification.reads \subseteq Reports
    BY DEF Agent, Visa, TransportSearch, StaySearch, LocalExperiences, SelfDriveSearch,
       FoodClarification
  <1>3. /\ TransportOptimizer.reads \subseteq Reports
        /\ StayAnalyst.reads \subseteq Reports
        /\ Reviews.reads \subseteq Reports
        /\ FoodDiscovery.reads \subseteq Reports
        /\ Safety.reads \subseteq Reports
    BY DEF Agent, TransportOptimizer, StayAnalyst, Reviews, FoodDiscovery, Safety, Reports, Shaped
  <1>4. BudgetPlanner.reads \subseteq Reports
    BY <1>1 DEF Agent, BudgetPlanner, Reports
  <1>5. ItineraryCompiler.reads \subseteq Reports
    <2>1. ItineraryCompiler.reads =
            {"visa_report", "self_drive_report", "budget_report", "safety_report",
             "reviews_summary", "transport_recommendation",
             "transport_recommendation_by_leg", "stays_shortlist",
             FirstPresent("food_recommendations_by_stop", "food_recommendations"),
             FirstPresent("experiences_raw_by_stop", "experiences_raw")}
              \cup (IF Multi THEN {"stays_shortlist_by_stop"} ELSE {"stays_raw"})
      BY DEF Agent, ItineraryCompiler
    <2>2. /\ FirstPresent("food_recommendations_by_stop", "food_recommendations") \in Reports
          /\ FirstPresent("experiences_raw_by_stop", "experiences_raw") \in Reports
      BY <1>1 DEF Reports
    <2>3. {"visa_report", "self_drive_report", "budget_report", "safety_report",
           "reviews_summary", "transport_recommendation",
           "transport_recommendation_by_leg", "stays_shortlist"} \subseteq Reports
      BY DEF Reports
    <2>4. (IF Multi THEN {"stays_shortlist_by_stop"} ELSE {"stays_raw"}) \subseteq Reports
      BY DEF Reports
    <2>5. QED
      BY <2>1, <2>2, <2>3, <2>4
  <1>6. QED
    BY <1>2, <1>3, <1>4, <1>5 DEF Contract, Agents

\* With reports of one version only, no agent combines two.
LEMMA NothingToMix ==
  ASSUME OneVersion, NEW n \in Agents
  PROVE  ~Mixes(n)
  BY ReadsAreReports, WritesAreReports DEF OneVersion, Mixes, Stale

LEMMA FirstStep ==
  ASSUME TypeOK, FirstInv, [Next]_vars
  PROVE  FirstInv'
  <1>1. CASE StartAtOrchestrator /\ phase = "idle"
    BY <1>1 DEF StartAtOrchestrator, trip, FirstInv, OneVersion, Unwritten, TypeOK
  <1>2. CASE StartAtOrchestrator /\ phase # "idle"
    BY <1>2 DEF StartAtOrchestrator, FirstInv, TypeOK
  <1>3. CASE Answer \/ AskFields \/ AskRoute \/ AskFood \/ Fail
    <2>1. /\ phase \notin {"idle", "finished"}
          /\ phase' \notin {"idle", "finished"}
          /\ UNCHANGED <<prompt, tasks, version, tag, tainted>>
      BY <1>3 DEF Answer, AskFields, AskRoute, AskFood, Ask, Fail, RunsAlone, RunsAgents, trip
    <2>2. QED
      BY <2>1 DEF FirstInv, OneVersion, Unwritten
  <1>4. ASSUME NEW n \in Control, RunsAlone(n), NEW next \in SUBSET Nodes, Advance(next),
               UNCHANGED <<tag, tainted>>
        PROVE  FirstInv'
    <2>1. phase = "running" /\ tasks \cap Agents = {}
      BY <1>4, LayersAreAgents DEF RunsAlone
    <2>2. prompt' = prompt /\ phase' # "idle"
      BY <1>4 DEF Advance
    <2>3. prompt <= 1 => tainted = {} /\ Unwritten
      BY <2>1 DEF FirstInv, OneVersion
    <2>4. QED
      BY <1>4, <2>1, <2>2, <2>3 DEF FirstInv, OneVersion, Unwritten
  <1>5. ASSUME NEW used \in 0..MaxRounds, NEW isParsed \in BOOLEAN,
               Orchestrate(used, isParsed)
        PROVE  FirstInv'
    BY <1>4, <1>5 DEF Orchestrate, Control, Nodes
  <1>6. ASSUME NEW status \in Statuses, Discover(status)
        PROVE  FirstInv'
    <2> DEFINE next == RouteAfterDiscovery(status, round)
    <2>1. next \in SUBSET Nodes
      BY DEF RouteAfterDiscovery, Entry, Nodes, Control, Agents
    <2>2. Advance(next) /\ RunsAlone("stops_discovery") /\ UNCHANGED <<tag, tainted>>
      BY <1>6 DEF Discover
    <2> HIDE DEF next
    <2>3. QED
      BY <1>4, <2>1, <2>2 DEF Control
  <1>7. CASE ReviseDestination \/ HardStop
    BY <1>4, <1>7 DEF ReviseDestination, HardStop, Control, Nodes
  <1>8. ASSUME NEW n \in Agents, FinishAgent(n)
        PROVE  FirstInv'
    BY <1>8 DEF FinishAgent, trip, FirstInv, OneVersion, Unwritten
  <1>9. CASE Barrier
    <2>1. /\ phase = "running" /\ tasks \subseteq Agents
          /\ tag' = [f \in Reports |-> IF f \in WrittenBy(tasks) THEN version ELSE tag[f]]
          /\ tainted' = (tainted \ WrittenBy(tasks)) \cup WrittenBy({n \in tasks : Mixes(n)})
          /\ version' = version
      BY <1>9 DEF Barrier, RunsAgents
    <2>2. /\ prompt' = prompt
          /\ tasks' = Following(tasks)
          /\ tasks' = {} => phase' = "finished"
          /\ phase' # "idle"
      BY <1>9 DEF Barrier, Advance, Following
    <2>3. tasks' \subseteq Agents
      BY <2>1, <2>2, AgentEdges DEF Following
    <2>4. ASSUME prompt <= 1
          PROVE  OneVersion'
      <3>1. OneVersion
        BY <2>4 DEF FirstInv
      <3>2. {n \in tasks : Mixes(n)} = {}
        BY <2>1, <3>1, NothingToMix
      <3>3. tainted' = {}
        BY <2>1, <3>1, <3>2 DEF OneVersion, WrittenBy
      <3>4. \A f \in Reports : tag'[f] \in {0, version'}
        BY <2>1, <3>1 DEF OneVersion
      <3>5. QED
        BY <2>2, <2>3, <3>3, <3>4 DEF OneVersion
    <2>5. prompt # 0
      BY <2>1 DEF FirstInv
    <2>6. QED
      BY <2>2, <2>4, <2>5 DEF FirstInv
  <1>10. CASE UNCHANGED vars
    BY <1>10 DEF vars, thread, trip, FirstInv, OneVersion, Unwritten
  <1>11. QED
    BY <1>1, <1>2, <1>3, <1>5, <1>6, <1>7, <1>8, <1>9, <1>10
       DEF Next, User, NewPrompt, FollowUp, ControlStep, AgentStep

\* The itinerary that a session's first prompt ends with is compiled from one
\* route version, whatever was asked, revised and discovered again on the way.
THEOREM FirstNeverMixesHolds == Spec => []FirstNeverMixes
  <1>1. Init => FirstInv
    BY DEF Init, FirstInv, OneVersion, Unwritten
  <1>2. FirstInv => FirstNeverMixes
    BY DEF FirstInv, OneVersion, FirstNeverMixes, NeverMixVersions
  <1>3. QED
    BY <1>1, <1>2, FirstStep, TypeCorrect, PTL DEF Spec
=============================================================================
