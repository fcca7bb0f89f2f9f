---------------------------- MODULE RouteShaping ----------------------------
(***************************************************************************)
(* Layer 1 (agents/stops_discovery_agent.py): the model proposes overnight *)
(* stops and gateways in prose; _shape_route turns that into stop          *)
(* occurrences, one allocation per day and dated legs.                     *)
(*                                                                         *)
(* A place is its slug (_slugify), and a day its index: its date is the    *)
(* departure plus the index.  A leg is named by its two ends, which are    *)
(* different for any two legs of a route.                                  *)
(***************************************************************************)
EXTENDS Naturals, Sequences, FiniteSets, Functions, SequencesExt

CONSTANTS
  Places,             \* places the model may name
  CountryOf,          \* the country it gives for each, or NoCountry
  NoCountry,          \* null
  Hints,              \* nights it may suggest for a stop
  MaxStops,           \* bound of the model: stops in a proposal
  MaxGateways,        \* bound of the model: gateways in a proposal
  MaxDays,            \* bound of the model: days of a trip
  MaxGatewayOptions   \* settings.max_gateway_options

ASSUME BoundsAssumption ==
  /\ MaxStops \in Nat \ {0} /\ MaxDays \in Nat \ {0} /\ MaxGateways \in Nat
  /\ MaxGatewayOptions \in Nat \ {0}
  /\ Hints \subseteq Nat
  /\ CountryOf \in [Places -> Range(CountryOf)]

VARIABLES
  days,      \* TripDates.trip_days, 0 while the destination or the dates are missing
  proposal,  \* history: what the model answered
  plan       \* the route in the trip's state

routeVars == <<days, proposal, plan>>

-----------------------------------------------------------------------------
Status == {"single_destination", "multi_stop_provisional"}

Stop == [place : Places, hint : Hints]

Gateway == [place : Places, recommended : BOOLEAN]

Proposal ==
  [status : Status, stops : SeqOf(Stop, MaxStops), gateways : SeqOf(Gateway, MaxGateways)]

\* The answer when the call raised, or before it.
NoProposal == [status |-> "none", stops |-> <<>>, gateways |-> <<>>]

AtLeastOne(n) == IF n = 0 THEN 1 ELSE n

Total(ns) == FoldFunction(LAMBDA m, n : m + n, 0, ns)

\* round(a / b): Python rounds halves to the even neighbour.
Round(a, b) ==
  LET up == (2 * a + b) \div (2 * b)
      half == (2 * a + b) % (2 * b) = 0
  IN  IF half /\ up % 2 = 1 THEN up - 1 ELSE up

\* The second loop of _force_total.  The first adds nights and is never entered:
\* the last stop has already taken whatever was missing.  Each round of the
\* stops takes at least one night, so this many steps stand for its 10,000.
ForceTotal(nights, total) ==
  LET n == Len(nights)
      Nudge(v, k) ==
        LET i == ((k - 1) % n) + 1
        IN  IF Total(v) > total /\ v[i] > 1 THEN [v EXCEPT ![i] = @ - 1] ELSE v
      steps == IF Total(nights) > total THEN n * (Total(nights) - total) ELSE 0
  IN  FoldLeft(Nudge, nights, [k \in 1..steps |-> k])

\* Each hint scaled to the trip; the last stop takes the rounding error.
Scaled(hints, total) ==
  LET nights == [i \in DOMAIN hints |-> AtLeastOne(Round(hints[i] * total, Total(hints)))]
      others == Total(nights) - nights[Len(nights)]
  IN  [nights EXCEPT ![Len(nights)] = IF total > others THEN total - others ELSE 1]

\* Mutant: the last stop takes the rounding error whatever it is.
NormalizeNights_NoForce(hints, total) == Scaled(hints, total)

NormalizeNights(hints, total) == ForceTotal(Scaled(hints, total), total)

\* _StopIdAllocator: one id per visit of a place.
StopIds(stops) ==
  [i \in DOMAIN stops |->
     <<stops[i].place, Cardinality({j \in 1..i : stops[j].place = stops[i].place})>>]

\* _build_stops_by_day, as a sequence of days: the i-th stop's nights in a row.
StopsByDay(ids, nights) ==
  FlattenSeq([i \in DOMAIN ids |->
    [n \in 1..nights[i] |->
       [stop |-> ids[i], checkin |-> n = 1, checkout |-> n = nights[i],
        travel |-> n = 1 \/ n = nights[i]]]])

DaysOf(byDay, id) == {d \in DOMAIN byDay : byDay[d].stop = id}

LastOf(S) == CHOOSE d \in S : \A e \in S : e <= d

FirstOf(S) == CHOOSE d \in S : \A e \in S : d <= e

-----------------------------------------------------------------------------
Source == <<"source", 0>>

\* The id of a gateway stop holds the option's, never a place and a count.
GatewayId(place) == <<place, 0>>

\* Mutant: the two legs home are swapped.
LegOrder_HomeSwapped ==
  [source_to_gateway |-> 0, gateway_to_stop |-> 1, internal_transfer |-> 2,
   country_transfer |-> 2, stop_to_gateway |-> 4, gateway_to_source |-> 3]

\* _LEG_TYPE_ORDER
LegOrder ==
  [source_to_gateway |-> 0, gateway_to_stop |-> 1, internal_transfer |-> 2,
   country_transfer |-> 2, stop_to_gateway |-> 3, gateway_to_source |-> 4]

Leg(from, to, type, day) == [from |-> from, to |-> to, type |-> type, day |-> day]

\* _build_gateway_option: through a stop of its own unless the gateway is the
\* first overnight stop.
GatewayLegs(place, first, last, lastDay) ==
  LET gateway == GatewayId(place)
  IN  IF place # first[1]
        THEN << Leg(Source, gateway, "source_to_gateway", 1),
                Leg(gateway, first, "gateway_to_stop", 1),
                Leg(last, gateway, "stop_to_gateway", lastDay),
                Leg(gateway, Source, "gateway_to_source", lastDay) >>
        ELSE << Leg(Source, first, "source_to_gateway", 1),
                Leg(last, Source, "gateway_to_source", lastDay) >>

TransferType(from, to) ==
  IF CountryOf[from] # NoCountry /\ CountryOf[to] # NoCountry /\ CountryOf[from] # CountryOf[to]
    THEN "country_transfer" ELSE "internal_transfer"

\* From each stop to the next, on the last day of the stop that is left.
InternalLegs(ids, byDay) ==
  [i \in 1..Len(ids) - 1 |->
     Leg(ids[i], ids[i + 1], TransferType(ids[i][1], ids[i + 1][1]), LastOf(DaysOf(byDay, ids[i])))]

\* SetToSortSeq by rank, which can be reasoned about: the p-th element has p - 1
\* before it.
InOrder(S, before(_, _)) ==
  [p \in 1..Cardinality(S) |-> CHOOSE i \in S : Cardinality({j \in S : before(j, i)}) = p - 1]

\* _resequence: legs in order of day and type; sorted() is stable.
Resequence(legs) ==
  LET key(i) == legs[i].day * 5 + LegOrder[legs[i].type]
  IN  InOrder(DOMAIN legs, LAMBDA i, j : key(i) < key(j) \/ (key(i) = key(j) /\ i < j))

EmptyResult(status) == [status |-> status, stops |-> <<>>, byDay |-> <<>>, legs |-> <<>>, gateway |-> Source]

\* The first recommended option, or the first: with no option, the direct one.
Recommended(gateways, firstPlace) ==
  LET options == SubSeq(gateways, 1, IF Len(gateways) < MaxGatewayOptions THEN Len(gateways)
                                                                          ELSE MaxGatewayOptions)
      marked == {i \in DOMAIN options : options[i].recommended}
  IN  IF options = <<>> THEN firstPlace
      ELSE IF marked = {} THEN options[1].place
      ELSE options[FirstOf(marked)].place

ShapeRoute(route, total) ==
  IF route.status = "single_destination" \/ route.stops = <<>>
    THEN EmptyResult("single_destination")
    ELSE LET kept == SubSeq(route.stops, 1, IF Len(route.stops) < total THEN Len(route.stops) ELSE total)
             ids == StopIds(kept)
             nights == NormalizeNights([i \in DOMAIN kept |-> AtLeastOne(kept[i].hint)], total)
             byDay == StopsByDay(ids, nights)
             gateway == Recommended(route.gateways, ids[1][1])
             legs == GatewayLegs(gateway, ids[1], ids[Len(ids)], Len(byDay)) \o InternalLegs(ids, byDay)
             order == Resequence(legs)
         IN  [status |-> "multi_stop_provisional",
              stops |-> [i \in DOMAIN ids |->
                           [id |-> ids[i], nights |-> nights[i],
                            arrival |-> FirstOf(DaysOf(byDay, ids[i])),
                            departure |-> LastOf(DaysOf(byDay, ids[i])) + 1]],
              byDay |-> byDay,
              legs |-> [i \in DOMAIN order |-> legs[order[i]]],
              gateway |-> IF gateway = ids[1][1] THEN ids[1] ELSE GatewayId(gateway)]

-----------------------------------------------------------------------------
RouteInit ==
  /\ days \in 0..MaxDays
  /\ proposal = NoProposal
  /\ plan = EmptyResult("unknown")

Undiscovered == plan.status = "unknown"

\* __call__ returns early: there is nothing to ask the model.
NothingToAsk ==
  /\ Undiscovered /\ days = 0
  /\ plan' = EmptyResult("single_destination")
  /\ UNCHANGED <<days, proposal>>

\* The call of the model raises.
ModelFails ==
  /\ Undiscovered /\ days > 0
  /\ plan' = EmptyResult("discovery_failed")
  /\ UNCHANGED <<days, proposal>>

ModelAnswers ==
  /\ Undiscovered /\ days > 0
  /\ \E route \in Proposal :
       /\ proposal' = route
       /\ plan' = ShapeRoute(route, days)
  /\ UNCHANGED days

RouteNext == NothingToAsk \/ ModelFails \/ ModelAnswers

RouteSpec == RouteInit /\ [][RouteNext]_routeVars

-----------------------------------------------------------------------------
Shaped == plan.status = "multi_stop_provisional"

\* "Scale LLM-provided night counts so they sum exactly to trip_days"
\* (_normalize_nights) and "a 4-night stop must never receive 5 days": whatever
\* the model suggests, every day of the trip belongs to one stop, the stops
\* follow each other without a gap in the order proposed, and each one's dates
\* span exactly its nights.
NightsAddUp ==
  Shaped =>
    /\ Len(plan.byDay) = days
    /\ Total([i \in DOMAIN plan.stops |-> plan.stops[i].nights]) = days
    /\ plan.stops[1].arrival = 1
    /\ \A i \in DOMAIN plan.stops :
         LET stop == plan.stops[i]
         IN  /\ stop.id[1] = proposal.stops[i].place
             /\ stop.nights >= 1 /\ stop.departure = stop.arrival + stop.nights
             /\ DaysOf(plan.byDay, stop.id) = stop.arrival..stop.departure - 1
             /\ i > 1 => stop.arrival = plan.stops[i - 1].departure

\* "Return route semantics" (specs/stops-discovery-agent-spec.md): taken in
\* sequence, the legs are one tour from the source through every stop in order
\* and back, each leg leaving where the last one arrived, and the route leaves a
\* stop only on the last of its days.
LegsMakeATour ==
  Shaped =>
    LET n == Len(plan.legs)
    IN  /\ plan.legs[1].from = Source /\ plan.legs[n].to = Source
        /\ \A i \in 1..n - 1 : /\ plan.legs[i].to = plan.legs[i + 1].from
                               /\ plan.legs[i].day <= plan.legs[i + 1].day
        /\ \E visit \in [DOMAIN plan.stops -> 1..n] :
             /\ {k \in 1..n : plan.legs[k].to[2] > 0} = Range(visit)
             /\ \A i \in DOMAIN plan.stops : plan.legs[visit[i]].to = plan.stops[i].id
             /\ \A i, j \in DOMAIN plan.stops : i < j => visit[i] < visit[j]
        /\ \A i \in 1..n, j \in DOMAIN plan.stops :
             plan.legs[i].from = plan.stops[j].id => plan.legs[i].day = plan.stops[j].departure - 1
=============================================================================
