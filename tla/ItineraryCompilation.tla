------------------------ MODULE ItineraryCompilation ------------------------
(***************************************************************************)
(* Layer 5 (agents/itinerary_compiler_agent.py with                        *)
(* services/itinerary_compiler_service.py and                              *)
(* tools/real/opening_hours_tools.py) on the route of Layer 1: per stop    *)
(* the model places candidates on days and slots, a gate of two tools      *)
(* removes what is closed or too long, and the days are joined with the    *)
(* stays and legs of the route.                                            *)
(*                                                                         *)
(* A day's three lists of options are one set of entries: an entry's rank  *)
(* is its place in the list.  Meals, prices, reviews, safety and prose are *)
(* copied per day without a condition on what is scheduled and are left    *)
(* out, and so is the discarded list of what was not absorbed (it is       *)
(* logged).                                                                *)
(***************************************************************************)
EXTENDS RouteShaping

CONSTANTS
  Venues,         \* names of experiences, found upstream or made up
  FoundAt,        \* names found upstream: for each place, and for Destination
  Destination,    \* the one stop of a single-destination trip
  Hours,          \* opening_hours of each venue: minutes of the day (midnight
                  \* is 0) and weekdays, none when it does not name them
  Departs,        \* the weekday of the first day
  Minutes,        \* estimated_duration_minutes of each venue
  Menu,           \* bound of the model: pairs of slot and name the model picks from
  MaxPicks,       \* bound of the model: picks for the whole trip
  Busy,           \* bound of the model: trips there are picks and clusters for
  MaxPerSlot,     \* settings.itinerary_max_activities_per_slot
  MaxIterations   \* settings.itinerary_max_gate_iterations

Slots == {"morning", "afternoon", "evening"}

Weekdays == 0..6

ASSUME VenuesAssumption ==
  /\ Menu \subseteq Slots \X Venues
  /\ Hours \in [Venues -> [open : Nat, close : Nat, days : SUBSET Weekdays]]
  /\ Departs \in Weekdays /\ Minutes \in [Venues -> Nat]
  /\ MaxPicks \in Nat /\ MaxPerSlot \in Nat

ASSUME FoundAssumption == FoundAt \in [Places \cup {Destination} -> Seq(Venues)]

ASSUME GateAssumption == MaxIterations \in Nat \ {0}

VARIABLES
  stage,      \* "routing", "planning", "gate", "done"; or "stopped", "refused"
  picks,      \* history: what the model picked at each stop, in its order
  excluded,   \* history: the names kept from it at each stop
  scheduled,  \* the entries of all days
  noted,      \* days and slots with an unresolved_note
  rounds,     \* iterations of the gate so far
  itinerary   \* the days as delivered

vars == <<routeVars, stage, picks, excluded, scheduled, noted, rounds, itinerary>>

-----------------------------------------------------------------------------
\* resolve_route: the stops of the route, or one stop for the whole trip.
SingleStop == [id |-> <<Destination, 1>>, nights |-> days]

RouteStops ==
  IF plan.status = "multi_stop_provisional"
    THEN [i \in DOMAIN plan.stops |-> [id |-> plan.stops[i].id, nights |-> plan.stops[i].nights]]
    ELSE << SingleStop >>

Allocations ==
  IF plan.status = "multi_stop_provisional" THEN plan.byDay
  ELSE [d \in 1..days |-> [stop |-> SingleStop.id, checkin |-> d = 1, checkout |-> d = days,
                           travel |-> FALSE]]

AllocationsFor(id) == {d \in DOMAIN Allocations : Allocations[d].stop = id}

-----------------------------------------------------------------------------
\* _SLOT_WINDOWS
Opens == [morning |-> 480, afternoon |-> 720, evening |-> 1020]

Closes == [morning |-> 720, afternoon |-> 1020, evening |-> 1320]

\* _is_open_at: at least 30 minutes of the slot, on any day.  Hours past
\* midnight have close < open, and leave nothing.
IsOpenAt(name, slot) ==
  LET from == IF Hours[name].open > Opens[slot] THEN Hours[name].open ELSE Opens[slot]
      to == IF Hours[name].close < Closes[slot] THEN Hours[name].close ELSE Closes[slot]
  IN  to >= from + 30

\* _closed_venue_names: cluster_by_proximity splits the venues of a stop into
\* groups (any split: it goes by their coordinates), and each is tried in one
\* slot, by its place in its group.
TrialSlot == <<"morning", "afternoon", "evening">>

ClosedNames(found, group) ==
  {found[v] : v \in {w \in DOMAIN found :
     LET index == Cardinality({u \in 1..w - 1 : group[u] = group[w]})
     IN  ~IsOpenAt(found[w], TrialSlot[(index % 3) + 1])}}

Groups(found, count) == [DOMAIN found -> 1..count]

InBounds == <<days, proposal>> \in Busy

Pick == {[day |-> d, slot |-> m[1], name |-> m[2]] : d \in 1..days, m \in Menu}

\* Mutant: a name of no candidate is laid out too.
PickActivities_Unchecked(plans, pool, stopDays) ==
  {[day |-> plans[k].day, slot |-> plans[k].slot, name |-> plans[k].name, rank |-> k] :
     k \in {j \in DOMAIN plans : plans[j].day \in stopDays}}

\* _pick_activities for each day of a stop: names that are not in the pool, and
\* days that are not this stop's, are dropped.
PickActivities(plans, pool, stopDays) ==
  {[day |-> plans[k].day, slot |-> plans[k].slot, name |-> plans[k].name, rank |-> k] :
     k \in {j \in DOMAIN plans : plans[j].day \in stopDays /\ plans[j].name \in pool}}

-----------------------------------------------------------------------------
InSlot(entries, day, slot) == {e \in entries : e.day = day /\ e.slot = slot}

\* validate_day_duration: the activities and half an hour between each two.
SlotMinutes(entries, day, slot) ==
  LET here == InSlot(entries, day, slot)
  IN  IF here = {} THEN 0
      ELSE MapThenSumSet(LAMBDA e : Minutes[e.name], here) + 30 * (Cardinality(here) - 1)

DayMinutes(entries, day) == MapThenSumSet(LAMBDA s : SlotMinutes(entries, day, s), Slots)

\* enforce_opening_hours, over every day at once; it is passed the dates and
\* does not read them.
Conflicts == {e.name : e \in {f \in scheduled : ~IsOpenAt(f.name, f.slot)}}

FlaggedSlots == {c \in (DOMAIN Allocations) \X Slots : SlotMinutes(scheduled, c[1], c[2]) > 600}

FlaggedDays == {d \in DOMAIN Allocations : DayMinutes(scheduled, d) > 840}

Trimmed(clean) ==
  {e \in clean :
     Cardinality({f \in InSlot(clean, e.day, e.slot) : f.rank < e.rank}) < MaxPerSlot}

\* Mutant: closed venues are looked for in the flagged slots only.
ResolveConflicts_InFlagged(conflicts, flagged) ==
  LET clean == {e \in scheduled : <<e.day, e.slot>> \in flagged => e.name \notin conflicts}
  IN  {e \in clean : <<e.day, e.slot>> \in flagged => e \in Trimmed(clean)}

\* resolve_conflicts: the name of a closed venue goes from every day and slot;
\* a flagged slot keeps its first MaxPerSlot; the flag of a day is not read.
ResolveConflicts(conflicts, flagged) ==
  LET clean == {e \in scheduled : e.name \notin conflicts}
  IN  {e \in clean : <<e.day, e.slot>> \in flagged => e \in Trimmed(clean)}

\* Mutant: a leg is on its day by its index, which is one less.
LegsOn_Index(day) ==
  LET here == InOrder({i \in DOMAIN plan.legs : plan.legs[i].day = day + 1}, LAMBDA i, j : i < j)
  IN  [p \in DOMAIN here |-> plan.legs[here[p]]]

\* _transport_options_by_day: the legs that depart on a day, in sequence.
LegsOn(day) ==
  LET here == InOrder({i \in DOMAIN plan.legs : plan.legs[i].day = day}, LAMBDA i, j : i < j)
  IN  [p \in DOMAIN here |-> plan.legs[here[p]]]

\* Without a leg in the route the recommendation for the whole trip, if there is
\* one, is the only transfer.
SingleTransfer == Leg(Source, SingleStop.id, "none", 1)

TransfersOn(day, recommended) ==
  IF plan.legs = <<>> /\ recommended /\ day = 1 THEN << SingleTransfer >> ELSE LegsOn(day)

\* The day as it leaves _enrich.  inject_stays counts the days of the stop, and
\* attaches nothing (here: 0 nights) to a stop without options.
Delivered(day, lodged, recommended) ==
  LET alloc == Allocations[day]
      transfers == TransfersOn(day, recommended)
  IN  [stop |-> alloc.stop,
       nights |-> IF alloc.stop \in lodged THEN Cardinality(AllocationsFor(alloc.stop)) ELSE 0,
       checkin |-> alloc.checkin, checkout |-> alloc.checkout,
       legs |-> transfers, travel |-> alloc.travel \/ transfers # <<>>]

-----------------------------------------------------------------------------
CompilerInit ==
  /\ RouteInit
  /\ stage = "routing" /\ rounds = 0
  /\ picks = <<>> /\ excluded = <<>> /\ itinerary = <<>>
  /\ scheduled = {} /\ noted = {}

\* A failed discovery never reaches the compiler (PlanningGraph).
Discover ==
  /\ stage = "routing"
  /\ RouteNext
  /\ stage' = IF plan'.status = "discovery_failed" THEN "stopped" ELSE "planning"
  /\ UNCHANGED <<picks, excluded, scheduled, noted, rounds, itinerary>>

\* MissingTripDatesError
Refuse ==
  /\ stage = "planning" /\ days = 0
  /\ stage' = "refused"
  /\ UNCHANGED <<routeVars, picks, excluded, scheduled, noted, rounds, itinerary>>

Picked == FoldFunction(LAMBDA p, n : Len(p) + n, 0, picks)

\* _compile_stop_days for the next stop.  An answer with no pick stands for a
\* call that raised, too.
CompileStop ==
  /\ stage = "planning" /\ days > 0
  /\ LET i == Len(picks) + 1
         id == RouteStops[i].id
         found == FoundAt[id[1]]
         stopDays == AllocationsFor(id)
     IN  \E group \in Groups(found, IF InBounds THEN Cardinality(stopDays) ELSE 1),
            plans \in SeqOf(Pick, IF InBounds THEN MaxPicks - Picked ELSE 0) :
           /\ picks' = Append(picks, plans)
           /\ excluded' = Append(excluded, ClosedNames(found, group))
           /\ scheduled' = scheduled \cup
                PickActivities(plans, Range(found) \ ClosedNames(found, group), stopDays)
           /\ stage' = IF i = Len(RouteStops) THEN "gate" ELSE "planning"
  /\ UNCHANGED <<routeVars, noted, rounds, itinerary>>

\* lodged: the stops a shortlist of stays was found for; recommended: a transfer
\* was recommended for the whole trip.
Deliver ==
  /\ stage' = "done"
  /\ \E lodged \in SUBSET {RouteStops[i].id : i \in DOMAIN RouteStops}, recommended \in BOOLEAN :
       itinerary' = [d \in DOMAIN Allocations |-> Delivered(d, lodged, recommended)]

\* One iteration of _run_quality_gate; after the last it goes on regardless.
GatePasses ==
  /\ stage = "gate"
  /\ Conflicts = {} /\ FlaggedSlots = {} /\ FlaggedDays = {}
  /\ Deliver
  /\ UNCHANGED <<routeVars, picks, excluded, scheduled, noted, rounds>>

GateResolves ==
  /\ stage = "gate"
  /\ Conflicts # {} \/ FlaggedSlots # {} \/ FlaggedDays # {}
  /\ scheduled' = ResolveConflicts(Conflicts, FlaggedSlots)
  /\ noted' = noted \cup {<<e.day, e.slot>> : e \in scheduled \ scheduled'}
  /\ rounds' = rounds + 1
  /\ IF rounds' = MaxIterations THEN Deliver ELSE UNCHANGED <<stage, itinerary>>
  /\ UNCHANGED <<routeVars, picks, excluded>>

CompilerNext == Discover \/ Refuse \/ CompileStop \/ GatePasses \/ GateResolves

CompilerSpec == CompilerInit /\ [][CompilerNext]_vars

-----------------------------------------------------------------------------
\* "No place is assigned to a slot when it is closed" (plan.md, Opening hours
\* enforcement), by the clock: a delivered itinerary has no activity in a slot
\* its venue is closed in every day, however often the gate had to iterate.
OpenByTheClock ==
  stage = "done" => \A e \in scheduled : IsOpenAt(e.name, e.slot)

Weekday(day) == (Departs + day - 1) % 7

\* The tool "cross-checks each place's opening_hours against its assigned day and
\* time slot ... (e.g. place closed on Tuesday ...)" (plan.md:631): a delivered
\* itinerary has no activity on a weekday its venue is closed on either.
OpenOnItsDay ==
  stage = "done" =>
    \A e \in scheduled :
      IsOpenAt(e.name, e.slot) /\ (Hours[e.name].days # {} => Weekday(e.day) \in Hours[e.name].days)

\* "unrecognised names are dropped" and "dropping or trimming what fails": an
\* activity of the itinerary is a pick of its own stop from what was found
\* there; and a pick of a found venue is missing only if the venue was closed
\* in its trial slot or in one it was picked for, or its slot was too long.
PicksAccountedFor ==
  stage = "done" =>
    \A i \in DOMAIN RouteStops :
      LET stopDays == AllocationsFor(RouteStops[i].id)
          found == Range(FoundAt[RouteStops[i].id[1]])
          mine(k) == [day |-> picks[i][k].day, slot |-> picks[i][k].slot,
                      name |-> picks[i][k].name, rank |-> k]
          valid == {k \in DOMAIN picks[i] : picks[i][k].day \in stopDays /\ picks[i][k].name \in found}
          lay == {mine(k) : k \in valid}
          closedSomewhere == {p.name : p \in {q \in UNION {Range(picks[j]) : j \in DOMAIN picks} :
                                                ~IsOpenAt(q.name, q.slot)}}
      IN  /\ {e \in scheduled : e.day \in stopDays} \subseteq lay
          /\ \A k \in valid :
               mine(k) \notin scheduled =>
                 \/ picks[i][k].name \in excluded[i] \cup closedSomewhere
                 \/ /\ SlotMinutes(lay, picks[i][k].day, picks[i][k].slot) > 600
                    /\ <<picks[i][k].day, picks[i][k].slot>> \in noted

\* TripDays ("1-based, continuous across the whole trip") and
\* inject_transport ("attach each leg to the day it departs"): the days
\* delivered follow the route day by day; a stop's stay, if it has one, is on all
\* its days and as long as the nights allotted to it; and read through the days
\* in order the legs are those of the route, each on a day at one of its ends,
\* or at most the one transfer out when the route has none.
DaysFollowRoute ==
  stage = "done" =>
    /\ Len(itinerary) = days
    /\ \A i \in DOMAIN RouteStops :
         LET here == {d \in 1..days : itinerary[d].stop = RouteStops[i].id}
         IN  /\ Cardinality(here) = RouteStops[i].nights
             /\ \/ \A d \in here : itinerary[d].nights = RouteStops[i].nights
                \/ \A d \in here : itinerary[d].nights = 0
             /\ Cardinality({d \in here : itinerary[d].checkin}) = 1
    /\ LET legs == FlattenSeq([d \in 1..days |-> itinerary[d].legs])
       IN  legs = plan.legs \/ (plan.legs = <<>> /\ legs = << SingleTransfer >>)
    /\ \A d \in 1..days : \A k \in DOMAIN itinerary[d].legs :
         LET leg == itinerary[d].legs[k]
         IN  /\ itinerary[d].travel
             /\ itinerary[d].stop \in {leg.from, leg.to} \/ plan.gateway \in {leg.from, leg.to}
=============================================================================
