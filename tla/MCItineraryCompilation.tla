------------------------ MODULE MCItineraryCompilation ------------------------
EXTENDS ItineraryCompilation

\* Two places in different countries, and one of which the model gives none.
MCCountryOf == [leh |-> "in", pokhara |-> "np", hanle |-> NoCountry]
MCPlaces == DOMAIN MCCountryOf

\* An all-day hike, a palace that shuts at noon and on Mondays (0), a bar open
\* past midnight; the model may also name a place nobody found.
MCVenues == {"hike", "palace", "bar", "invented"}
MCFoundAt == [leh |-> <<"hike", "palace">>, pokhara |-> <<"bar", "hike">>, hanle |-> <<"bar">>,
              trip |-> <<"palace", "hike", "bar">>]
MCHours == [hike |-> [open |-> 0, close |-> 1439, days |-> {}],
            palace |-> [open |-> 540, close |-> 720, days |-> Weekdays \ {0}],
            bar |-> [open |-> 1080, close |-> 120, days |-> {}],
            invented |-> [open |-> 0, close |-> 1439, days |-> {}]]
MCMinutes == [hike |-> 480, palace |-> 120, bar |-> 180, invented |-> 60]
MCMenu == {<<"morning", "hike">>, <<"afternoon", "hike">>, <<"morning", "palace">>,
           <<"afternoon", "palace">>, <<"evening", "bar">>, <<"morning", "invented">>}

\* Short trips with at most two stops at the first two places; neither hints nor
\* gateways make a difference to what is picked.
Small(route) ==
  /\ route.gateways = <<>>
  /\ route.stops \in SeqOf([place : {"leh", "pokhara"}, hint : {0}], 2)
MCBusy == (0..2) \X {route \in Proposal : Small(route)}
=============================================================================
