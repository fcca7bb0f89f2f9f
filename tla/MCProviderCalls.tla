---------------------------- MODULE MCProviderCalls ----------------------------
EXTENDS ProviderCalls

Asks(request, providers, merges, may) ==
  [request |-> request, providers |-> providers, merges |-> merges, may |-> may]

Search(request, may) == Asks(request, <<"google">>, FALSE, may)

\* A call that has nothing to ask.
Idler == Asks("taxi", <<>>, FALSE, {})

\* Four calls compete for one provider: two permits can be let go before the
\* first waiter that was woken runs, and a new call comes, or the next request of
\* a flight search.
Hotels(may) == Asks("hotels", <<"serpapi">>, FALSE, may)

Rush == <<Asks("flights", <<"serpapi", "serpapi", "serpapi">>, FALSE, {"success", "refused"}),
          Hotels({"success"}), Hotels({"success"}), Hotels({"success", "cancelled"})>>

\* Tools that ask two providers, in opposite orders, and one that asks one.
Merged == <<Asks("rental", <<"google", "tavily">>, TRUE, {"success", "refused"}),
            Asks("visa", <<"tavily", "google">>, TRUE, {"success", "raises", "cancelled"}),
            Search("place", {"success"}), Idler>>

\* Whatever can become of a call, next to others of the same request.
Mixed == <<Search("place", Fates), Search("place", {"success", "unrecorded"}),
           Search("place", {"success", "busy"}), Idler>>

MCScenarios == {Rush, Merged, Mixed}
=============================================================================
