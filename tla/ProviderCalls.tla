---------------------------- MODULE ProviderCalls ----------------------------
(***************************************************************************)
(* Tool calls of one server process (tools/factory.py, _InvocationTool, on *)
(* services/external_api_client.py) and the directory of recordings        *)
(* (services/tool_response_store.py): a semaphore per provider held over   *)
(* all tries of a request, bounded retries, cancellation at every await,   *)
(* and the recording of what came back, which a process in mock mode       *)
(* replays.                                                                *)
(*                                                                         *)
(* From the last answer of a provider to the recorded file, or to the next *)
(* request of the tool, there is no await: that is one step.  Payloads are *)
(* left out, a recording is named by its call.                             *)
(***************************************************************************)
EXTENDS Integers, Sequences, FiniteSets

CONSTANTS
  Calls,        \* invocations of tools
  Providers,
  Requests,     \* a tool and the fingerprint of its arguments
  Scenarios,    \* what the calls may be
  Concurrency,  \* settings.external_api_provider_concurrency
  MaxRetries,   \* settings.external_api_max_retries
  Retention,    \* settings.tool_response_retention_days
  MaxClock      \* bound of the model: days that pass

\* What a try of client.request ends with: a success, a status that is retried,
\* one that is not, a TransportError, or any other exception (also of the
\* adapter, before the next request of the tool or after the last).
Answers == {"success", "busy", "refused", "unreachable", "raises"}

\* Bound of the model: what may become of a call.
Fates == Answers \cup {"invalid", "unrecorded", "cancelled", "crashed"}

\* What a call is: its request, the providers its tool asks one after the other
\* given the arguments (none: search_taxi_info without a place; one twice before
\* the search: search_flights; two: rental_search and visa_centre_search), and
\* whether the tool merges the runtimes of what it asked (the last two).
Invocations ==
  [request : Requests, providers : Seq(Providers), merges : BOOLEAN, may : SUBSET Fates]

ASSUME CallsAssumption == IsFiniteSet(Calls)

ASSUME ScenariosAssumption == \A scenario \in Scenarios : scenario \in [Calls -> Invocations]

ASSUME LimitsAssumption ==
  /\ Concurrency \in Nat \ {0} /\ MaxRetries \in Nat
  /\ Retention \in Nat /\ MaxClock \in Nat

VARIABLES
  tools,      \* what each call is
  calls,      \* where each call is
  permits,    \* Semaphore._value of each provider
  waiting,    \* the waiters of each provider that nobody woke yet
  files,      \* the recordings
  begun,      \* calls started so far, which orders recorded_at
  clock,      \* the day
  restarts    \* history: how often the process ended

vars == <<tools, calls, permits, waiting, files, begun, clock, restarts>>

-----------------------------------------------------------------------------
\* "granted": woken, with its permit, but not running yet; "leaving": cancelled
\* while it waited, but not running yet.
Stages == {"idle", "waiting", "granted", "leaving", "calling", "sleeping", "done"}

\* How a request ended: with the answer to its last try, or without one, when
\* the loop ran out of tries.
Outcomes == Answers \cup {"exhausted"}

\* How a call ended: the status it returned, or that it raised.
Results == {"none", "success", "partial", "error", "unrecorded", "cancelled", "crashed"}

Idle ==
  [stage |-> "idle", attempt |-> 0, retries |-> 0, began |-> 0, ends |-> <<>>, result |-> "none"]

\* The provider of the request that call c makes.
At(c) == tools[c].providers[Len(calls[c].ends) + 1]

Holds(c) == calls[c].stage \in {"granted", "calling", "sleeping"}

Running(c) == calls[c].stage \in {"waiting", "granted", "leaving", "calling", "sleeping"}

Granted(p) == {c \in Calls : calls[c].stage = "granted" /\ At(c) = p}

Without(s, k) == [i \in 1..Len(s) - 1 |-> IF i < k THEN s[i] ELSE s[i + 1]]

-----------------------------------------------------------------------------
(* asyncio.Semaphore of CPython 3.12.                                      *)

\* Semaphore.locked with that many permits: also while a woken waiter has not run.
Locked(p, free) == free = 0 \/ waiting[p] # <<>> \/ Granted(p) # {}

\* The first n waiters of p, and those behind them.
First(p, n) == {waiting[p][i] : i \in 1..n}
Behind(p, n) == SubSeq(waiting[p], n + 1, Len(waiting[p]))

\* Mutant: a permit is let go and nobody is woken.
ReleaseWakes_Nobody(p) == 0

\* release: _wake_up_next, once.
ReleaseWakes(p) == IF waiting[p] = <<>> THEN 0 ELSE 1

\* Mutant: who was woken does not look behind himself.
AcquireWakes_Nobody(p, free) == 0

\* acquire, when a waiter leaves it: _wake_up_next while there are permits.
AcquireWakes(p, free) == IF free < Len(waiting[p]) THEN free ELSE Len(waiting[p])

\* Call c becomes r, and the woken have their permits.
Becomes(c, r, woken) ==
  calls' = [d \in Calls |-> IF d = c THEN r
                            ELSE IF d \in woken THEN [calls[d] EXCEPT !.stage = "granted"]
                            ELSE calls[d]]

\* Call c becomes r; of the free permits of p its first n waiters get one each.
Passes(c, r, p, free, n) ==
  /\ Becomes(c, r, First(p, n))
  /\ permits' = [permits EXCEPT ![p] = free - n]
  /\ waiting' = [waiting EXCEPT ![p] = Behind(p, n)]

Release(c, r) == Passes(c, r, At(c), permits[At(c)] + 1, ReleaseWakes(At(c)))

LeaveAcquire(c, r, free) == Passes(c, r, At(c), free, AcquireWakes(At(c), free))

-----------------------------------------------------------------------------
(* The recordings.                                                         *)

\* ToolResponseStore._cleanup: by the time a file was written.
Kept == {f \in files : f.complete => f.written >= clock - Retention}

Recording(c, status, began) ==
  [call |-> c, request |-> tools[c].request, status |-> status,
   began |-> began, written |-> clock, complete |-> TRUE]

\* ToolResponseStore.write, which may raise: before the directory is cleaned up
\* or after.
Written(c, status, began) ==
  files' = Kept \cup {Recording(c, status, began)}

NotWritten == files' = files \/ files' = Kept

\* Mutant: an empty result of a failed call is replayed too.
Matches_Partial(f, r) == f.complete /\ f.request = r /\ f.status \in {"success", "partial"}

\* _is_replay_match
Matches(f, r) == f.complete /\ f.request = r /\ f.status = "success"

\* find_latest_success: recorded_at is when the call began.
FindLatestSuccess(r) ==
  {f \in files : Matches(f, r) /\ \A g \in files : Matches(g, r) => g.began <= f.began}

-----------------------------------------------------------------------------
(* A call.                                                                 *)

Init ==
  /\ tools \in Scenarios
  /\ calls = [c \in Calls |-> Idle]
  /\ permits = [p \in Providers |-> Concurrency]
  /\ waiting = [p \in Providers |-> <<>>]
  /\ files = {} /\ begun = 0 /\ clock = 0 /\ restarts = 0

Started(c, stage) ==
  [Idle EXCEPT !.stage = stage, !.began = begun + 1, !.attempt = IF stage = "calling" THEN 1 ELSE 0]

\* _run_real without a request: the tool has nothing to ask, or the arguments or
\* the credential are no good.
InvokeUnasked(c) ==
  /\ calls[c].stage = "idle"
  /\ begun' = begun + 1
  /\ tools[c].providers = <<>> \/ "invalid" \in tools[c].may
  /\ \E result \in {"success", "error", "unrecorded"} :
       /\ result = "success" => tools[c].providers = <<>>
       /\ result = "error" => "invalid" \in tools[c].may
       /\ result = "unrecorded" => "unrecorded" \in tools[c].may
       /\ calls' = [calls EXCEPT ![c] = [Started(c, "done") EXCEPT !.result = result]]
       /\ IF result = "unrecorded" THEN NotWritten ELSE Written(c, result, begun + 1)
  /\ UNCHANGED <<tools, permits, waiting, clock, restarts>>

\* Semaphore.acquire, up to its await if it has to wait.
Invoke(c) ==
  LET p == At(c)
  IN  /\ calls[c].stage = "idle" /\ tools[c].providers # <<>>
      /\ begun' = begun + 1
      /\ \/ /\ ~Locked(p, permits[p])
            /\ calls' = [calls EXCEPT ![c] = Started(c, "calling")]
            /\ permits' = [permits EXCEPT ![p] = @ - 1]
            /\ UNCHANGED waiting
         \/ /\ Locked(p, permits[p])
            /\ calls' = [calls EXCEPT ![c] = Started(c, "waiting")]
            /\ waiting' = [waiting EXCEPT ![p] = Append(@, c)]
            /\ UNCHANGED permits
      /\ UNCHANGED <<tools, files, clock, restarts>>

\* A woken waiter runs: the rest of acquire.
Resume(c) ==
  /\ calls[c].stage = "granted"
  /\ LeaveAcquire(c, [calls[c] EXCEPT !.stage = "calling", !.attempt = 1], permits[At(c)])
  /\ UNCHANGED <<tools, files, begun, clock, restarts>>

-----------------------------------------------------------------------------
(* request_json: the loop over the tries.                                  *)

\* Mutant: range(1, max_retries + 1).
Tries_OneShort == 1..MaxRetries

\* range(1, max_retries + 2)
Tries == 1..MaxRetries + 1

IsRetryableStatus(answer, attempt) == answer = "busy" /\ attempt <= MaxRetries

\* The test of the except branch.
LastTry(attempt) == attempt > MaxRetries

\* _wait_before_retry sleeps inside "async with semaphore".
WaitBeforeRetry(c) ==
  /\ calls' = [calls EXCEPT ![c].stage = "sleeping", ![c].retries = @ + 1]
  /\ UNCHANGED <<tools, permits, waiting, files, begun, clock, restarts>>

\* _merge_runtime makes every result a success, provider_result one whose last
\* request failed partial, an exception makes it an error.
StatusOf(c, outcome) ==
  IF outcome = "raises" THEN "error"
  ELSE IF tools[c].merges \/ outcome = "success" THEN "success" ELSE "partial"

\* _run_real from the last answer on: the file is written whatever the status.
\* A write that raises takes the result with it.
Concludes(c, ends) ==
  \E result \in {StatusOf(c, ends[Len(ends)])} \cup ({"unrecorded"} \cap tools[c].may) :
    /\ Release(c, [calls[c] EXCEPT !.stage = "done", !.ends = ends, !.result = result])
    /\ IF result = "unrecorded" THEN NotWritten ELSE Written(c, result, calls[c].began)
    /\ UNCHANGED <<tools, begun, clock, restarts>>

\* The permit of one provider is let go and the next one's acquired, or waited
\* for, without an await in between.
AsksNext(c, ends) ==
  LET p == At(c)
      q == tools[c].providers[Len(ends) + 1]
      n == ReleaseWakes(p)
      free == IF q = p THEN permits[q] + 1 ELSE permits[q]
      passed == [permits EXCEPT ![p] = @ + 1 - n]
      behind == [waiting EXCEPT ![p] = Behind(p, n)]
      asking == [calls[c] EXCEPT !.ends = ends, !.retries = 0]
  IN  /\ \/ /\ ~Locked(q, free)
            /\ Becomes(c, [asking EXCEPT !.stage = "calling", !.attempt = 1], First(p, n))
            /\ permits' = [passed EXCEPT ![q] = @ - 1]
            /\ waiting' = behind
         \/ /\ Locked(q, free)
            /\ Becomes(c, [asking EXCEPT !.stage = "waiting", !.attempt = 0], First(p, n))
            /\ permits' = passed
            /\ waiting' = [behind EXCEPT ![q] = Append(@, c)]
      /\ UNCHANGED <<tools, files, begun, clock, restarts>>

EndsRequest(c, outcome) ==
  LET ends == Append(calls[c].ends, outcome)
  IN  IF outcome # "raises" /\ Len(ends) < Len(tools[c].providers)
        THEN AsksNext(c, ends)
        ELSE Concludes(c, ends)

\* A success, or an exception that request_json does not catch.
Answer(c, answer) ==
  /\ calls[c].stage = "calling" /\ answer \in tools[c].may \cap {"success", "raises"}
  /\ EndsRequest(c, answer)

StatusError(c, answer) ==
  /\ calls[c].stage = "calling" /\ answer \in tools[c].may \cap {"busy", "refused"}
  /\ IF IsRetryableStatus(answer, calls[c].attempt)
       THEN WaitBeforeRetry(c)
       ELSE EndsRequest(c, answer)

TransportError(c) ==
  /\ calls[c].stage = "calling" /\ "unreachable" \in tools[c].may
  /\ IF LastTry(calls[c].attempt)
       THEN EndsRequest(c, "unreachable")
       ELSE WaitBeforeRetry(c)

\* The next try, or the failure behind the loop when there is none.
WakeUp(c) ==
  /\ calls[c].stage = "sleeping"
  /\ IF calls[c].attempt + 1 \in Tries
       THEN /\ calls' = [calls EXCEPT ![c].stage = "calling", ![c].attempt = @ + 1]
            /\ UNCHANGED <<tools, permits, waiting, files, begun, clock, restarts>>
       ELSE EndsRequest(c, "exhausted")

-----------------------------------------------------------------------------
(* Cancellation of the agent's task.  CancelledError is no Exception:      *)
(* nothing is recorded.                                                    *)

Cancelled(c) == [calls[c] EXCEPT !.stage = "done", !.result = "cancelled"]

\* acquire of a woken waiter gives its permit back.
CancelGranted(c) ==
  /\ calls[c].stage = "granted" /\ "cancelled" \in tools[c].may
  /\ LeaveAcquire(c, Cancelled(c), permits[At(c)] + 1)
  /\ UNCHANGED <<tools, files, begun, clock, restarts>>

\* "async with" lets the permit go.
CancelHolding(c) ==
  /\ calls[c].stage \in {"calling", "sleeping"} /\ "cancelled" \in tools[c].may
  /\ Release(c, Cancelled(c))
  /\ UNCHANGED <<tools, files, begun, clock, restarts>>

\* A waiter nobody woke: nobody will wake it any more.
CancelWaiting(c) ==
  /\ calls[c].stage = "waiting" /\ "cancelled" \in tools[c].may
  /\ calls' = [calls EXCEPT ![c].stage = "leaving"]
  /\ \E k \in DOMAIN waiting[At(c)] :
       waiting[At(c)][k] = c /\ waiting' = [waiting EXCEPT ![At(c)] = Without(@, k)]
  /\ UNCHANGED <<tools, permits, files, begun, clock, restarts>>

Leave(c) ==
  /\ calls[c].stage = "leaving"
  /\ LeaveAcquire(c, Cancelled(c), permits[At(c)])
  /\ UNCHANGED <<tools, files, begun, clock, restarts>>

\* The process ends, perhaps while a recording is being written: the temporary
\* file is not one that is read, or cleaned up.  A new process starts afresh.
Crash ==
  /\ restarts = 0 /\ \E c \in Calls : Running(c) /\ "crashed" \in tools[c].may
  /\ \/ files' = Kept
     \/ \E c \in Calls :
          /\ calls[c].stage = "calling"
          /\ files' = Kept \cup {[Recording(c, "success", calls[c].began) EXCEPT !.complete = FALSE]}
  /\ calls' = [c \in Calls |->
                 IF Running(c) THEN [calls[c] EXCEPT !.stage = "done", !.result = "crashed"]
                               ELSE calls[c]]
  /\ permits' = [p \in Providers |-> Concurrency]
  /\ waiting' = [p \in Providers |-> <<>>]
  /\ restarts' = restarts + 1
  /\ UNCHANGED <<tools, begun, clock>>

NextDay ==
  /\ clock < MaxClock
  /\ clock' = clock + 1
  /\ UNCHANGED <<tools, calls, permits, waiting, files, begun, restarts>>

Next ==
  \/ \E c \in Calls :
       \/ Invoke(c) \/ InvokeUnasked(c) \/ Resume(c) \/ TransportError(c) \/ WakeUp(c)
       \/ \E answer \in Answers : Answer(c, answer) \/ StatusError(c, answer)
       \/ CancelGranted(c) \/ CancelHolding(c) \/ CancelWaiting(c) \/ Leave(c)
  \/ Crash
  \/ NextDay

\* httpx times every try out, sleeps end, and the loop runs what is ready.
Fairness ==
  \A c \in Calls :
    /\ WF_vars(Resume(c)) /\ WF_vars(Leave(c)) /\ WF_vars(WakeUp(c))
    /\ WF_vars(TransportError(c) \/ \E answer \in Answers : Answer(c, answer) \/ StatusError(c, answer))

Spec == Init /\ [][Next]_vars /\ Fairness

-----------------------------------------------------------------------------
\* "bounded provider-specific concurrency": the permits of a provider and the
\* calls that hold one are always Concurrency together, whatever is cancelled at
\* whatever await; and when a permit is free while a call waits, a woken waiter
\* that has yet to run will look for it.
PermitsConserved ==
  \A p \in Providers :
    /\ permits[p] + Cardinality({c \in Calls : Holds(c) /\ At(c) = p}) = Concurrency
    /\ permits[p] > 0 /\ waiting[p] # <<>> => Granted(p) # {}

\* How the last request of call c so far ended.
LastEnd(c) == calls[c].ends[Len(calls[c].ends)]

\* "Persist sanitized invocation envelopes and replay exact successful matches":
\* there is one latest success at most; it is of a call of that very request
\* that gave its agent a success, and whose last request went well unless its
\* tool merges them; and no later begun success that was recorded and is not
\* too old is passed over.
ReplayFaithful ==
  \A r \in Requests :
    /\ Cardinality(FindLatestSuccess(r)) <= 1
    /\ \A f \in FindLatestSuccess(r) :
         /\ tools[f.call].request = r /\ calls[f.call].result = "success"
         /\ tools[f.call].merges \/ calls[f.call].ends = <<>> \/ LastEnd(f.call) = "success"
    /\ \A f \in files :
         f.request = r /\ calls[f.call].result = "success" =>
           \E g \in FindLatestSuccess(r) : g.began >= f.began

\* Call c gives a request up on an answer that another try might have changed.
GivesUp(c) ==
  /\ Len(calls'[c].ends) > Len(calls[c].ends)
  /\ LastEnd(c)' \in {"busy", "unreachable", "exhausted"}

\* The range of tries, the test of the status and that of the except branch
\* agree: a request is given up only on the answer to its last try, after every
\* retry that is allowed was made, so never behind the loop; and every wait is
\* followed by a try.
GivesUpOnlyAtLimit ==
  [][\A c \in Calls :
       /\ GivesUp(c) => /\ calls[c].stage = "calling"
                        /\ calls[c].attempt = MaxRetries + 1 /\ calls[c].retries = MaxRetries
       /\ calls[c].stage = "sleeping" /\ calls'[c].stage = "calling" =>
            calls'[c].attempt = calls'[c].retries + 1]_vars

\* A call that was made comes to an end, also while others of its provider are
\* retried: no permit is lost to it and no waiter is overtaken for ever.
CallsEnd == \A c \in Calls : (calls[c].stage # "idle") ~> (calls[c].stage = "done")
=============================================================================
