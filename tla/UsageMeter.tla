------------------------------ MODULE UsageMeter ------------------------------
(***************************************************************************)
(* What the model calls of a session cost (llm.py, the usage rows of       *)
(* services/cache_service.py, build_usage_summary of                       *)
(* services/trip_stream_service.py): LiteLLM's callback puts an event on a *)
(* queue, one worker thread adds it to the row of its session and agent in *)
(* Redis by get, add, set, and a finished prompt waits for the queue, for  *)
(* at most two seconds, and reads the rows.                                *)
(*                                                                         *)
(* An amount is left out: a row says how often each call has been added to *)
(* it, and what it shows is the sum over those.  CacheService never        *)
(* raises: a failed get is an absent row and a failed set is silence.      *)
(***************************************************************************)
EXTENDS Integers, Sequences, FiniteSets

CONSTANTS
  Calls,      \* calls of the model
  Sessions,
  Agents,     \* the names agents give themselves in get_llm
  SessionOf, AgentOf,
  Layers,     \* AGENT_LAYERS, in order: the agents a summary reads
  Threads,    \* worker threads the process might start
  Attempts    \* how often a summary that finds nothing looks: range(4)

ASSUME CallsAssumption ==
  SessionOf \in [Calls -> Sessions] /\ AgentOf \in [Calls -> Agents]

ASSUME LayersAssumption ==
  Layers \in Seq(Agents) \ {<<>>} /\ Attempts \in Nat \ {0}

VARIABLES
  stage,       \* how far each call's usage has come
  queue,       \* _usage_queue
  unfinished,  \* _usage_queue.unfinished_tasks
  running,     \* the threads started: _usage_worker_started, if any
  worker,      \* what each of them is doing
  rows,        \* the rows in Redis
  prompts,     \* per session, the summary of the prompt being planned
  spoilt       \* history: rows on which an operation of the worker failed

vars == <<stage, queue, unfinished, running, worker, rows, prompts, spoilt>>

-----------------------------------------------------------------------------
\* "gone": never put on the queue, or lost with the process; "lost": the set failed.
Stages == {"pending", "queued", "held", "stored", "lost", "gone"}

Keys == Sessions \X Agents

\* usage:{session_id}:{agent_name}
KeyOf(c) == <<SessionOf[c], AgentOf[c]>>

NoRow == [c \in Calls |-> 0]

\* Every field of the row grows by that of the call, and `calls` by one.
Added(row, c) == [row EXCEPT ![c] = @ + 1]

IdleWorker == [at |-> "idle", call |-> {}, row |-> NoRow]

NothingFound == [a \in Agents |-> NoRow]

\* `sure`: the queue was joined and no get of this summary failed.
Planning == [stage |-> "planning", sure |-> FALSE, attempt |-> 1, next |-> 1,
             found |-> NothingFound, due |-> {}]

Init ==
  /\ stage = [c \in Calls |-> "pending"]
  /\ queue = <<>> /\ unfinished = 0
  /\ running = {}
  /\ worker = [t \in Threads |-> IdleWorker]
  /\ rows = [k \in Keys |-> NoRow]
  /\ prompts = [s \in Sessions |-> Planning]
  /\ spoilt = {}

-----------------------------------------------------------------------------
\* Mutant: the flag is looked at before the lock is taken.
Started_Twice == {running \cup {t} : t \in Threads}

\* _ensure_usage_worker, under its lock: the threads there are afterwards.
Started == IF running # {} THEN {running} ELSE {{t} : t \in Threads}

\* LiteLLM runs the callback of a finished call, on a thread of its own.
LogSuccess(c) ==
  /\ stage[c] = "pending"
  /\ stage' = [stage EXCEPT ![c] = "queued"]
  /\ queue' = Append(queue, c)
  /\ unfinished' = unfinished + 1
  /\ running' \in Started
  /\ UNCHANGED <<worker, rows, prompts, spoilt>>

\* No session id reaches the callback, or there is no callback: the call failed.
LogNothing(c) ==
  /\ stage[c] = "pending"
  /\ stage' = [stage EXCEPT ![c] = "gone"]
  /\ UNCHANGED <<queue, unfinished, running, worker, rows, prompts, spoilt>>

-----------------------------------------------------------------------------
(* The worker: one action up to each await. *)

Take(t) ==
  /\ t \in running /\ worker[t].at = "idle" /\ queue # <<>>
  /\ worker' = [worker EXCEPT ![t] = [@ EXCEPT !.at = "get", !.call = {Head(queue)}]]
  /\ stage' = [stage EXCEPT ![Head(queue)] = "held"]
  /\ queue' = Tail(queue)
  /\ UNCHANGED <<unfinished, running, rows, prompts, spoilt>>

\* cache.get(key) or {}
GetRow(t, c) ==
  /\ t \in running /\ worker[t].at = "get" /\ worker[t].call = {c}
  /\ \/ /\ worker' = [worker EXCEPT ![t] = [@ EXCEPT !.at = "set", !.row = rows[KeyOf(c)]]]
        /\ UNCHANGED spoilt
     \/ /\ worker' = [worker EXCEPT ![t] = [@ EXCEPT !.at = "set", !.row = NoRow]]
        /\ spoilt' = spoilt \cup {KeyOf(c)}
  /\ UNCHANGED <<stage, queue, unfinished, running, rows, prompts>>

SetRow(t, c) ==
  /\ t \in running /\ worker[t].at = "set" /\ worker[t].call = {c}
  /\ worker' = [worker EXCEPT ![t].at = "close"]
  /\ \/ /\ rows' = [rows EXCEPT ![KeyOf(c)] = Added(worker[t].row, c)]
        /\ stage' = [stage EXCEPT ![c] = "stored"]
        /\ UNCHANGED spoilt
     \/ /\ stage' = [stage EXCEPT ![c] = "lost"]
        /\ spoilt' = spoilt \cup {KeyOf(c)}
        /\ UNCHANGED rows
  /\ UNCHANGED <<queue, unfinished, running, prompts>>

\* cache.close(), and task_done in the finally.
TaskDone(t) ==
  /\ t \in running /\ worker[t].at = "close"
  /\ worker' = [worker EXCEPT ![t] = IdleWorker]
  /\ unfinished' = unfinished - 1
  /\ UNCHANGED <<stage, queue, running, rows, prompts, spoilt>>

-----------------------------------------------------------------------------
(* The summary of a finished prompt, and the next prompt of its session. *)

BeginFlush(s) ==
  /\ prompts[s].stage = "planning"
  /\ prompts' = [prompts EXCEPT ![s] =
       [@ EXCEPT !.stage = "joining",
                 !.due = {c \in Calls : SessionOf[c] = s /\ stage[c] \in {"queued", "held", "stored"}}]]
  /\ UNCHANGED <<stage, queue, unfinished, running, worker, rows, spoilt>>

\* Mutant: an empty queue is taken for a finished one.
AllDone_QueueEmpty == queue = <<>>

\* What Queue.join waits for.
AllDone == unfinished = 0

Joined(s) ==
  /\ prompts[s].stage = "joining" /\ AllDone
  /\ prompts' = [prompts EXCEPT ![s] = [@ EXCEPT !.stage = "reading", !.sure = TRUE]]
  /\ UNCHANGED <<stage, queue, unfinished, running, worker, rows, spoilt>>

\* wait_for gives up; the thread in join is left behind.
FlushTimesOut(s) ==
  /\ prompts[s].stage = "joining"
  /\ prompts' = [prompts EXCEPT ![s] = [@ EXCEPT !.stage = "reading"]]
  /\ UNCHANGED <<stage, queue, unfinished, running, worker, rows, spoilt>>

\* The prompt's summary once the row of the next agent has been read.
AfterRow(p, row) ==
  LET found == [p.found EXCEPT ![Layers[p.next]] = row]
  IN  IF p.next < Len(Layers) THEN [p EXCEPT !.next = @ + 1, !.found = found]
      ELSE IF found # NothingFound \/ p.attempt = Attempts
           THEN [p EXCEPT !.stage = "done", !.found = found]
      ELSE [p EXCEPT !.attempt = @ + 1, !.next = 1]

ReadRow(s) ==
  /\ prompts[s].stage = "reading"
  /\ \/ prompts' = [prompts EXCEPT ![s] = AfterRow(@, rows[<<s, Layers[@.next]>>])]
     \/ prompts' = [prompts EXCEPT ![s] = AfterRow([@ EXCEPT !.sure = FALSE], NoRow)]
  /\ UNCHANGED <<stage, queue, unfinished, running, worker, rows, spoilt>>

NextPrompt(s) ==
  /\ prompts[s].stage = "done"
  /\ prompts' = [prompts EXCEPT ![s] = Planning]
  /\ UNCHANGED <<stage, queue, unfinished, running, worker, rows, spoilt>>

-----------------------------------------------------------------------------
\* The process ends with what it holds, and starts again; Redis stays.
Restart ==
  /\ stage' = [c \in Calls |-> IF stage[c] \in {"queued", "held"} THEN "gone" ELSE stage[c]]
  /\ queue' = <<>> /\ unfinished' = 0
  /\ running' = {} /\ worker' = [t \in Threads |-> IdleWorker]
  /\ prompts' = [s \in Sessions |-> Planning]
  /\ UNCHANGED <<rows, spoilt>>

\* TTL_USAGE passes without a new call of this session and agent.
Expire(k) ==
  /\ rows[k] # NoRow
  /\ rows' = [rows EXCEPT ![k] = NoRow]
  /\ spoilt' = spoilt \cup {k}
  /\ UNCHANGED <<stage, queue, unfinished, running, worker, prompts>>

Next ==
  \/ \E c \in Calls : LogSuccess(c) \/ LogNothing(c)
  \/ \E t \in Threads : Take(t) \/ TaskDone(t)
  \/ \E t \in Threads, c \in Calls : GetRow(t, c) \/ SetRow(t, c)
  \/ \E s \in Sessions : \/ BeginFlush(s) \/ Joined(s) \/ FlushTimesOut(s)
                         \/ ReadRow(s) \/ NextPrompt(s)
  \/ Restart
  \/ \E k \in Keys : Expire(k)

Spec == Init /\ [][Next]_vars

-----------------------------------------------------------------------------
\* A row sums up the stored calls of its session and agent, each once, and no
\* other, as long as no get or set of the worker failed on it: two additions
\* never start from the same row (_write_usage, and the lock around
\* _usage_worker_started).
UsageConserved ==
  \A k \in Keys \ spoilt, c \in Calls :
    rows[k][c] = IF KeyOf(c) = k /\ stage[c] = "stored" THEN 1 ELSE 0

\* flush_usage_events: "Wait for callback events already queued by LiteLLM to
\* reach Redis."  When it did not time out and Redis answered, the summary shows
\* the user every call that was queued when it began, if AGENT_LAYERS has its agent.
SummaryComplete ==
  \A s \in Sessions : \A c \in prompts[s].due :
    (/\ prompts[s].stage = "done" /\ prompts[s].sure
     /\ KeyOf(c) \notin spoilt
     /\ \E i \in DOMAIN Layers : Layers[i] = AgentOf[c])
      => prompts[s].found[AgentOf[c]][c] = 1
=============================================================================
