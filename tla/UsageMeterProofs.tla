--------------------------- MODULE UsageMeterProofs ---------------------------
(***************************************************************************)
(* Usage is conserved and a summary that waited for the queue is complete, *)
(* for every set of calls, sessions, agents and threads.                   *)
(*                                                                         *)
(* That the rows are right is not inductive: it rests on a row in hand     *)
(* being the row in Redis (CopiesFresh), which rests on there being one    *)
(* worker (OneWorker), and on an event in hand being on no queue and in no *)
(* row (QueueFresh). A summary rests on knowing where each call is that no *)
(* row has (Located), and on the count of unfinished tasks, which is zero  *)
(* only when nothing is on the queue or in hand (Counted).                 *)
(***************************************************************************)
EXTENDS UsageMeter, TLAPS, SequenceTheorems

Rows == [Calls -> Nat]

Workers == [at : {"idle", "get", "set", "close"}, call : SUBSET Calls, row : Rows]

MeterType ==
  /\ stage \in [Calls -> Stages]
  /\ queue \in Seq(Calls)
  /\ running \in SUBSET Threads
  /\ worker \in [Threads -> Workers]
  /\ rows \in [Keys -> Rows]

OneWorker ==
  /\ \A t, u \in running : t = u
  /\ \A t \in Threads \ running : worker[t].at = "idle"

QueueFresh ==
  /\ \A i \in 1..Len(queue) : stage[queue[i]] = "queued"
  /\ \A i, j \in 1..Len(queue) : queue[i] = queue[j] => i = j

CopyFresh(t, c) ==
  worker[t].at \in {"get", "set"} /\ worker[t].call = {c} =>
    /\ stage[c] = "held"
    /\ worker[t].at = "set" /\ KeyOf(c) \notin spoilt => worker[t].row = rows[KeyOf(c)]

CopiesFresh == \A t \in Threads, c \in Calls : CopyFresh(t, c)

MeterInv == MeterType /\ OneWorker /\ QueueFresh /\ CopiesFresh /\ UsageConserved

LEMMA NoRowType == NoRow \in Rows
  BY DEF NoRow, Rows

LEMMA KeyType == \A c \in Calls : KeyOf(c) \in Keys
  BY CallsAssumption DEF KeyOf, Keys

LEMMA IdleType == IdleWorker \in Workers
  BY NoRowType DEF IdleWorker, Workers

LEMMA MeterInit == Init => MeterInv
  <1> SUFFICES ASSUME Init PROVE MeterInv
    OBVIOUS
  <1>1. MeterType
    BY NoRowType, IdleType DEF Init, MeterType, Stages
  <1>2. OneWorker /\ CopiesFresh
    BY DEF Init, OneWorker, CopiesFresh, CopyFresh, IdleWorker
  <1>3. QueueFresh
    BY DEF Init, QueueFresh
  <1>4. UsageConserved
    BY DEF Init, UsageConserved, NoRow
  <1>5. QED
    BY <1>1, <1>2, <1>3, <1>4 DEF MeterInv

\* A new event has been seen by no worker and is in no row.
LEMMA LogSuccessStep ==
  ASSUME MeterInv, NEW c \in Calls, LogSuccess(c)
  PROVE  MeterInv'
  <1>1. /\ stage[c] = "pending"
        /\ stage' = [stage EXCEPT ![c] = "queued"]
        /\ queue' = Append(queue, c)
        /\ UNCHANGED <<worker, rows, spoilt>>
    BY DEF LogSuccess
  <1>2. MeterType /\ OneWorker /\ QueueFresh /\ CopiesFresh /\ UsageConserved
    BY DEF MeterInv
  <1>3. running' \in SUBSET Threads /\ OneWorker'
    <2>1. running' = running \/ (running = {} /\ \E t \in Threads : running' = {t})
      <3>1. running' \in Started
        BY DEF LogSuccess
      <3>2. CASE running # {}
        BY <3>1, <3>2 DEF Started
      <3>3. CASE running = {}
        <4>1. running' \in {{t} : t \in Threads}
          BY <3>1, <3>3 DEF Started
        <4>2. QED
          BY <3>3, <4>1
      <3>4. QED
        BY <3>2, <3>3
    <2>2. CASE running' = running
      BY <1>1, <1>2, <2>2 DEF OneWorker, MeterType
    <2>3. CASE running = {} /\ \E t \in Threads : running' = {t}
      <3>1. PICK t \in Threads : running' = {t}
        BY <2>3
      <3>2. QED
        BY <1>1, <1>2, <2>3, <3>1 DEF OneWorker
    <2>4. QED
      BY <2>1, <2>2, <2>3
  <1>4. MeterType'
    BY <1>1, <1>2, <1>3 DEF MeterType, Stages
  <1>5. QueueFresh'
    <2>1. /\ Len(queue') = Len(queue) + 1
          /\ \A i \in 1..Len(queue) : queue'[i] = queue[i] /\ queue[i] \in Calls /\ queue[i] # c
          /\ queue'[Len(queue) + 1] = c
          /\ Len(queue) \in Nat
      BY <1>1, <1>2 DEF MeterType, QueueFresh
    <2>2. \A i \in 1..Len(queue') : stage'[queue'[i]] = "queued"
      BY <1>1, <1>2, <2>1 DEF MeterType, QueueFresh
    <2>3. \A i, j \in 1..Len(queue') : queue'[i] = queue'[j] => i = j
      BY <1>2, <2>1 DEF QueueFresh
    <2>4. QED
      BY <2>2, <2>3 DEF QueueFresh
  <1>6. CopiesFresh'
    BY <1>1, <1>2 DEF CopiesFresh, CopyFresh, MeterType, KeyOf
  <1>7. UsageConserved'
    BY <1>1, <1>2 DEF UsageConserved, MeterType, KeyOf
  <1>8. QED
    BY <1>3, <1>4, <1>5, <1>6, <1>7 DEF MeterInv

LEMMA LogNothingStep ==
  ASSUME MeterInv, NEW c \in Calls, LogNothing(c)
  PROVE  MeterInv'
  <1>1. /\ stage[c] = "pending"
        /\ stage' = [stage EXCEPT ![c] = "gone"]
        /\ UNCHANGED <<queue, running, worker, rows, spoilt>>
    BY DEF LogNothing
  <1>2. MeterType /\ OneWorker /\ QueueFresh /\ CopiesFresh /\ UsageConserved
    BY DEF MeterInv
  <1>3. MeterType' /\ OneWorker'
    BY <1>1, <1>2 DEF MeterType, OneWorker, Stages
  <1>4. QueueFresh'
    BY <1>1, <1>2 DEF QueueFresh, MeterType
  <1>5. CopiesFresh'
    BY <1>1, <1>2 DEF CopiesFresh, CopyFresh, MeterType, KeyOf
  <1>6. UsageConserved'
    BY <1>1, <1>2 DEF UsageConserved, MeterType, KeyOf
  <1>7. QED
    BY <1>3, <1>4, <1>5, <1>6 DEF MeterInv

\* Whoever takes a running worker's step is the only one with an event in hand.
LEMMA OthersIdle ==
  ASSUME MeterInv, NEW t \in running, NEW u \in Threads, u # t
  PROVE  worker[u].at = "idle"
  BY DEF MeterInv, OneWorker

LEMMA TakeStep ==
  ASSUME MeterInv, NEW t \in Threads, Take(t)
  PROVE  MeterInv'
  <1> DEFINE c == Head(queue)
  <1>1. /\ t \in running /\ queue # <<>>
        /\ worker' = [worker EXCEPT ![t] = [worker[t] EXCEPT !.at = "get", !.call = {c}]]
        /\ stage' = [stage EXCEPT ![c] = "held"]
        /\ queue' = Tail(queue)
        /\ UNCHANGED <<running, rows, spoilt>>
    BY DEF Take
  <1>2. MeterType /\ OneWorker /\ QueueFresh /\ CopiesFresh /\ UsageConserved
    BY DEF MeterInv
  <1>3. /\ Len(queue) \in Nat \ {0} /\ c = queue[1] /\ c \in Calls
        /\ queue' \in Seq(Calls) /\ Len(queue') = Len(queue) - 1
        /\ \A i \in 1..Len(queue') : queue'[i] = queue[i + 1] /\ queue[i + 1] \in Calls
    BY <1>1, <1>2 DEF MeterType
  <1>4. stage[c] = "queued" /\ \A i \in 1..Len(queue') : queue'[i] # c
    BY <1>2, <1>3 DEF QueueFresh
  <1>5. worker' \in [Threads -> Workers]
    <2>1. [worker[t] EXCEPT !.at = "get", !.call = {c}] \in Workers
      <3>1. worker[t] \in Workers /\ {c} \in SUBSET Calls
        BY <1>2, <1>3 DEF MeterType
      <3>2. QED
        BY <3>1 DEF Workers
    <2>2. QED
      BY <1>1, <1>2, <2>1 DEF MeterType
  <1>6. MeterType'
    BY <1>1, <1>2, <1>3, <1>5 DEF MeterType, Stages
  <1>7. OneWorker'
    BY <1>1, <1>2 DEF OneWorker, MeterType
  <1>8. QueueFresh'
    <2>1. \A i \in 1..Len(queue') : stage'[queue'[i]] = "queued"
      BY <1>1, <1>2, <1>3, <1>4 DEF QueueFresh, MeterType
    <2>2. \A i, j \in 1..Len(queue') : queue'[i] = queue'[j] => i = j
      BY <1>2, <1>3 DEF QueueFresh
    <2>3. QED
      BY <2>1, <2>2 DEF QueueFresh
  <1>9. CopiesFresh'
    <2> SUFFICES ASSUME NEW u \in Threads, NEW d \in Calls PROVE CopyFresh(u, d)'
      BY DEF CopiesFresh
    <2>1. CASE u = t
      <3>1. worker'[t].at = "get" /\ worker'[t].call = {c} /\ stage'[c] = "held"
        BY <1>1, <1>2, <1>3 DEF MeterType, Workers
      <3>2. QED
        BY <2>1, <3>1 DEF CopyFresh
    <2>2. CASE u # t
      BY <1>1, <1>2, <2>2, OthersIdle DEF CopyFresh, MeterType
    <2>3. QED
      BY <2>1, <2>2
  <1>10. UsageConserved'
    BY <1>1, <1>2, <1>3, <1>4 DEF UsageConserved, MeterType, KeyOf
  <1>11. QED
    BY <1>6, <1>7, <1>8, <1>9, <1>10 DEF MeterInv

LEMMA GetRowStep ==
  ASSUME MeterInv, NEW t \in Threads, NEW c \in Calls, GetRow(t, c)
  PROVE  MeterInv'
  <1>1. PICK row \in Rows :
          /\ worker' = [worker EXCEPT ![t] = [worker[t] EXCEPT !.at = "set", !.row = row]]
          /\ \/ row = rows[KeyOf(c)] /\ spoilt' = spoilt
             \/ spoilt' = spoilt \cup {KeyOf(c)}
    BY NoRowType, KeyType DEF GetRow, MeterInv, MeterType
  <1>2. /\ t \in running /\ worker[t].at = "get" /\ worker[t].call = {c}
        /\ UNCHANGED <<stage, queue, running, rows>>
    BY DEF GetRow
  <1>3. MeterType /\ OneWorker /\ QueueFresh /\ CopiesFresh /\ UsageConserved
    BY DEF MeterInv
  <1>4. MeterType'
    <2>1. [worker[t] EXCEPT !.at = "set", !.row = row] \in Workers
      BY <1>3 DEF MeterType, Workers
    <2>2. QED
      BY <1>1, <1>2, <1>3, <2>1 DEF MeterType
  <1>5. OneWorker' /\ QueueFresh'
    BY <1>1, <1>2, <1>3 DEF OneWorker, QueueFresh, MeterType
  <1>6. CopiesFresh'
    <2> SUFFICES ASSUME NEW u \in Threads, NEW d \in Calls PROVE CopyFresh(u, d)'
      BY DEF CopiesFresh
    <2>1. CASE u = t
      <3>1. worker'[t].call = {c} /\ worker'[t].row = row /\ stage'[c] = "held"
        BY <1>1, <1>2, <1>3 DEF MeterType, Workers, CopiesFresh, CopyFresh
      <3>2. KeyOf(c) \notin spoilt' => row = rows'[KeyOf(c)]
        BY <1>1, <1>2
      <3>3. QED
        BY <2>1, <3>1, <3>2 DEF CopyFresh, KeyOf
    <2>2. CASE u # t
      BY <1>1, <1>2, <1>3, <2>2, OthersIdle DEF CopyFresh, MeterType
    <2>3. QED
      BY <2>1, <2>2
  <1>7. UsageConserved'
    BY <1>1, <1>2, <1>3 DEF UsageConserved, KeyOf
  <1>8. QED
    BY <1>4, <1>5, <1>6, <1>7 DEF MeterInv

\* The row read is still the row in Redis when it is written back, grown by one.
LEMMA SetRowStep ==
  ASSUME MeterInv, NEW t \in Threads, NEW c \in Calls, SetRow(t, c)
  PROVE  MeterInv'
  <1>1. /\ t \in running /\ worker[t].at = "set" /\ worker[t].call = {c}
        /\ worker' = [worker EXCEPT ![t].at = "close"]
        /\ UNCHANGED <<queue, running>>
    BY DEF SetRow
  <1>2. MeterType /\ OneWorker /\ QueueFresh /\ CopiesFresh /\ UsageConserved
    BY DEF MeterInv
  <1>3. /\ stage[c] = "held"
        /\ KeyOf(c) \notin spoilt => worker[t].row = rows[KeyOf(c)]
        /\ worker[t].row \in Rows
    BY <1>1, <1>2 DEF CopiesFresh, CopyFresh, MeterType, Workers
  <1>4. PICK s \in {"stored", "lost"} : stage' = [stage EXCEPT ![c] = s]
    BY DEF SetRow
  <1>5. worker' \in [Threads -> Workers]
    <2>1. [worker[t] EXCEPT !.at = "close"] \in Workers
      BY <1>2 DEF MeterType, Workers
    <2>2. QED
      BY <1>1, <1>2, <2>1 DEF MeterType
  <1>6. rows' \in [Keys -> Rows]
    <2>1. Added(worker[t].row, c) \in Rows
      BY <1>3 DEF Added, Rows
    <2>2. QED
      BY <1>2, <2>1, KeyType DEF SetRow, MeterType
  <1>7. MeterType'
    BY <1>1, <1>2, <1>4, <1>5, <1>6 DEF MeterType, Stages
  <1>8. OneWorker' /\ QueueFresh'
    BY <1>1, <1>2, <1>3, <1>4 DEF OneWorker, QueueFresh, MeterType
  <1>9. CopiesFresh'
    <2> SUFFICES ASSUME NEW u \in Threads, NEW d \in Calls PROVE CopyFresh(u, d)'
      BY DEF CopiesFresh
    <2>1. CASE u = t
      BY <1>1, <1>2, <2>1 DEF CopyFresh, MeterType, Workers
    <2>2. CASE u # t
      BY <1>1, <1>2, <2>2, OthersIdle DEF CopyFresh, MeterType
    <2>3. QED
      BY <2>1, <2>2
  <1>10. UsageConserved'
    <2>1. CASE /\ rows' = [rows EXCEPT ![KeyOf(c)] = Added(worker[t].row, c)]
               /\ stage' = [stage EXCEPT ![c] = "stored"]
               /\ UNCHANGED spoilt
      <3>1. /\ rows' = [rows EXCEPT ![KeyOf(c)] = Added(worker[t].row, c)]
            /\ stage' = [stage EXCEPT ![c] = "stored"]
        BY <2>1
      <3>2. SUFFICES ASSUME NEW k \in Keys \ spoilt, NEW d \in Calls
                     PROVE  rows'[k][d] = IF KeyOf(d) = k /\ stage'[d] = "stored" THEN 1 ELSE 0
        BY <2>1 DEF UsageConserved, KeyOf
      <3>3. CASE k = KeyOf(c)
        <4>1. rows'[k] = [rows[k] EXCEPT ![c] = @ + 1]
          BY <1>2, <1>3, <3>1, <3>3 DEF Added, MeterType
        <4>2. rows[k] \in Rows
          BY <1>2 DEF MeterType
        <4>3. rows[k][d] = IF KeyOf(d) = k /\ stage[d] = "stored" THEN 1 ELSE 0
          BY <1>2 DEF UsageConserved
        <4>4. CASE d = c
          <5>1. rows[k][c] = 0
            BY <1>3, <4>3, <4>4
          <5>2. rows'[k][c] = 1
            BY <4>1, <4>2, <5>1 DEF Rows
          <5>3. stage'[c] = "stored"
            BY <1>2, <3>1 DEF MeterType
          <5>4. QED
            BY <3>3, <4>4, <5>2, <5>3
        <4>5. CASE d # c
          BY <1>2, <3>1, <4>1, <4>2, <4>3, <4>5 DEF Rows, MeterType
        <4>6. QED
          BY <4>4, <4>5
      <3>4. CASE k # KeyOf(c)
        BY <1>2, <3>1, <3>4 DEF UsageConserved, MeterType
      <3>5. QED
        BY <3>3, <3>4
    <2>2. CASE UNCHANGED rows /\ spoilt' = spoilt \cup {KeyOf(c)}
      BY <1>2, <1>4, <2>2 DEF UsageConserved, MeterType, KeyOf
    <2>3. QED
      BY <2>1, <2>2 DEF SetRow
  <1>11. QED
    BY <1>7, <1>8, <1>9, <1>10 DEF MeterInv

LEMMA TaskDoneStep ==
  ASSUME MeterInv, NEW t \in Threads, TaskDone(t)
  PROVE  MeterInv'
  <1>1. /\ worker' = [worker EXCEPT ![t] = IdleWorker]
        /\ UNCHANGED <<stage, queue, running, rows, spoilt>>
    BY DEF TaskDone
  <1>2. MeterType /\ OneWorker /\ QueueFresh /\ CopiesFresh /\ UsageConserved
    BY DEF MeterInv
  <1>3. MeterType'
    BY <1>1, <1>2, IdleType DEF MeterType
  <1>4. OneWorker' /\ QueueFresh' /\ UsageConserved'
    BY <1>1, <1>2 DEF OneWorker, QueueFresh, UsageConserved, MeterType, IdleWorker, KeyOf
  <1>5. CopiesFresh'
    BY <1>1, <1>2 DEF CopiesFresh, CopyFresh, MeterType, IdleWorker, KeyOf
  <1>6. QED
    BY <1>3, <1>4, <1>5 DEF MeterInv

LEMMA RestartStep ==
  ASSUME MeterInv, Restart
  PROVE  MeterInv'
  <1>1. /\ stage' = [c \in Calls |-> IF stage[c] \in {"queued", "held"} THEN "gone" ELSE stage[c]]
        /\ queue' = <<>> /\ running' = {} /\ worker' = [t \in Threads |-> IdleWorker]
        /\ UNCHANGED <<rows, spoilt>>
    BY DEF Restart
  <1>2. MeterType /\ UsageConserved
    BY DEF MeterInv
  <1>3. MeterType'
    BY <1>1, <1>2, IdleType DEF MeterType, Stages
  <1>4. OneWorker' /\ QueueFresh' /\ CopiesFresh'
    BY <1>1 DEF OneWorker, QueueFresh, CopiesFresh, CopyFresh, IdleWorker
  <1>5. UsageConserved'
    BY <1>1, <1>2 DEF UsageConserved, KeyOf
  <1>6. QED
    BY <1>3, <1>4, <1>5 DEF MeterInv

LEMMA ExpireStep ==
  ASSUME MeterInv, NEW k \in Keys, Expire(k)
  PROVE  MeterInv'
  <1>1. /\ rows' = [rows EXCEPT ![k] = NoRow]
        /\ spoilt' = spoilt \cup {k}
        /\ UNCHANGED <<stage, queue, running, worker>>
    BY DEF Expire
  <1>2. MeterType /\ OneWorker /\ QueueFresh /\ CopiesFresh /\ UsageConserved
    BY DEF MeterInv
  <1>3. MeterType' /\ OneWorker' /\ QueueFresh'
    BY <1>1, <1>2, NoRowType DEF MeterType, OneWorker, QueueFresh
  <1>4. CopiesFresh'
    BY <1>1, <1>2, KeyType DEF CopiesFresh, CopyFresh, MeterType, KeyOf
  <1>5. UsageConserved'
    BY <1>1, <1>2 DEF UsageConserved, MeterType, KeyOf
  <1>6. QED
    BY <1>3, <1>4, <1>5 DEF MeterInv

LEMMA MeterStep ==
  ASSUME MeterInv, [Next]_vars
  PROVE  MeterInv'
  <1>1. ASSUME NEW s \in Sessions,
               BeginFlush(s) \/ Joined(s) \/ FlushTimesOut(s) \/ ReadRow(s) \/ NextPrompt(s)
        PROVE  UNCHANGED <<stage, queue, running, worker, rows, spoilt>>
    BY <1>1 DEF BeginFlush, Joined, FlushTimesOut, ReadRow, NextPrompt
  <1>2. ASSUME UNCHANGED <<stage, queue, running, worker, rows, spoilt>>
        PROVE  MeterInv'
    BY <1>2 DEF MeterInv, MeterType, OneWorker, QueueFresh, CopiesFresh, CopyFresh,
       UsageConserved, KeyOf
  <1>3. CASE UNCHANGED vars
    BY <1>2, <1>3 DEF vars
  <1>4. QED
    BY <1>1, <1>2, <1>3, LogSuccessStep, LogNothingStep, TakeStep, GetRowStep, SetRowStep,
       TaskDoneStep, RestartStep, ExpireStep DEF Next

\* However the callbacks, the worker, failures of Redis and restarts interleave,
\* a row on which nothing failed is the sum of the stored calls of its session
\* and agent.
THEOREM UsageConservedHolds == Spec => []UsageConserved
  <1>1. MeterInv => UsageConserved
    BY DEF MeterInv
  <1>2. QED
    BY <1>1, MeterInit, MeterStep, PTL DEF Spec

-----------------------------------------------------------------------------
(***************************************************************************)
(* The summary of a prompt.  That a summary which is sure of itself misses *)
(* nothing rests on the count that Queue.join waits for being the events   *)
(* on the queue and the one in hand (Counted), on every call that is not   *)
(* settled being one of those (Located), and on what is read meanwhile     *)
(* being the rows UsageConserved speaks of (PromptSound).                  *)
(***************************************************************************)

Prompts == [stage : {"planning", "joining", "reading", "done"}, sure : BOOLEAN, attempt : Nat,
            next : 1..Len(Layers), found : [Agents -> Rows], due : SUBSET Calls]

SummaryType == prompts \in [Sessions -> Prompts] /\ unfinished \in Int

InHand == IF \E t \in Threads : worker[t].at # "idle" THEN 1 ELSE 0

Counted == unfinished = Len(queue) + InHand

Queued(c) == \E i \in 1..Len(queue) : queue[i] = c

Held(c) == \E t \in Threads : worker[t].at \in {"get", "set"} /\ worker[t].call = {c}

Located ==
  \A c \in Calls :
    /\ stage[c] = "queued" => Queued(c)
    /\ stage[c] = "held" => Held(c)
    /\ stage[c] = "lost" => KeyOf(c) \in spoilt

Settled == {"stored", "lost"}

\* What has been read of call c.
Read(p, c) ==
  \A i \in 1..Len(Layers) :
    Layers[i] = AgentOf[c] /\ (p.stage = "done" \/ i < p.next) => p.found[AgentOf[c]][c] = 1

\* What a prompt waits for before it starts to read.
DueSound(s) ==
  /\ \A c \in prompts[s].due : SessionOf[c] = s /\ stage[c] \in Settled \cup {"queued", "held"}
  /\ prompts[s].stage \in {"planning", "joining"} => prompts[s].next = 1

\* What a prompt that is sure has waited for, and read.
SureSound(s) ==
  prompts[s].sure =>
    /\ prompts[s].stage \in {"reading", "done"}
    /\ \A c \in prompts[s].due :
         /\ stage[c] \in Settled
         /\ KeyOf(c) \notin spoilt => Read(prompts[s], c)

PromptsSound == \A s \in Sessions : DueSound(s) /\ SureSound(s)

SummaryInv == SummaryType /\ Counted /\ Located /\ PromptsSound

LEMMA LayersType ==
  Len(Layers) \in Nat \ {0} /\ \A i \in 1..Len(Layers) : Layers[i] \in Agents
  <1>1. Layers \in Seq(Agents) /\ Layers # <<>>
    BY LayersAssumption
  <1>2. QED
    BY <1>1, ElementOfSeq, EmptySeq, LenProperties

LEMMA PlanningType == Planning \in Prompts
  BY NoRowType, LayersType, LayersAssumption DEF Planning, Prompts, NothingFound

LEMMA SummaryInit == Init => SummaryInv
  <1> SUFFICES ASSUME Init PROVE SummaryInv
    OBVIOUS
  <1>1. SummaryType
    BY PlanningType DEF Init, SummaryType
  <1>2. Counted
    BY DEF Init, Counted, InHand, IdleWorker
  <1>3. Located
    BY DEF Init, Located
  <1>4. PromptsSound
    BY DEF Init, PromptsSound, DueSound, SureSound, Planning
  <1>5. QED
    BY <1>1, <1>2, <1>3, <1>4 DEF SummaryInv

\* The prompts are sound after a step that settles calls, and leaves those
\* alone that are settled.
LEMMA PromptsKept ==
  ASSUME PromptsSound, UNCHANGED prompts, spoilt \subseteq spoilt',
         \A c \in Calls :
           /\ stage[c] \in Settled => stage'[c] \in Settled
           /\ stage[c] \in {"queued", "held"} => stage'[c] \in Settled \cup {"queued", "held"},
         SummaryType
  PROVE  PromptsSound'
  <1> SUFFICES ASSUME NEW s \in Sessions PROVE DueSound(s)' /\ SureSound(s)'
    BY DEF PromptsSound
  <1>1. DueSound(s) /\ SureSound(s) /\ prompts[s].due \subseteq Calls
    BY DEF PromptsSound, SummaryType, Prompts
  <1>2. DueSound(s)'
    BY <1>1 DEF DueSound
  <1>3. prompts' = prompts /\ \A c \in Calls : KeyOf(c)' = KeyOf(c) /\ Read(prompts[s], c)' = Read(prompts[s], c)
    BY DEF Read, KeyOf
  <1>4. SureSound(s)'
    BY <1>1, <1>3, Zenon DEF SureSound
  <1>5. QED
    BY <1>2, <1>4

LEMMA SummaryLog ==
  ASSUME MeterInv, SummaryInv, NEW c \in Calls, LogSuccess(c) \/ LogNothing(c)
  PROVE  SummaryInv'
  <1>1. MeterType /\ SummaryType /\ Counted /\ Located /\ PromptsSound
    BY DEF MeterInv, SummaryInv
  <1>2. /\ stage[c] = "pending"
        /\ \E new \in {"queued", "gone"} : stage' = [stage EXCEPT ![c] = new]
        /\ UNCHANGED <<worker, prompts, spoilt>>
    BY DEF LogSuccess, LogNothing
  <1>3. SummaryType' /\ Counted' /\ Located'
    <2>1. CASE LogSuccess(c)
      <3>1. /\ queue' = Append(queue, c) /\ unfinished' = unfinished + 1
            /\ stage' = [stage EXCEPT ![c] = "queued"]
        BY <2>1 DEF LogSuccess
      <3>2. /\ Len(queue') = Len(queue) + 1 /\ Len(queue) \in Nat
            /\ \A i \in 1..Len(queue) : queue'[i] = queue[i]
            /\ queue'[Len(queue) + 1] = c
        BY <1>1, <3>1 DEF MeterType
      <3>3. SummaryType' /\ Counted'
        BY <1>1, <1>2, <3>1, <3>2 DEF SummaryType, Counted, InHand
      <3>4. Queued(c)' /\ \A d \in Calls : Queued(d) => Queued(d)'
        BY <3>2 DEF Queued
      <3>5. Located'
        BY <1>1, <1>2, <3>1, <3>4 DEF Located, Held, MeterType, KeyOf
      <3>6. QED
        BY <3>3, <3>5
    <2>2. CASE LogNothing(c)
      <3>1. UNCHANGED <<queue, unfinished>> /\ stage' = [stage EXCEPT ![c] = "gone"]
        BY <2>2 DEF LogNothing
      <3>2. SummaryType' /\ Counted'
        BY <1>1, <1>2, <3>1 DEF SummaryType, Counted, InHand
      <3>3. \A d \in Calls : (Queued(d) => Queued(d)') /\ (Held(d) => Held(d)')
        BY <1>2, <3>1 DEF Queued, Held
      <3>4. Located'
        BY <1>1, <1>2, <3>1, <3>3 DEF Located, MeterType, KeyOf
      <3>5. QED
        BY <3>2, <3>4
    <2>3. QED
      BY <2>1, <2>2
  <1>4. PromptsSound'
    BY <1>1, <1>2, PromptsKept DEF MeterType, Settled
  <1>5. QED
    BY <1>3, <1>4 DEF SummaryInv

LEMMA SummaryTake ==
  ASSUME MeterInv, SummaryInv, NEW t \in Threads, Take(t)
  PROVE  SummaryInv'
  <1> DEFINE c == Head(queue)
  <1>1. /\ t \in running /\ worker[t].at = "idle" /\ queue # <<>>
        /\ worker' = [worker EXCEPT ![t] = [worker[t] EXCEPT !.at = "get", !.call = {c}]]
        /\ stage' = [stage EXCEPT ![c] = "held"]
        /\ queue' = Tail(queue)
        /\ UNCHANGED <<unfinished, prompts, spoilt>>
    BY DEF Take
  <1>2. /\ MeterType /\ QueueFresh
        /\ SummaryType /\ Counted /\ Located /\ PromptsSound
    BY DEF MeterInv, SummaryInv
  <1>3. /\ Len(queue) \in Nat \ {0} /\ c = queue[1] /\ c \in Calls
        /\ Len(queue') = Len(queue) - 1
        /\ \A i \in 1..Len(queue') : queue'[i] = queue[i + 1]
    BY <1>1, <1>2 DEF MeterType
  <1>4. stage[c] = "queued"
    BY <1>2, <1>3 DEF QueueFresh
  <1>5. \A u \in Threads : worker[u].at = "idle"
    BY <1>1, OthersIdle
  <1>6. worker'[t].at = "get" /\ worker'[t].call = {c}
    BY <1>1, <1>2 DEF MeterType, Workers
  <1>7. SummaryType' /\ Counted'
    BY <1>1, <1>2, <1>3, <1>5, <1>6 DEF SummaryType, Counted, InHand
  <1>8. Located'
    <2> SUFFICES ASSUME NEW d \in Calls
                 PROVE  /\ stage'[d] = "queued" => Queued(d)'
                        /\ stage'[d] = "held" => Held(d)'
                        /\ stage'[d] = "lost" => KeyOf(d)' \in spoilt'
      BY DEF Located
    <2>1. CASE d = c
      BY <1>1, <1>2, <1>6, <2>1 DEF MeterType, Held
    <2>2. CASE d # c
      <3>1. stage'[d] = stage[d] /\ stage[d] # "held"
        BY <1>1, <1>2, <1>5, <2>2 DEF MeterType, Located, Held
      <3>2. ASSUME Queued(d) PROVE Queued(d)'
        <4>1. PICK i \in 1..Len(queue) : queue[i] = d
          BY <3>2 DEF Queued
        <4>2. i # 1
          BY <1>3, <2>2, <4>1
        <4>3. i - 1 \in 1..Len(queue') /\ queue'[i - 1] = d
          BY <1>3, <4>1, <4>2
        <4>4. QED
          BY <4>3 DEF Queued
      <3>3. QED
        BY <1>1, <1>2, <3>1, <3>2 DEF Located, KeyOf
    <2>3. QED
      BY <2>1, <2>2
  <1>9. PromptsSound'
    BY <1>1, <1>2, <1>3, <1>4, PromptsKept DEF MeterType, Settled
  <1>10. QED
    BY <1>7, <1>8, <1>9 DEF SummaryInv

LEMMA SummaryGetRow ==
  ASSUME MeterInv, SummaryInv, NEW t \in Threads, NEW c \in Calls, GetRow(t, c)
  PROVE  SummaryInv'
  <1>1. PICK row \in Rows :
          /\ worker' = [worker EXCEPT ![t] = [worker[t] EXCEPT !.at = "set", !.row = row]]
          /\ spoilt \subseteq spoilt'
    BY NoRowType, KeyType DEF GetRow, MeterInv, MeterType
  <1>2. /\ worker[t].at = "get" /\ worker[t].call = {c}
        /\ UNCHANGED <<stage, queue, unfinished, prompts>>
    BY DEF GetRow
  <1>3. MeterType /\ SummaryType /\ Counted /\ Located /\ PromptsSound
    BY DEF MeterInv, SummaryInv
  <1>4. /\ worker'[t].at = "set" /\ worker'[t].call = worker[t].call
        /\ \A u \in Threads \ {t} : worker'[u] = worker[u]
    BY <1>1, <1>3 DEF MeterType, Workers
  <1>5. SummaryType' /\ Counted'
    BY <1>2, <1>3, <1>4 DEF SummaryType, Counted, InHand
  <1>6. \A d \in Calls : Held(d) => Held(d)'
    BY <1>2, <1>4 DEF Held
  <1>7. Located'
    BY <1>1, <1>2, <1>3, <1>6 DEF Located, Queued, KeyOf
  <1>8. PromptsSound'
    BY <1>1, <1>2, <1>3, PromptsKept DEF Settled
  <1>9. QED
    BY <1>5, <1>7, <1>8 DEF SummaryInv

LEMMA SummarySetRow ==
  ASSUME MeterInv, SummaryInv, NEW t \in Threads, NEW c \in Calls, SetRow(t, c)
  PROVE  SummaryInv'
  <1>1. /\ worker[t].at = "set" /\ worker[t].call = {c}
        /\ worker' = [worker EXCEPT ![t].at = "close"]
        /\ UNCHANGED <<queue, unfinished, prompts>>
    BY DEF SetRow
  <1>2. MeterType /\ CopiesFresh /\ SummaryType /\ Counted /\ Located /\ PromptsSound
    BY DEF MeterInv, SummaryInv
  <1>3. PICK new \in Settled :
          /\ stage' = [stage EXCEPT ![c] = new]
          /\ spoilt \subseteq spoilt'
          /\ new = "lost" => KeyOf(c) \in spoilt'
    BY DEF SetRow, Settled
  <1>4. stage[c] = "held"
    BY <1>1, <1>2 DEF CopiesFresh, CopyFresh
  <1>5. worker'[t].at = "close" /\ \A u \in Threads \ {t} : worker'[u] = worker[u]
    BY <1>1, <1>2 DEF MeterType, Workers
  <1>6. SummaryType' /\ Counted'
    BY <1>1, <1>2, <1>5 DEF SummaryType, Counted, InHand
  <1>7. \A d \in Calls \ {c} : Held(d) => Held(d)'
    <2> SUFFICES ASSUME NEW d \in Calls \ {c}, Held(d) PROVE Held(d)'
      OBVIOUS
    <2>1. PICK u \in Threads : worker[u].at \in {"get", "set"} /\ worker[u].call = {d}
      BY DEF Held
    <2>2. u # t
      BY <1>1, <2>1
    <2>3. QED
      BY <1>5, <2>1, <2>2 DEF Held
  <1>8. Located'
    <2> SUFFICES ASSUME NEW d \in Calls
                 PROVE  /\ stage'[d] = "queued" => Queued(d)'
                        /\ stage'[d] = "held" => Held(d)'
                        /\ stage'[d] = "lost" => KeyOf(d)' \in spoilt'
      BY DEF Located
    <2>1. CASE d = c
      BY <1>2, <1>3, <2>1 DEF MeterType, Settled, KeyOf
    <2>2. CASE d # c
      BY <1>1, <1>2, <1>3, <1>7, <2>2 DEF MeterType, Located, Queued, KeyOf
    <2>3. QED
      BY <2>1, <2>2
  <1>9. PromptsSound'
    BY <1>1, <1>2, <1>3, <1>4, PromptsKept DEF MeterType, Settled
  <1>10. QED
    BY <1>6, <1>8, <1>9 DEF SummaryInv

LEMMA SummaryTaskDone ==
  ASSUME MeterInv, SummaryInv, NEW t \in Threads, TaskDone(t)
  PROVE  SummaryInv'
  <1>1. /\ t \in running /\ worker[t].at = "close"
        /\ worker' = [worker EXCEPT ![t] = IdleWorker]
        /\ unfinished' = unfinished - 1
        /\ UNCHANGED <<stage, queue, prompts, spoilt>>
    BY DEF TaskDone
  <1>2. MeterType /\ SummaryType /\ Counted /\ Located /\ PromptsSound
    BY DEF MeterInv, SummaryInv
  <1>3. \A u \in Threads : worker'[u].at = "idle"
    BY <1>1, <1>2, OthersIdle DEF MeterType, IdleWorker
  <1>4. SummaryType' /\ Counted'
    BY <1>1, <1>2, <1>3 DEF SummaryType, Counted, InHand, MeterType
  <1>5. \A d \in Calls : ~Held(d)
    BY <1>1, OthersIdle DEF Held
  <1>6. Located'
    BY <1>1, <1>2, <1>5 DEF Located, Queued, KeyOf
  <1>7. PromptsSound'
    BY <1>1, <1>2, PromptsKept DEF Settled
  <1>8. QED
    BY <1>4, <1>6, <1>7 DEF SummaryInv

LEMMA SummaryRestart ==
  ASSUME MeterInv, SummaryInv, Restart
  PROVE  SummaryInv'
  <1>1. /\ stage' = [c \in Calls |-> IF stage[c] \in {"queued", "held"} THEN "gone" ELSE stage[c]]
        /\ queue' = <<>> /\ unfinished' = 0
        /\ worker' = [t \in Threads |-> IdleWorker]
        /\ prompts' = [s \in Sessions |-> Planning]
        /\ UNCHANGED spoilt
    BY DEF Restart
  <1>2. SummaryType' /\ Counted'
    BY <1>1, PlanningType DEF SummaryType, Counted, InHand, IdleWorker
  <1>3. Located'
    BY <1>1 DEF SummaryInv, Located, KeyOf
  <1>4. PromptsSound'
    BY <1>1 DEF PromptsSound, DueSound, SureSound, Planning
  <1>5. QED
    BY <1>2, <1>3, <1>4 DEF SummaryInv

LEMMA SummaryExpire ==
  ASSUME MeterInv, SummaryInv, NEW k \in Keys, Expire(k)
  PROVE  SummaryInv'
  <1>1. /\ spoilt \subseteq spoilt'
        /\ UNCHANGED <<stage, queue, unfinished, worker, prompts>>
    BY DEF Expire
  <1>2. SummaryType' /\ Counted'
    BY <1>1 DEF SummaryInv, SummaryType, Counted, InHand
  <1>3. Located'
    BY <1>1 DEF SummaryInv, Located, Queued, Held, KeyOf
  <1>4. PromptsSound'
    BY <1>1, PromptsKept DEF SummaryInv, Settled
  <1>5. QED
    BY <1>2, <1>3, <1>4 DEF SummaryInv

\* A step of session s's prompt to p, which is sound on its own, and of nothing
\* else but prompts.
LEMMA SummaryOfOne ==
  ASSUME SummaryInv, NEW s \in Sessions, NEW p \in Prompts,
         prompts' = [prompts EXCEPT ![s] = p],
         UNCHANGED <<stage, queue, unfinished, worker, spoilt>>,
         DueSound(s)', SureSound(s)'
  PROVE  SummaryInv'
  <1>1. SummaryType' /\ Counted'
    BY DEF SummaryInv, SummaryType, Counted, InHand
  <1>2. Located'
    BY DEF SummaryInv, Located, Queued, Held, KeyOf
  <1>3. PromptsSound'
    <2> SUFFICES ASSUME NEW u \in Sessions, u # s PROVE DueSound(u)' /\ SureSound(u)'
      BY DEF PromptsSound
    <2>1. prompts'[u] = prompts[u] /\ DueSound(u) /\ SureSound(u)
      BY DEF SummaryInv, SummaryType, PromptsSound
    <2>2. DueSound(u)'
      BY <2>1 DEF DueSound
    <2>3. \A c : KeyOf(c)' = KeyOf(c) /\ Read(prompts[u], c)' = Read(prompts'[u], c)
      BY DEF KeyOf, Read
    <2>4. stage' = stage /\ spoilt' = spoilt
      OBVIOUS
    <2>5. SureSound(u)'
      BY <2>1, <2>3, <2>4, Zenon DEF SureSound
    <2>6. QED
      BY <2>2, <2>5
  <1>4. QED
    BY <1>1, <1>2, <1>3 DEF SummaryInv

LEMMA SummaryBeginFlush ==
  ASSUME MeterInv, SummaryInv, NEW s \in Sessions, BeginFlush(s)
  PROVE  SummaryInv'
  <1> DEFINE due == {c \in Calls : SessionOf[c] = s /\ stage[c] \in {"queued", "held", "stored"}}
             p == [prompts[s] EXCEPT !.stage = "joining", !.due = due]
  <1>1. /\ prompts[s].stage = "planning"
        /\ prompts' = [prompts EXCEPT ![s] = p]
        /\ UNCHANGED <<stage, queue, unfinished, worker, spoilt>>
    BY DEF BeginFlush
  <1>2. prompts[s] \in Prompts /\ DueSound(s) /\ SureSound(s) /\ prompts \in [Sessions -> Prompts]
    BY DEF SummaryInv, SummaryType, PromptsSound
  <1>3. p \in Prompts
    BY <1>2 DEF Prompts
  <1>4. ~prompts[s].sure
    BY <1>1, <1>2 DEF SureSound
  <1>5. prompts'[s] = p /\ p.due = due /\ p.next = prompts[s].next /\ p.sure = prompts[s].sure
    BY <1>1, <1>2 DEF Prompts
  <1>6. DueSound(s)'
    BY <1>1, <1>2, <1>5 DEF DueSound, Settled
  <1>7. SureSound(s)'
    <2>1. ~prompts'[s].sure
      BY <1>4, <1>5, Zenon
    <2>2. QED
      BY <2>1 DEF SureSound
  <1> HIDE DEF p
  <1>8. QED
    BY <1>1, <1>3, <1>6, <1>7, SummaryOfOne

\* When every event is accounted for, no call is left on the way.
LEMMA JoinedSettles ==
  ASSUME MeterInv, SummaryInv, AllDone, NEW c \in Calls
  PROVE  stage[c] \notin {"queued", "held"}
  <1>1. Len(queue) \in Nat /\ unfinished = Len(queue) + InHand /\ unfinished = 0
    BY DEF MeterInv, MeterType, SummaryInv, Counted, AllDone
  <1>2. Len(queue) = 0 /\ InHand = 0
    BY <1>1 DEF InHand
  <1>3. ~Queued(c)
    BY <1>2 DEF Queued
  <1>4. ~Held(c)
    BY <1>2 DEF InHand, Held
  <1>5. QED
    BY <1>3, <1>4 DEF SummaryInv, Located

LEMMA SummaryJoined ==
  ASSUME MeterInv, SummaryInv, NEW s \in Sessions, Joined(s)
  PROVE  SummaryInv'
  <1> DEFINE p == [prompts[s] EXCEPT !.stage = "reading", !.sure = TRUE]
  <1>1. /\ prompts[s].stage = "joining" /\ AllDone
        /\ prompts' = [prompts EXCEPT ![s] = p]
        /\ UNCHANGED <<stage, queue, unfinished, worker, spoilt>>
    BY DEF Joined
  <1>2. prompts[s] \in Prompts /\ DueSound(s) /\ prompts \in [Sessions -> Prompts]
    BY DEF SummaryInv, SummaryType, PromptsSound
  <1>3. p \in Prompts
    BY <1>2 DEF Prompts
  <1>4. prompts'[s] = p /\ p.due = prompts[s].due /\ p.stage = "reading" /\ p.next = prompts[s].next
    BY <1>1, <1>2 DEF Prompts
  <1>5. DueSound(s)'
    BY <1>1, <1>2, <1>4 DEF DueSound
  <1>6. SureSound(s)'
    <2>1. p.due \subseteq Calls /\ \A c \in p.due : stage'[c] \in Settled
      BY <1>1, <1>2, <1>4, JoinedSettles DEF DueSound, Prompts
    <2>2. p.next = 1
      BY <1>1, <1>2, <1>4 DEF DueSound
    <2>3. QED
      BY <1>4, <2>1, <2>2 DEF SureSound, Read
  <1> HIDE DEF p
  <1>7. QED
    BY <1>1, <1>3, <1>5, <1>6, SummaryOfOne

\* What one row adds to a summary: it has now read one agent more, and a second
\* look starts from the first agent with what the first look found.
LEMMA AfterRowReads ==
  ASSUME NEW p \in Prompts, p.stage = "reading", NEW row \in Rows
  PROVE  /\ AfterRow(p, row) \in Prompts
         /\ AfterRow(p, row).stage \in {"reading", "done"}
         /\ AfterRow(p, row).due = p.due /\ AfterRow(p, row).sure = p.sure
         /\ \A c \in Calls :
              Read(p, c) /\ (Layers[p.next] = AgentOf[c] => row[c] = 1) => Read(AfterRow(p, row), c)
  <1> DEFINE found == [p.found EXCEPT ![Layers[p.next]] = row]
             onward == [p EXCEPT !.next = p.next + 1, !.found = found]
             ended == [p EXCEPT !.stage = "done", !.found = found]
             again == [p EXCEPT !.attempt = p.attempt + 1, !.next = 1]
  <1>1. /\ p.next \in 1..Len(Layers) /\ Len(Layers) \in Nat \ {0} /\ Layers[p.next] \in Agents
        /\ p.found \in [Agents -> Rows] /\ p.attempt \in Nat
    BY LayersType DEF Prompts
  <1>2. found \in [Agents -> Rows]
    BY <1>1
  <1>3. \/ p.next < Len(Layers) /\ AfterRow(p, row) = onward
        \/ p.next = Len(Layers) /\ AfterRow(p, row) = ended
        \/ AfterRow(p, row) = again
    BY <1>1 DEF AfterRow
  <1>4. ASSUME NEW c \in Calls, Layers[p.next] = AgentOf[c] => row[c] = 1,
               NEW i \in 1..Len(Layers), Layers[i] = AgentOf[c],
               i <= p.next, i < p.next => p.found[AgentOf[c]][c] = 1
        PROVE  found[AgentOf[c]][c] = 1
    <2>1. CASE Layers[p.next] = AgentOf[c]
      BY <1>1, <1>4, <2>1
    <2>2. CASE Layers[p.next] # AgentOf[c]
      <3>1. i < p.next
        BY <1>1, <1>4, <2>2
      <3>2. found[AgentOf[c]] = p.found[AgentOf[c]]
        BY <1>1, <2>2, CallsAssumption
      <3>3. QED
        BY <1>4, <3>1, <3>2
    <2>3. QED
      BY <2>1, <2>2
  <1> HIDE DEF found
  <1>5. CASE p.next < Len(Layers) /\ AfterRow(p, row) = onward
    <2>0. p.next + 1 \in 1..Len(Layers)
      BY <1>1, <1>5
    <2>1. /\ onward \in Prompts /\ onward.stage = "reading" /\ onward.due = p.due
          /\ onward.next = p.next + 1 /\ onward.found = found
      BY <1>2, <2>0 DEF Prompts
    <2>2. onward.sure = p.sure
      BY DEF Prompts
    <2>3. ASSUME NEW c \in Calls, Read(p, c), Layers[p.next] = AgentOf[c] => row[c] = 1
          PROVE  Read(onward, c)
      <3> SUFFICES ASSUME NEW i \in 1..Len(Layers), Layers[i] = AgentOf[c], i < p.next + 1
                   PROVE  found[AgentOf[c]][c] = 1
        BY <2>1 DEF Read
      <3>1. i <= p.next /\ (i < p.next => p.found[AgentOf[c]][c] = 1)
        BY <1>1, <2>3 DEF Read
      <3>2. QED
        BY <1>4, <2>3, <3>1
    <2> HIDE DEF onward
    <2>4. QED
      BY <1>5, <2>1, <2>2, <2>3
  <1>6. CASE p.next = Len(Layers) /\ AfterRow(p, row) = ended
    <2>1. /\ ended \in Prompts /\ ended.stage = "done" /\ ended.due = p.due
          /\ ended.found = found
      BY <1>1, <1>2 DEF Prompts
    <2>2. ended.sure = p.sure
      BY DEF Prompts
    <2>3. ASSUME NEW c \in Calls, Read(p, c), Layers[p.next] = AgentOf[c] => row[c] = 1
          PROVE  Read(ended, c)
      <3> SUFFICES ASSUME NEW i \in 1..Len(Layers), Layers[i] = AgentOf[c]
                   PROVE  found[AgentOf[c]][c] = 1
        BY <2>1 DEF Read
      <3>1. i <= p.next /\ (i < p.next => p.found[AgentOf[c]][c] = 1)
        BY <1>1, <1>6, <2>3 DEF Read
      <3>2. QED
        BY <1>4, <2>3, <3>1
    <2> HIDE DEF ended
    <2>4. QED
      BY <1>6, <2>1, <2>2, <2>3
  <1>7. CASE AfterRow(p, row) = again
    <2>0. 1 \in 1..Len(Layers) /\ p.attempt + 1 \in Nat
      BY <1>1
    <2>1. /\ again \in Prompts /\ again.stage = "reading" /\ again.due = p.due
          /\ again.next = 1
      BY <2>0 DEF Prompts
    <2>2. again.sure = p.sure
      BY DEF Prompts
    <2>3. \A c \in Calls : Read(again, c)
      BY <1>1, <2>1 DEF Read
    <2> HIDE DEF again
    <2>4. QED
      BY <1>7, <2>1, <2>2, <2>3
  <1>8. QED
    BY <1>3, <1>5, <1>6, <1>7

LEMMA SummaryReadRow ==
  ASSUME MeterInv, SummaryInv, NEW s \in Sessions, ReadRow(s)
  PROVE  SummaryInv'
  <1>1. /\ prompts[s].stage = "reading"
        /\ UNCHANGED <<stage, queue, unfinished, worker, spoilt>>
    BY DEF ReadRow
  <1>2. /\ prompts[s] \in Prompts /\ prompts \in [Sessions -> Prompts]
        /\ DueSound(s) /\ SureSound(s)
    BY DEF SummaryInv, SummaryType, PromptsSound
  <1>3. ASSUME NEW p \in Prompts, p.stage = "reading", p.due = prompts[s].due,
               NEW row \in Rows, prompts' = [prompts EXCEPT ![s] = AfterRow(p, row)],
               p.sure => \A c \in p.due :
                 /\ stage[c] \in Settled
                 /\ KeyOf(c) \notin spoilt =>
                      Read(p, c) /\ (Layers[p.next] = AgentOf[c] => row[c] = 1)
        PROVE  SummaryInv'
    <2> DEFINE q == AfterRow(p, row)
    <2>1. /\ q \in Prompts /\ q.stage \in {"reading", "done"} /\ q.due = p.due
          /\ q.sure = p.sure
      BY <1>3, AfterRowReads
    <2>2. \A c \in Calls :
            Read(p, c) /\ (Layers[p.next] = AgentOf[c] => row[c] = 1) => Read(q, c)
      BY <1>3, AfterRowReads
    <2> HIDE DEF q
    <2>3. prompts'[s] = q
      BY <1>2, <1>3 DEF q
    <2>4. DueSound(s)'
      BY <1>1, <1>2, <1>3, <2>1, <2>3 DEF DueSound
    <2>5. p.due \subseteq Calls
      BY DEF Prompts
    <2>6. SureSound(s)'
      <3>1. q.sure => \A c \in q.due :
                        /\ stage[c] \in Settled
                        /\ KeyOf(c) \notin spoilt => Read(q, c)
        BY <1>3, <2>1, <2>2, <2>5, Zenon
      <3>2. stage' = stage /\ spoilt' = spoilt
        BY <1>1
      <3>3. \A c : KeyOf(c)' = KeyOf(c) /\ Read(prompts[s], c)' = Read(q, c)
        BY <2>3 DEF KeyOf, Read
      <3>4. QED
        BY <2>1, <2>3, <3>1, <3>2, <3>3, Zenon DEF SureSound
    <2>7. QED
      BY <1>1, <1>3, <2>1, <2>4, <2>6, SummaryOfOne DEF q
  <1>4. CASE prompts' = [prompts EXCEPT ![s] =
                           AfterRow(prompts[s], rows[<<s, Layers[prompts[s].next]>>])]
    <2> DEFINE p == prompts[s]
               row == rows[<<s, Layers[p.next]>>]
    <2>1. p.next \in 1..Len(Layers) /\ Layers[p.next] \in Agents /\ p.due \subseteq Calls
      BY <1>2, LayersType DEF Prompts
    <2>2. row \in Rows
      BY <2>1 DEF MeterInv, MeterType, Keys
    <2>3. ASSUME p.sure, NEW c \in p.due
          PROVE  /\ stage[c] \in Settled
                 /\ KeyOf(c) \notin spoilt =>
                      Read(p, c) /\ (Layers[p.next] = AgentOf[c] => row[c] = 1)
      <3>1. stage[c] \in Settled /\ (KeyOf(c) \notin spoilt => Read(p, c))
        BY <1>2, <2>3 DEF SureSound
      <3>2. ASSUME KeyOf(c) \notin spoilt, Layers[p.next] = AgentOf[c] PROVE row[c] = 1
        <4>1. c \in Calls /\ SessionOf[c] = s
          BY <1>2, <2>1 DEF DueSound
        <4>2. KeyOf(c) = <<s, Layers[p.next]>> /\ KeyOf(c) \in Keys
          BY <3>2, <4>1, KeyType DEF KeyOf
        <4>3. stage[c] = "stored"
          BY <3>1, <3>2, <4>1 DEF Settled, SummaryInv, Located
        <4>4. QED
          BY <3>2, <4>1, <4>2, <4>3 DEF MeterInv, UsageConserved
      <3>3. QED
        BY <3>1, <3>2
    <2>4. p.sure => \A c \in p.due :
                      /\ stage[c] \in Settled
                      /\ KeyOf(c) \notin spoilt =>
                           Read(p, c) /\ (Layers[p.next] = AgentOf[c] => row[c] = 1)
      BY <2>3
    <2>5. prompts' = [prompts EXCEPT ![s] = AfterRow(p, row)] /\ p \in Prompts /\ p.stage = "reading"
          /\ p.due = prompts[s].due
      BY <1>1, <1>2, <1>4
    <2> HIDE DEF p, row
    <2>6. QED
      BY <1>3, <2>2, <2>4, <2>5
  <1>5. CASE prompts' = [prompts EXCEPT ![s] =
                           AfterRow([prompts[s] EXCEPT !.sure = FALSE], NoRow)]
    <2> DEFINE p == [prompts[s] EXCEPT !.sure = FALSE]
    <2>1. p \in Prompts /\ p.stage = "reading" /\ p.due = prompts[s].due
      BY <1>1, <1>2 DEF Prompts
    <2>2. ~p.sure
      BY <1>2 DEF Prompts
    <2>3. prompts' = [prompts EXCEPT ![s] = AfterRow(p, NoRow)]
      BY <1>5
    <2> HIDE DEF p
    <2>4. QED
      BY <1>3, <2>1, <2>2, <2>3, NoRowType
  <1>6. QED
    BY <1>4, <1>5 DEF ReadRow

\* A prompt that gives up waiting is not sure, and the next one starts afresh.
LEMMA SummaryMovesOn ==
  ASSUME MeterInv, SummaryInv, NEW s \in Sessions, FlushTimesOut(s) \/ NextPrompt(s)
  PROVE  SummaryInv'
  <1>1. UNCHANGED <<stage, queue, unfinished, worker, spoilt>>
    BY DEF FlushTimesOut, NextPrompt
  <1>2. /\ prompts[s] \in Prompts /\ prompts \in [Sessions -> Prompts]
        /\ DueSound(s) /\ SureSound(s)
    BY DEF SummaryInv, SummaryType, PromptsSound
  <1>3. CASE FlushTimesOut(s)
    <2> DEFINE p == [prompts[s] EXCEPT !.stage = "reading"]
    <2>1. prompts[s].stage = "joining" /\ prompts' = [prompts EXCEPT ![s] = p]
      BY <1>3 DEF FlushTimesOut
    <2>2. p \in Prompts
      BY <1>2 DEF Prompts
    <2>3. p.due = prompts[s].due /\ p.stage = "reading" /\ p.sure = prompts[s].sure
      BY <1>2 DEF Prompts
    <2>4. prompts'[s] = p
      BY <1>2, <2>1
    <2>5. ~prompts[s].sure
      BY <1>2, <2>1 DEF SureSound
    <2> HIDE DEF p
    <2>6. DueSound(s)'
      BY <1>1, <1>2, <2>3, <2>4 DEF DueSound
    <2>7. ~prompts'[s].sure
      BY <2>3, <2>4, <2>5, Zenon
    <2>8. SureSound(s)'
      BY <2>7 DEF SureSound
    <2>9. QED
      BY <1>1, <2>1, <2>2, <2>6, <2>8, SummaryOfOne
  <1>4. CASE NextPrompt(s)
    <2>1. prompts' = [prompts EXCEPT ![s] = Planning] /\ prompts'[s] = Planning
      BY <1>2, <1>4 DEF NextPrompt
    <2>2. DueSound(s)' /\ SureSound(s)'
      BY <2>1 DEF DueSound, SureSound, Planning
    <2>3. QED
      BY <1>1, <2>1, <2>2, PlanningType, SummaryOfOne
  <1>5. QED
    BY <1>3, <1>4

LEMMA SummaryStep ==
  ASSUME MeterInv, SummaryInv, [Next]_vars
  PROVE  SummaryInv'
  <1>1. CASE UNCHANGED vars
    BY <1>1 DEF vars, SummaryInv, SummaryType, Counted, InHand, Located, Queued, Held, KeyOf,
       PromptsSound, DueSound, SureSound, Read
  <1>2. QED
    BY <1>1, SummaryLog, SummaryTake, SummaryGetRow, SummarySetRow, SummaryTaskDone,
       SummaryBeginFlush, SummaryJoined, SummaryMovesOn, SummaryReadRow, SummaryRestart,
       SummaryExpire DEF Next

\* A summary for which the queue was joined and Redis answered shows every call
\* that was under way when the prompt ended, for every number of worker threads
\* that might have been started, of agents and of second looks.
THEOREM SummaryCompleteHolds == Spec => []SummaryComplete
  <1>1. SummaryInv => SummaryComplete
    <2> SUFFICES ASSUME SummaryInv, NEW s \in Sessions, NEW c \in prompts[s].due,
                        prompts[s].stage = "done", prompts[s].sure, KeyOf(c) \notin spoilt,
                        NEW i \in DOMAIN Layers, Layers[i] = AgentOf[c]
                 PROVE  prompts[s].found[AgentOf[c]][c] = 1
      BY DEF SummaryComplete
    <2>1. i \in 1..Len(Layers)
      BY LayersAssumption
    <2>2. Read(prompts[s], c)
      BY DEF SummaryInv, PromptsSound, SureSound
    <2>3. QED
      BY <2>1, <2>2 DEF Read
  <1>2. QED
    BY <1>1, MeterInit, MeterStep, SummaryInit, SummaryStep, PTL DEF Spec
=============================================================================
