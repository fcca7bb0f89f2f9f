--------------------------- MODULE TripSessionProofs ---------------------------
(***************************************************************************)
(* Proofs about TripSession, for every set of streams, any number of pages *)
(* and any number of pauses, lost database calls and restarts.             *)
(***************************************************************************)
EXTENDS TripSession, SequenceTheorems, TLAPS

\* The types that the registry depends on.
RegistryType ==
  /\ pc \in [Streams -> Places]
  /\ newest \in Maybe

RegistryInv == RegistryType /\ RegistrySound

\* Moving a stream between places keeps its life, unless it starts or ends.
LEMMA GoKeepsRegistry ==
  ASSUME RegistryInv, NEW s \in Streams, NEW place \in Places, Go(s, place),
         place \in Registered <=> Live(s), UNCHANGED <<registry, newest>>
  PROVE  RegistryInv'
  <1>1. \A t \in Streams : Live(t)' <=> Live(t)
    BY DEF Go, Live, RegistryInv, RegistryType
  <1>2. pc' \in [Streams -> Places]
    BY DEF Go, RegistryInv, RegistryType
  <1>3. QED
    BY <1>1, <1>2 DEF RegistryInv, RegistryType, RegistrySound, Maybe

\* register() makes the stream the newest one and a live one.
LEMMA RegisterKeepsRegistry ==
  ASSUME RegistryInv, NEW s \in Streams, NEW place \in Registered,
         Go(s, place), Register(s)
  PROVE  RegistryInv'
  <1>1. pc' \in [Streams -> Places] /\ pc'[s] = place
    BY DEF Go, RegistryInv, RegistryType, Places
  <1>2. QED
    BY <1>1, NoneAssumption DEF Register, Live, RegistryInv, RegistryType, RegistrySound, Maybe

\* unregister() takes the entry of the newest stream only when it is its own.
LEMMA EndKeepsRegistry ==
  ASSUME RegistryInv, NEW s \in Streams, End(s), newest' = newest
  PROVE  RegistryInv'
  <1>1. pc' \in [Streams -> Places] /\ ~Live(s)'
    BY DEF End, Live, RegistryInv, RegistryType, Places, Registered
  <1>2. CASE newest = s
    BY <1>1, <1>2, NoneAssumption DEF End, RegistryInv, RegistryType, RegistrySound
  <1>3. CASE newest # s
    <2>1. registry # s
      BY <1>3, NoneAssumption DEF RegistryInv, RegistrySound
    <2>2. newest # None => (Live(newest)' <=> Live(newest))
      BY <1>3 DEF End, Live, RegistryInv, RegistryType, Maybe
    <2>3. QED
      BY <1>1, <2>1, <2>2 DEF End, RegistryInv, RegistryType, RegistrySound
  <1>4. QED
    BY <1>2, <1>3

LEMMA RegistryStep ==
  ASSUME RegistryInv, [Next]_vars
  PROVE  RegistryInv'
  <1> USE DEF Places, Registered
  <1>1. ASSUME NEW s \in Streams, PlanNew(s) \/ PlanFollowUp(s)
        PROVE  RegistryInv'
    BY <1>1, RegisterKeepsRegistry DEF PlanNew, PlanFollowUp
  <1>2. ASSUME NEW s \in Streams, Clarify(s)
        PROVE  RegistryInv'
    BY <1>2, GoKeepsRegistry DEF Clarify, MayRequest, Live
  <1>3. ASSUME NEW s \in Streams, Resume(s)
        PROVE  RegistryInv'
    BY <1>3, RegisterKeepsRegistry DEF Resume
  <1>4. ASSUME NEW s \in Streams, ReadIndex(s) \/ AppendPrompt(s) \/ PersistStub(s) \/ Input(s)
        PROVE  RegistryInv'
    <2>1. UNCHANGED <<registry, newest>>
      BY <1>4 DEF ReadIndex, AppendPrompt, PersistStub, Input, history
    <2>2. PICK place \in Registered : Go(s, place) /\ Live(s)
      BY <1>4 DEF ReadIndex, AppendPrompt, PersistStub, Input, Live
    <2>3. QED
      BY <2>1, <2>2, GoKeepsRegistry
  <1>5. ASSUME NEW s \in Streams, Finish(s) \/ Snapshot(s) \/ Persist(s)
        PROVE  RegistryInv'
    <2>1. UNCHANGED <<registry, newest>>
      BY <1>5 DEF Finish, Snapshot, Persist, history
    <2>2. PICK place \in Registered : Go(s, place) /\ Live(s)
      BY <1>5 DEF Finish, Snapshot, Persist, Live
    <2>3. QED
      BY <2>1, <2>2, GoKeepsRegistry
  <1>6. ASSUME NEW s \in Streams, Pause(s) \/ Complete(s) \/ Abort(s)
        PROVE  RegistryInv'
    BY <1>6, EndKeepsRegistry DEF Pause, Complete, Abort, history
  <1>7. CASE Cancel
    <2>1. registry \in Streams
      BY <1>7, NoneAssumption DEF Cancel, RegistryInv, RegistryType, RegistrySound, Maybe
    <2>2. QED
      BY <1>6, <1>7, <2>1 DEF Cancel
  <1>8. CASE Delete \/ UNCHANGED vars
    BY <1>8 DEF Delete, vars, server, history, RegistryInv, RegistryType, RegistrySound, Live
  <1>9. CASE Restart
    <2>1. /\ pc' = [s \in Streams |-> IF pc[s] = "unused" THEN "unused" ELSE "done"]
          /\ registry' = None /\ newest' = newest
      BY <1>9 DEF Restart, history
    <2>2. pc' \in [Streams -> Places] /\ \A s \in Streams : ~Live(s)'
      BY <2>1 DEF Live
    <2>3. QED
      BY <2>1, <2>2 DEF RegistryInv, RegistryType, RegistrySound, Maybe
  <1>10. QED
    BY <1>1, <1>2, <1>3, <1>4, <1>5, <1>6, <1>7, <1>8, <1>9 DEF Next, Serve, Request, Step

\* However the streams of a session overlap, fail, are cancelled or lose their
\* client, the registry holds the newest stream while it lives, and no task
\* that has ended.
THEOREM RegistryHolds == Spec => []RegistrySound
  <1>1. Init => RegistryInv
    BY DEF Init, RegistryInv, RegistryType, RegistrySound, Maybe, Places
  <1>2. RegistryInv => RegistrySound
    BY DEF RegistryInv
  <1>3. QED
    BY <1>1, <1>2, RegistryStep, PTL DEF Spec

-----------------------------------------------------------------------------
(***************************************************************************)
(* A session open on one page.  Its streams follow each other, and that    *)
(* makes /cancel and /clarify safe.  Neither property is inductive: what   *)
(* carries them is that at most one request is under way (OneBusy), that a *)
(* live stream is the newest (LiveIsNewest), and that the thread stays     *)
(* paused from the question to the resume, in the saver that holds it      *)
(* (Held, Waiting), of which there is never a second one (SaversKnown).    *)
(***************************************************************************)

BusyAt(s) == pc[s] \notin {"unused", "done"}

OneBusy == \A s, t \in Streams : BusyAt(s) /\ BusyAt(t) => s = t

LiveIsNewest == \A s \in Streams : Live(s) => newest = s

Held ==
  /\ holder = saver => saved.waiting
  /\ holder = Postgres /\ saver # Postgres => durable.waiting

Waiting ==
  /\ asked => ~Busy /\ Held /\ (\E s \in Streams : pc[s] # "unused")
  /\ \A s \in Streams : pc[s] = "routed" => Held /\ ~asked

SaversKnown ==
  /\ process \in Nat /\ holder \in 0..process /\ saver \in 0..process
  /\ durable \in Checkpoints

SerialType ==
  /\ pc \in [Streams -> Places]
  /\ mem \in [Streams -> Checkpoints]
  /\ saved \in Checkpoints

SerialInv == SerialType /\ OneBusy /\ LiveIsNewest /\ Waiting /\ SaversKnown

LEMMA SerialInit ==
  Init => SerialInv
  BY DEF Init, SerialInv, SerialType, OneBusy, LiveIsNewest, Waiting, Busy, BusyAt, Live,
     Places, Registered, Checkpoints, Fresh, Maybe, SaversKnown, Postgres

\* The request of the only page starts when nothing else is under way.
LEMMA SerialRequest ==
  ASSUME ~SeveralPages, SerialInv, NEW s \in Streams, Request(s), UNCHANGED storage
  PROVE  SerialInv'
  <1> USE DEF Places, Registered
  <1>1. \A t \in Streams : ~BusyAt(t)
    <2>1. MayRequest(s)
      BY DEF Request, PlanNew, PlanFollowUp, Clarify
    <2>2. QED
      BY <2>1 DEF MayRequest, Busy, BusyAt
  <1>2. CASE PlanNew(s) \/ PlanFollowUp(s)
    <2>1. /\ pc' = [pc EXCEPT ![s] = "turn"]
          /\ newest' = s
          /\ saved' = saved
          /\ mem' = [mem EXCEPT ![s].query = s]
          /\ holder' = holder
      BY <1>2 DEF PlanNew, PlanFollowUp, Go, Register, client
    <2>2. ~asked'
      <3>1. CASE PlanNew(s)
        BY <3>1 DEF PlanNew, SerialInv, Waiting, client
      <3>2. CASE PlanFollowUp(s)
        BY <3>2 DEF PlanFollowUp
      <3>3. QED
        BY <1>2, <3>1, <3>2
    <2>3. SerialType'
      BY <2>1 DEF SerialInv, SerialType, Checkpoints, Maybe
    <2>4. \A t \in Streams \ {s} : ~BusyAt(t)'
      BY <1>1, <2>1 DEF BusyAt, SerialInv, SerialType
    <2>5. OneBusy' /\ LiveIsNewest'
      BY <2>1, <2>4 DEF OneBusy, LiveIsNewest, Live, BusyAt, SerialInv, SerialType
    <2>6. Waiting'
      BY <2>1, <2>2, <2>4 DEF Waiting, BusyAt, SerialInv, SerialType
    <2>7. SaversKnown'
      BY <2>1 DEF SerialInv, SaversKnown, storage
    <2>8. QED
      BY <2>3, <2>5, <2>6, <2>7 DEF SerialInv
  <1>3. CASE Clarify(s)
    <2>1. /\ pc' = [pc EXCEPT ![s] = "routed"]
          /\ asked /\ asked' = FALSE
          /\ UNCHANGED <<saved, mem, newest, holder>>
      BY <1>3 DEF Clarify, Go
    <2>2. \A t \in Streams \ {s} : ~BusyAt(t)'
      BY <1>1, <2>1 DEF BusyAt, SerialInv, SerialType
    <2>3. Held' /\ SaversKnown'
      BY <2>1 DEF SerialInv, Waiting, Held, SaversKnown, storage
    <2>4. QED
      BY <2>1, <2>2, <2>3 DEF SerialInv, SerialType, OneBusy, LiveIsNewest, Waiting, Live, BusyAt
  <1>4. QED
    BY <1>2, <1>3 DEF Request

\* A step of the stream that is under way.
LEMMA SerialStep ==
  ASSUME SerialInv, NEW s \in Streams, Step(s), UNCHANGED storage
  PROVE  SerialInv'
  <1> USE DEF Places, Registered
  <1>1. BusyAt(s)
    BY DEF Step, Resume, ReadIndex, AppendPrompt, PersistStub, Input, Pause, Finish, Snapshot,
       Persist, Complete, BusyAt
  <1>2. \A t \in Streams \ {s} : ~BusyAt(t)
    BY <1>1 DEF SerialInv, OneBusy
  <1>3. ~asked
    BY <1>1 DEF SerialInv, Waiting, Busy, BusyAt
  <1>4. CASE Resume(s)
    <2>1. /\ pc' = [pc EXCEPT ![s] = "running"]
          /\ newest' = s
          /\ mem' = [mem EXCEPT ![s] = [saved EXCEPT !.waiting = FALSE]]
          /\ UNCHANGED <<saved, asked, holder>>
      BY <1>4 DEF Resume, Go, Register, client
    <2>2. SaversKnown'
      BY <2>1 DEF SerialInv, SaversKnown, storage
    <2>3. SerialType'
      BY <2>1 DEF SerialInv, SerialType, Checkpoints
    <2>4. pc'[s] = "running" /\ \A t \in Streams \ {s} : ~BusyAt(t)'
      BY <2>1, <1>2 DEF SerialInv, SerialType, BusyAt
    <2>5. OneBusy' /\ LiveIsNewest' /\ Waiting'
      BY <2>1, <2>4, <1>3 DEF OneBusy, LiveIsNewest, Waiting, Live, BusyAt
    <2>6. QED
      BY <2>2, <2>3, <2>5 DEF SerialInv
  <1>5. CASE ReadIndex(s) \/ AppendPrompt(s) \/ PersistStub(s) \/ Snapshot(s) \/ Persist(s)
    <2>1. UNCHANGED <<saved, asked, holder, newest>>
      BY <1>5 DEF ReadIndex, AppendPrompt, PersistStub, Snapshot, Persist, client, history
    <2>2. mem' = mem \/ mem' = [mem EXCEPT ![s] = saved]
      BY <1>5 DEF ReadIndex, AppendPrompt, PersistStub, Snapshot, Persist
    <2>3. PICK place \in Registered : pc' = [pc EXCEPT ![s] = place] /\ Live(s)
      BY <1>5 DEF ReadIndex, AppendPrompt, PersistStub, Snapshot, Persist, Go, Live
    <2>4. SerialType' /\ SaversKnown'
      BY <2>1, <2>2, <2>3 DEF SerialInv, SerialType, SaversKnown, storage
    <2>5. QED
      BY <2>1, <2>3, <2>4, <1>2, <1>3 DEF SerialInv, SerialType, OneBusy, LiveIsNewest,
         Waiting, Live, BusyAt
  <1>6. CASE Input(s) \/ Finish(s)
    <2>1. /\ UNCHANGED <<asked, holder, newest>>
          /\ pc[s] \in {"input", "running"}
          /\ pc' = [pc EXCEPT ![s] = IF pc[s] = "input" THEN "running" ELSE "snapshot"]
      BY <1>6 DEF Input, Finish, Go, client, history
    <2>2. saved' \in Checkpoints /\ mem' \in [Streams -> Checkpoints]
      <3>1. CASE Input(s)
        BY <3>1 DEF Input, SerialInv, SerialType, Checkpoints, Maybe
      <3>2. CASE Finish(s)
        BY <3>2 DEF Finish, SerialInv, SerialType, Checkpoints
      <3>3. QED
        BY <1>6, <3>1, <3>2
    <2>3. SaversKnown'
      BY <2>1 DEF SerialInv, SaversKnown, storage
    <2>4. QED
      BY <2>1, <2>2, <2>3, <1>2, <1>3 DEF SerialInv, SerialType, OneBusy, LiveIsNewest, Waiting,
         Live, BusyAt
  <1>7. CASE Pause(s)
    <2>1. /\ pc' = [pc EXCEPT ![s] = "done"]
          /\ saved' = [mem[s] EXCEPT !.waiting = TRUE]
          /\ holder' = saver
          /\ UNCHANGED <<mem, newest>>
      BY <1>7 DEF Pause, End
    <2>2. saved' \in Checkpoints /\ Held' /\ SaversKnown'
      BY <2>1 DEF SerialInv, SerialType, Checkpoints, Held, SaversKnown, storage
    <2>3. \A t \in Streams : ~BusyAt(t)'
      BY <2>1, <1>2 DEF BusyAt, SerialInv, SerialType
    <2>4. QED
      BY <2>1, <2>2, <2>3 DEF SerialInv, SerialType, OneBusy, LiveIsNewest, Waiting, Live,
         BusyAt, Busy
  <1>8. CASE Complete(s)
    <2>1. pc' = [pc EXCEPT ![s] = "done"] /\ UNCHANGED <<mem, saved, newest, asked, holder>>
      BY <1>8 DEF Complete, End
    <2>2. \A t \in Streams : ~BusyAt(t)'
      BY <2>1, <1>2 DEF BusyAt, SerialInv, SerialType
    <2>3. SaversKnown'
      BY <2>1 DEF SerialInv, SaversKnown, storage
    <2>4. QED
      BY <2>1, <2>2, <2>3, <1>3 DEF SerialInv, SerialType, OneBusy, LiveIsNewest, Waiting, Live,
         BusyAt
  <1>9. QED
    BY <1>4, <1>5, <1>6, <1>7, <1>8 DEF Step

LEMMA SerialAbort ==
  ASSUME SerialInv, NEW s \in Streams, Abort(s), UNCHANGED storage
  PROVE  SerialInv'
  <1>1. pc' = [pc EXCEPT ![s] = "done"] /\ UNCHANGED <<mem, saved, newest, asked, holder>>
        /\ BusyAt(s)
    BY DEF Abort, End, Live, Registered, BusyAt, client, history
  <1>2. ~asked /\ (\A t \in Streams \ {s} : ~BusyAt(t))
    BY <1>1 DEF SerialInv, OneBusy, Waiting, Busy, BusyAt
  <1>3. \A t \in Streams : ~BusyAt(t)'
    BY <1>1, <1>2 DEF BusyAt, SerialInv, SerialType
  <1>4. SaversKnown'
    BY <1>1 DEF SerialInv, SaversKnown, storage
  <1>5. QED
    BY <1>1, <1>2, <1>3, <1>4 DEF SerialInv, SerialType, OneBusy, LiveIsNewest, Waiting, Live,
       BusyAt, Registered, Places

\* A restart ends every stream; the question is still where it was held, and a
\* new process's own memory holds none.
LEMMA SerialRestart ==
  ASSUME SerialInv, Restart
  PROVE  SerialInv'
  <1>1. /\ pc' = [s \in Streams |-> IF pc[s] = "unused" THEN "unused" ELSE "done"]
        /\ UNCHANGED <<mem, newest, asked, holder>>
    BY DEF Restart, client, history
  <1>2. \A s \in Streams : ~BusyAt(s)' /\ ~Live(s)'
    BY <1>1 DEF BusyAt, Live, Registered
  <1>3. /\ process' = process + 1 /\ saver' \in {Postgres, process + 1}
        /\ saved' = IF saver' # Postgres THEN Fresh ELSE durable'
        /\ durable' = IF saver = Postgres THEN saved ELSE durable
    BY DEF Restart, Loaded
  <1>4. Fresh \in Checkpoints
    BY DEF Fresh, Checkpoints, Maybe
  <1>5. SerialType' /\ SaversKnown'
    BY <1>1, <1>3, <1>4 DEF SerialInv, SerialType, SaversKnown, Places, Postgres
  <1>6. Held => Held'
    BY <1>1, <1>3 DEF SerialInv, Held, SaversKnown, Postgres
  <1>7. Waiting'
    <2>1. asked' => Held' /\ (\E s \in Streams : pc'[s] # "unused")
      BY <1>1, <1>6 DEF SerialInv, Waiting
    <2>2. QED
      BY <1>1, <1>2, <2>1 DEF Waiting, Busy, BusyAt
  <1>8. QED
    BY <1>2, <1>5, <1>7 DEF SerialInv, OneBusy, LiveIsNewest

LEMMA SerialNext ==
  ASSUME ~SeveralPages, SerialInv, RegistryInv, [Next]_vars
  PROVE  SerialInv'
  <1>1. CASE Cancel /\ UNCHANGED storage
    <2>1. registry \in Streams
      BY <1>1, NoneAssumption DEF Cancel, RegistryInv, RegistryType, RegistrySound, Maybe
    <2>2. QED
      BY <1>1, <2>1, SerialAbort DEF Cancel
  <1>2. CASE (Delete /\ UNCHANGED storage) \/ UNCHANGED vars
    <2>1. UNCHANGED <<pc, mem, saved, newest, asked, holder, process, saver, durable>>
      BY <1>2 DEF Delete, vars, server, client, history, storage
    <2>2. QED
      BY <2>1 DEF SerialInv, SerialType, OneBusy, LiveIsNewest, Waiting, Held, SaversKnown,
         Live, Busy, BusyAt
  <1>3. QED
    BY <1>1, <1>2, SerialRequest, SerialStep, SerialAbort, SerialRestart DEF Next, Serve

\* On one page, /cancel finds the task of every stream that is active.
THEOREM CancelFindsStreamHolds ==
  ASSUME ~SeveralPages
  PROVE  Spec => []CancelFindsStream
  <1>1. SerialInv /\ RegistryInv => CancelFindsStream
    BY NoneAssumption DEF SerialInv, LiveIsNewest, RegistryInv, RegistrySound, CancelFindsStream
  <1>2. Init => RegistryInv
    BY DEF Init, RegistryInv, RegistryType, RegistrySound, Maybe, Places
  <1>3. QED
    BY <1>1, <1>2, SerialInit, SerialNext, RegistryStep, PTL DEF Spec

\* On one page, the answers of a /clarify resume a thread that is still paused
\* at the question it asked, through any number of restarts, whenever the saver
\* that holds the question is the one in use.
THEOREM AnswersReachQuestionHolds ==
  ASSUME ~SeveralPages
  PROVE  Spec => AnswersReachQuestion
  <1>1. SerialInv => [\A s \in Streams : Resume(s) => saved.waiting \/ holder # saver]_vars
    BY DEF SerialInv, Waiting, Held, Resume
  <1>2. Init => RegistryInv
    BY DEF Init, RegistryInv, RegistryType, RegistrySound, Maybe, Places
  <1>3. QED
    BY <1>1, <1>2, SerialInit, SerialNext, RegistryStep, PTL DEF Spec, AnswersReachQuestion

-----------------------------------------------------------------------------
(***************************************************************************)
(* What the tables hold, whatever the number of pages.  Both properties    *)
(* follow a result from the row it is written to until it is shown: the    *)
(* row is that of the stream's own trip id (StoredInv), and the session's  *)
(* first row carries the username (NamedInv).                              *)
(***************************************************************************)

Row == [id : Maybe, itinerary : Maybe, named : BOOLEAN, hidden : BOOLEAN]

StoreType ==
  /\ pc \in [Streams -> Places]
  /\ trip \in [Streams -> Maybe]
  /\ named \in [Streams -> BOOLEAN]
  /\ mem \in [Streams -> Checkpoints]
  /\ saved \in Checkpoints
  /\ durable \in Checkpoints
  /\ rows \in Seq(Row)
  /\ pauses \in Nat
  /\ losses \in Nat

Has(table, id, itinerary) ==
  \E i \in DOMAIN table : table[i].id = id /\ table[i].itinerary = itinerary

HasNamed(table) == \E i \in DOMAIN table : table[i].named

\* While nothing has paused and no call was lost, a stream writes under its own
\* trip id, and what it is about to show, or has shown, is in the row of that id.
OwnRows ==
  /\ ~asked
  /\ \A s \in Streams : pc[s] # "routed"
  /\ \A s \in Streams : pc[s] # "unused" => trip[s] = s
  /\ \A s \in Streams : pc[s] \in {"result", "result_commit"} => Has(rows, s, mem[s].itinerary)
  /\ \A d \in shown : d[1] \in Streams /\ pc[d[1]] = "done" /\ Has(rows, d[1], d[2])

StoredInv == pauses = 0 /\ losses = 0 => OwnRows

\* Until its first row is written a session has only its first stream, which
\* has shown and asked nothing and has the username.
Unlisted ==
  /\ rows = <<>> /\ ~asked /\ shown = {}
  /\ \A s \in Streams : pc[s] # "unused" => IsNew(s)
  /\ \A s \in Streams : pc[s] \in {"unused", "done", "turn", "turn_commit", "stub"}
  /\ \A s \in Streams : pc[s] \in {"turn", "turn_commit", "stub"} => named[s]

NamedInv == losses = 0 => HasNamed(rows) \/ Unlisted

\* What an upsert leaves of the rows that were there, and what it adds.
LEMMA UpsertedRows ==
  ASSUME rows \in Seq(Row), NEW id \in Maybe, NEW it \in Maybe, NEW n \in BOOLEAN
  PROVE  /\ Upserted(id, it, n) \in Seq(Row)
         /\ Has(Upserted(id, it, n), id, it)
         /\ \A i \in DOMAIN rows :
              /\ i \in DOMAIN Upserted(id, it, n)
              /\ Upserted(id, it, n)[i].named = rows[i].named
              /\ rows[i].id # id => Upserted(id, it, n)[i] = rows[i]
         /\ rows = <<>> /\ n => HasNamed(Upserted(id, it, n))
  <1>1. /\ Len(rows) \in Nat /\ DOMAIN rows = 1..Len(rows)
        /\ \A i \in DOMAIN rows : rows[i] \in Row
    OBVIOUS
  <1>2. CASE \E i \in DOMAIN rows : rows[i].id = id
    <2> DEFINE new == [i \in DOMAIN rows |->
                         IF rows[i].id = id THEN [rows[i] EXCEPT !.itinerary = it] ELSE rows[i]]
    <2>1. Upserted(id, it, n) = new
      BY <1>2 DEF Upserted
    <2>2. \A i \in DOMAIN rows : new[i] \in Row /\ new[i].id = rows[i].id
                                 /\ new[i].named = rows[i].named
                                 /\ (rows[i].id = id => new[i].itinerary = it)
                                 /\ (rows[i].id # id => new[i] = rows[i])
      BY <1>1 DEF Row
    <2>3. new \in Seq(Row)
      <3>1. new \in [1..Len(rows) -> Row]
        BY <1>1, <2>2
      <3>2. QED
        BY <1>1, <3>1, SeqDef
    <2>4. DOMAIN new = DOMAIN rows
      OBVIOUS
    <2>5. rows # <<>>
      BY <1>2
    <2> HIDE DEF new
    <2>6. Has(new, id, it)
      BY <1>2, <2>2, <2>4 DEF Has
    <2>7. QED
      BY <2>1, <2>2, <2>3, <2>4, <2>5, <2>6
  <1>3. CASE ~\E i \in DOMAIN rows : rows[i].id = id
    <2> DEFINE row == [id |-> id, itinerary |-> it, named |-> n, hidden |-> FALSE]
    <2>1. Upserted(id, it, n) = Append(rows, row)
      BY <1>3 DEF Upserted
    <2>2. row \in Row /\ row.id = id /\ row.itinerary = it /\ row.named = n
      BY DEF Row
    <2> HIDE DEF row
    <2>3. /\ Append(rows, row) \in Seq(Row)
          /\ Len(Append(rows, row)) = Len(rows) + 1
          /\ \A i \in 1..Len(rows) : Append(rows, row)[i] = rows[i]
          /\ Append(rows, row)[Len(rows) + 1] = row
          /\ DOMAIN Append(rows, row) = 1..(Len(rows) + 1)
      BY <1>1, <2>2
    <2>4. Has(Append(rows, row), id, it)
      BY <1>1, <2>2, <2>3 DEF Has
    <2>5. rows = <<>> /\ n => HasNamed(Append(rows, row))
      <3>1. Append(rows, row)[Len(rows) + 1].named = n /\ Len(rows) + 1 \in DOMAIN Append(rows, row)
        BY <1>1, <2>2, <2>3
      <3>2. QED
        BY <3>1, Zenon DEF HasNamed
    <2>6. QED
      BY <1>1, <2>1, <2>3, <2>4, <2>5
  <1>4. QED
    BY <1>2, <1>3

\* Hiding the rows of a session leaves them and what they hold.
LEMMA DeletedRows ==
  ASSUME rows \in Seq(Row), Delete
  PROVE  /\ rows' \in Seq(Row) /\ DOMAIN rows' = DOMAIN rows
         /\ \A i \in DOMAIN rows : /\ rows'[i].id = rows[i].id
                                   /\ rows'[i].itinerary = rows[i].itinerary
                                   /\ rows'[i].named = rows[i].named
  <1>1. /\ Len(rows) \in Nat /\ DOMAIN rows = 1..Len(rows)
        /\ \A i \in DOMAIN rows : rows[i] \in Row
    OBVIOUS
  <1>2. rows' = [i \in DOMAIN rows |-> [rows[i] EXCEPT !.hidden = TRUE]]
    BY DEF Delete
  <1>3. rows' \in [1..Len(rows) -> Row]
    BY <1>1, <1>2 DEF Row
  <1>4. rows' \in Seq(Row)
    BY <1>1, <1>3, SeqDef
  <1>5. \A i \in DOMAIN rows : /\ rows'[i].id = rows[i].id
                               /\ rows'[i].itinerary = rows[i].itinerary
                               /\ rows'[i].named = rows[i].named
    BY <1>1, <1>2 DEF Row
  <1>6. QED
    BY <1>1, <1>3, <1>4, <1>5

LEMMA StoreInit == Init => StoreType /\ StoredInv /\ NamedInv
  BY DEF Init, StoreType, StoredInv, OwnRows, NamedInv, Unlisted, Places, Registered, Checkpoints, Fresh,
     Maybe, Row

\* The trip id that /clarify takes over is that of a row.
LEMMA LatestType == ASSUME StoreType PROVE LatestTripId \in Maybe
  <1>1. CASE rows = <<>>
    BY <1>1 DEF LatestTripId, Maybe
  <1>2. CASE rows # <<>>
    <2>1. Len(rows) \in 1..Len(rows)
      BY <1>2 DEF StoreType
    <2>2. rows[Len(rows)] \in Row
      BY <2>1, ElementOfSeq DEF StoreType
    <2>3. QED
      BY <1>2, <2>2 DEF LatestTripId, Row
  <1>3. QED
    BY <1>1, <1>2

LEMMA StoreTypeServe ==
  ASSUME StoreType, NEW s \in Streams, Request(s) \/ Step(s) \/ Abort(s), UNCHANGED storage
  PROVE  StoreType'
  <1> USE DEF Places, Registered
  <1>1. mem[s] \in Checkpoints /\ trip[s] \in Maybe /\ named[s] \in BOOLEAN
    BY DEF StoreType
  <1>2. CASE PlanNew(s) \/ PlanFollowUp(s)
    <2>1. [mem[s] EXCEPT !.query = s] \in Checkpoints
      BY <1>1 DEF Checkpoints, Maybe
    <2>2. /\ pc' = [pc EXCEPT ![s] = "turn"] /\ trip' = [trip EXCEPT ![s] = s]
          /\ named' = [named EXCEPT ![s] = TRUE] /\ mem' = [mem EXCEPT ![s] = [mem[s] EXCEPT !.query = s]]
          /\ UNCHANGED <<saved, durable, rows, pauses, losses>>
      BY <1>2 DEF PlanNew, PlanFollowUp, Go, tables, storage
    <2>3. QED
      BY <2>1, <2>2 DEF StoreType, Maybe
  <1>3. CASE Clarify(s)
    <2>1. /\ pc' = [pc EXCEPT ![s] = "routed"]
          /\ trip' = [trip EXCEPT ![s] = LatestTripId] \/ trip' = [trip EXCEPT ![s] = s]
          /\ losses' = losses \/ losses' = losses + 1
          /\ UNCHANGED <<named, mem, saved, durable, rows, pauses>>
      BY <1>3 DEF Clarify, Go, Lose, tables, storage
    <2>2. QED
      BY <2>1, LatestType DEF StoreType, Maybe
  <1>4. CASE Resume(s)
    <2>1. [saved EXCEPT !.waiting = FALSE] \in Checkpoints
      BY DEF StoreType, Checkpoints
    <2>2. QED
      BY <1>4, <2>1 DEF Resume, Go, StoreType, tables, storage
  <1>5. CASE ReadIndex(s) \/ AppendPrompt(s) \/ Complete(s) \/ Abort(s)
    <2>1. /\ \E place \in Places : pc' = [pc EXCEPT ![s] = place]
          /\ losses' = losses \/ losses' = losses + 1
          /\ UNCHANGED <<trip, named, mem, saved, durable, rows, pauses>>
      BY <1>5 DEF ReadIndex, AppendPrompt, AppendTurn, Lose, Complete, Abort, End, Go, tables,
         storage, history
    <2>2. QED
      BY <2>1 DEF StoreType
  <1>6. CASE PersistStub(s)
    <2>1. None \in Maybe
      BY DEF Maybe
    <2>2. Upserted(trip[s], None, named[s]) \in Seq(Row)
      BY <1>1, <2>1, UpsertedRows DEF StoreType
    <2>3. QED
      BY <1>6, <2>2 DEF PersistStub, Lose, Go, StoreType, storage
  <1>7. CASE Input(s)
    <2>1. saved' \in Checkpoints /\ mem' = [mem EXCEPT ![s] = saved']
      BY <1>7 DEF Input, StoreType, Checkpoints, Maybe
    <2>2. QED
      BY <1>7, <2>1 DEF Input, Go, StoreType, tables, storage, history
  <1>8. CASE Pause(s) \/ Finish(s)
    <2>1. saved' \in Checkpoints
      <3>1. CASE Pause(s)
        BY <1>1, <3>1 DEF Pause, Checkpoints
      <3>2. CASE Finish(s)
        BY <1>1, <3>2 DEF Finish, Checkpoints
      <3>3. QED
        BY <1>8, <3>1, <3>2
    <2>2. QED
      BY <1>8, <2>1 DEF Pause, Finish, End, Go, StoreType, tables, storage, history
  <1>9. CASE Snapshot(s)
    BY <1>9 DEF Snapshot, Go, StoreType, tables, storage, history
  <1>10. CASE Persist(s)
    <2>1. mem[s].itinerary \in Maybe
      BY <1>1 DEF Checkpoints
    <2>2. Upserted(trip[s], mem[s].itinerary, named[s]) \in Seq(Row)
      BY <1>1, <2>1, UpsertedRows DEF StoreType
    <2>3. QED
      BY <1>10, <2>2 DEF Persist, Lose, Go, StoreType, storage
  <1>11. QED
    BY <1>2, <1>3, <1>4, <1>5, <1>6, <1>7, <1>8, <1>9, <1>10 DEF Request, Step

LEMMA StoreTypeNext ==
  ASSUME StoreType, RegistryInv, [Next]_vars
  PROVE  StoreType'
  <1>1. CASE Cancel /\ UNCHANGED storage
    <2>1. registry \in Streams
      BY <1>1, NoneAssumption DEF Cancel, RegistryInv, RegistryType, RegistrySound, Maybe
    <2>2. QED
      BY <1>1, <2>1, StoreTypeServe DEF Cancel
  <1>2. CASE Delete /\ UNCHANGED storage
    <2>1. rows' \in Seq(Row)
      BY <1>2, DeletedRows DEF Delete, StoreType
    <2>2. QED
      BY <1>2, <2>1 DEF Delete, server, history, storage, StoreType
  <1>3. CASE Restart
    <2>1. Fresh \in Checkpoints
      BY DEF Fresh, Checkpoints, Maybe
    <2>2. saved' \in Checkpoints /\ durable' \in Checkpoints
      BY <1>3, <2>1 DEF Restart, Loaded, StoreType
    <2>3. pc' \in [Streams -> Places]
      BY <1>3 DEF Restart, Places
    <2>4. QED
      BY <1>3, <2>2, <2>3 DEF Restart, StoreType, tables, history
  <1>4. CASE UNCHANGED vars
    BY <1>4 DEF vars, server, tables, history, storage, StoreType
  <1>5. QED
    BY <1>1, <1>2, <1>3, <1>4, StoreTypeServe DEF Next, Serve

\* A row of another stream is not touched by an upsert under trip id s.
LEMMA HasKept ==
  ASSUME rows \in Seq(Row), NEW s \in Maybe, NEW it \in Maybe, NEW n \in BOOLEAN,
         NEW id, NEW x, id # s, Has(rows, id, x)
  PROVE  Has(Upserted(s, it, n), id, x)
  <1>1. PICK i \in DOMAIN rows : rows[i].id = id /\ rows[i].itinerary = x
    BY DEF Has
  <1>2. i \in DOMAIN Upserted(s, it, n) /\ Upserted(s, it, n)[i] = rows[i]
    BY <1>1, UpsertedRows
  <1>3. QED
    BY <1>1, <1>2 DEF Has

LEMMA OwnRowsServe ==
  ASSUME StoreType, OwnRows, NEW s \in Streams, Request(s) \/ Step(s) \/ Abort(s),
         pauses' = pauses, losses' = losses
  PROVE  OwnRows'
  <1> USE DEF Places, Registered
  <1>1. ~Clarify(s) /\ ~Resume(s) /\ ~Pause(s)
    BY DEF OwnRows, Clarify, Resume, Pause, StoreType
  <1>2. CASE PlanNew(s) \/ PlanFollowUp(s)
    <2>1. /\ pc[s] = "unused" /\ pc' = [pc EXCEPT ![s] = "turn"]
          /\ trip' = [trip EXCEPT ![s] = s] /\ mem' = [mem EXCEPT ![s].query = s]
          /\ asked' \in {asked, asked /\ SeveralPages} /\ UNCHANGED <<rows, shown>>
      BY <1>2 DEF PlanNew, PlanFollowUp, MayRequest, Go, tables, client
    <2>2. QED
      BY <2>1 DEF OwnRows, StoreType
  <1>3. CASE ReadIndex(s) \/ AppendPrompt(s)
    <2>1. /\ UNCHANGED <<trip, mem, rows, shown, asked>>
          /\ \/ pc[s] \in {"turn", "turn_commit"} /\ \E place \in {"turn_commit", "stub", "input"} :
                                                       pc' = [pc EXCEPT ![s] = place]
             \/ pc[s] = "result" /\ pc' = [pc EXCEPT ![s] = "result_commit"]
      BY <1>3 DEF ReadIndex, AppendPrompt, Go, tables, client
    <2>2. QED
      BY <2>1 DEF OwnRows, StoreType
  <1>4. CASE Input(s) \/ Finish(s) \/ Snapshot(s)
    <2>1. /\ UNCHANGED <<trip, rows, shown, asked>>
          /\ \A t \in Streams \ {s} : mem'[t] = mem[t]
          /\ pc[s] \in {"input", "running", "snapshot"}
          /\ \E place \in {"running", "snapshot", "persist"} : pc' = [pc EXCEPT ![s] = place]
      BY <1>4 DEF Input, Finish, Snapshot, Go, tables, client, StoreType
    <2>2. QED
      BY <2>1 DEF OwnRows, StoreType
  <1>5. CASE PersistStub(s)
    <2>1. /\ rows' = Upserted(s, None, named[s]) /\ pc[s] = "stub"
          /\ pc' = [pc EXCEPT ![s] = "input"] /\ UNCHANGED <<trip, mem, shown, asked>>
      BY <1>5 DEF PersistStub, Lose, Go, client, OwnRows, StoreType
    <2>2. \A id, x : id # s /\ Has(rows, id, x) => Has(rows', id, x)
      <3>1. rows \in Seq(Row) /\ s \in Maybe /\ None \in Maybe /\ named[s] \in BOOLEAN
        BY DEF StoreType, Maybe
      <3>2. QED
        BY <2>1, <3>1, HasKept
    <2>3. QED
      BY <2>1, <2>2 DEF OwnRows, StoreType
  <1>6. CASE Persist(s)
    <2>1. /\ rows' = Upserted(s, mem[s].itinerary, named[s]) /\ pc[s] = "persist"
          /\ pc' = [pc EXCEPT ![s] = "result"] /\ UNCHANGED <<trip, mem, shown, asked>>
      BY <1>6 DEF Persist, Lose, Go, client, OwnRows, StoreType
    <2>2. rows \in Seq(Row) /\ s \in Maybe /\ mem[s].itinerary \in Maybe /\ named[s] \in BOOLEAN
      BY DEF StoreType, Maybe, Checkpoints
    <2>3. \A id, x : id # s /\ Has(rows, id, x) => Has(rows', id, x)
      BY <2>1, <2>2, HasKept
    <2>4. Has(rows', s, mem[s].itinerary)
      BY <2>1, <2>2, UpsertedRows
    <2>5. QED
      BY <2>1, <2>3, <2>4 DEF OwnRows, StoreType
  <1>7. CASE Complete(s)
    <2>1. /\ pc[s] = "result_commit" /\ pc' = [pc EXCEPT ![s] = "done"]
          /\ shown' = shown \cup {<<trip[s], mem[s].itinerary>>}
          /\ UNCHANGED <<trip, mem, rows, asked>>
      BY <1>7 DEF Complete, End
    <2>2. trip[s] = s /\ Has(rows, s, mem[s].itinerary)
      BY <2>1 DEF OwnRows
    <2>3. QED
      BY <2>1, <2>2 DEF OwnRows, StoreType
  <1>8. CASE Abort(s)
    <2>1. pc[s] # "unused" /\ pc' = [pc EXCEPT ![s] = "done"] /\ UNCHANGED <<trip, mem, rows, shown, asked>>
      BY <1>8 DEF Abort, Live, End, tables, client
    <2>2. QED
      BY <2>1 DEF OwnRows, StoreType
  <1>9. QED
    BY <1>1, <1>2, <1>3, <1>4, <1>5, <1>6, <1>7, <1>8 DEF Request, Step

LEMMA StoredNext ==
  ASSUME StoreType, StoredInv, RegistryInv, [Next]_vars
  PROVE  StoredInv'
  <1>1. SUFFICES ASSUME pauses' = 0, losses' = 0
                 PROVE  OwnRows'
    BY DEF StoredInv
  <1>2. pauses' \in {pauses, pauses + 1} /\ losses' \in {losses, losses + 1}
    BY DEF Next, Serve, Request, Step, vars, history, PlanNew, PlanFollowUp, Clarify, Resume,
       ReadIndex, AppendPrompt, AppendTurn, PersistStub, Input, Pause, Finish, Snapshot, Persist,
       Complete, Abort, Cancel, Delete, Restart, Lose
  <1>3. pauses' = pauses /\ losses' = losses /\ OwnRows
    BY <1>1, <1>2 DEF StoredInv, StoreType
  <1>4. CASE Cancel
    <2>1. registry \in Streams
      BY <1>4, NoneAssumption DEF Cancel, RegistryInv, RegistryType, RegistrySound, Maybe
    <2>2. QED
      BY <1>3, <1>4, <2>1, OwnRowsServe DEF Cancel
  <1>5. CASE Delete
    <2>1. \A id, x : Has(rows, id, x) => Has(rows', id, x)
      BY <1>5, DeletedRows DEF Has, StoreType
    <2>2. UNCHANGED <<pc, trip, mem, asked, shown>>
      BY <1>5 DEF Delete, server
    <2>3. QED
      BY <1>3, <2>1, <2>2 DEF OwnRows
  <1>6. CASE Restart
    <2>1. /\ pc' = [s \in Streams |-> IF pc[s] = "unused" THEN "unused" ELSE "done"]
          /\ UNCHANGED <<trip, mem, rows, asked, shown>>
      BY <1>6 DEF Restart, tables, client
    <2>2. QED
      BY <1>3, <2>1 DEF OwnRows
  <1>7. CASE UNCHANGED vars
    BY <1>3, <1>7 DEF vars, server, tables, client, OwnRows
  <1>8. QED
    BY <1>3, <1>4, <1>5, <1>6, <1>7, OwnRowsServe DEF Next, Serve

\* However many pages are open and however their streams overlap, end or are cut
\* off by a restart: while no prompt of the session has paused and no database
\* call was lost, every itinerary shown under an id is the one stored under it.
THEOREM StoredUnlessPausedHolds == Spec => []StoredUnlessPaused
  <1>1. StoredInv => StoredUnlessPaused
    BY DEF StoredInv, OwnRows, StoredUnlessPaused, ShownIsStored, Has
  <1>2. Init => RegistryInv
    BY DEF Init, RegistryInv, RegistryType, RegistrySound, Maybe, Places
  <1>3. QED
    BY <1>1, <1>2, StoreInit, StoreTypeNext, StoredNext, RegistryStep, PTL DEF Spec

LEMMA HasNamedKept ==
  ASSUME rows \in Seq(Row), NEW s \in Maybe, NEW it \in Maybe, NEW n \in BOOLEAN,
         HasNamed(rows)
  PROVE  HasNamed(Upserted(s, it, n))
  <1>1. PICK i \in DOMAIN rows : rows[i].named
    BY DEF HasNamed
  <1>2. i \in DOMAIN Upserted(s, it, n) /\ Upserted(s, it, n)[i].named = rows[i].named
    BY UpsertedRows
  <1>3. QED
    BY <1>1, <1>2, Zenon DEF HasNamed

\* Whoever can write the first row has the username.
LEMMA UnlistedServe ==
  ASSUME StoreType, Unlisted, NEW s \in Streams, Request(s) \/ Step(s) \/ Abort(s),
         losses' = losses, UNCHANGED storage
  PROVE  Unlisted' \/ HasNamed(rows')
  <1> USE DEF Places, Registered
  <1>1. pc[s] \in {"unused", "done", "turn", "turn_commit", "stub"}
    BY DEF Unlisted
  <1>2. ~Displayed
    BY DEF Unlisted, Displayed
  <1>3. ~PlanFollowUp(s) /\ ~Clarify(s)
    BY <1>2 DEF Unlisted, PlanFollowUp, Clarify
  <1>4. /\ ~Resume(s) /\ ~Input(s) /\ ~Pause(s) /\ ~Finish(s) /\ ~Snapshot(s) /\ ~Persist(s)
        /\ ~Complete(s)
    BY <1>1 DEF Resume, Input, Pause, Finish, Snapshot, Persist, Complete
  <1>5. CASE PlanNew(s)
    BY <1>5 DEF PlanNew, Go, Unlisted, IsNew, StoreType, tables, client, storage
  <1>6. CASE ReadIndex(s) \/ AppendPrompt(s)
    <2>1. /\ UNCHANGED <<named, rows, shown, asked>>
          /\ pc[s] \in {"turn", "turn_commit"}
          /\ \E place \in {"turn_commit", "stub"} : pc' = [pc EXCEPT ![s] = place]
      BY <1>1, <1>6 DEF ReadIndex, AppendPrompt, Go, tables, client, storage, Unlisted
    <2>2. QED
      BY <2>1 DEF Unlisted, IsNew, StoreType
  <1>7. CASE PersistStub(s)
    <2>1. rows' = Upserted(trip[s], None, named[s]) /\ named[s] /\ rows = <<>>
      BY <1>7 DEF PersistStub, Lose, StoreType, Unlisted
    <2>2. rows \in Seq(Row) /\ trip[s] \in Maybe /\ None \in Maybe /\ named[s] \in BOOLEAN
      BY DEF StoreType, Maybe
    <2>3. QED
      BY <2>1, <2>2, UpsertedRows
  <1>8. CASE Abort(s)
    <2>1. pc' = [pc EXCEPT ![s] = "done"] /\ pc[s] # "unused"
          /\ UNCHANGED <<named, rows, asked, shown>>
      BY <1>8 DEF Abort, Live, Registered, End, tables, client
    <2>2. QED
      BY <2>1 DEF Unlisted, IsNew, StoreType
  <1>9. QED
    BY <1>3, <1>4, <1>5, <1>6, <1>7, <1>8 DEF Request, Step

LEMMA NamedRowsServe ==
  ASSUME StoreType, HasNamed(rows), NEW s \in Streams, Request(s) \/ Step(s) \/ Abort(s)
  PROVE  HasNamed(rows')
  <1>1. /\ rows \in Seq(Row) /\ trip[s] \in Maybe /\ None \in Maybe /\ mem[s].itinerary \in Maybe
        /\ named[s] \in BOOLEAN
    BY DEF StoreType, Maybe, Checkpoints
  <1>2. CASE PersistStub(s) \/ Persist(s)
    BY <1>1, <1>2, HasNamedKept DEF PersistStub, Persist
  <1>3. CASE ~PersistStub(s) /\ ~Persist(s)
    <2>1. rows' = rows
      BY <1>3 DEF Request, Step, PlanNew, PlanFollowUp, Clarify, Resume, ReadIndex, AppendPrompt,
         Input, Pause, Finish, Snapshot, Complete, Abort, tables
    <2>2. QED
      BY <2>1
  <1>4. QED
    BY <1>2, <1>3

LEMMA NamedNext ==
  ASSUME StoreType, NamedInv, RegistryInv, [Next]_vars
  PROVE  NamedInv'
  <1>1. SUFFICES ASSUME losses' = 0
                 PROVE  HasNamed(rows') \/ Unlisted'
    BY DEF NamedInv
  <1>2. losses' \in {losses, losses + 1}
    BY DEF Next, Serve, Request, Step, vars, history, PlanNew, PlanFollowUp, Clarify, Resume,
       ReadIndex, AppendPrompt, AppendTurn, PersistStub, Input, Pause, Finish, Snapshot, Persist,
       Complete, Abort, Cancel, Delete, Restart, Lose
  <1>3. losses' = losses /\ (HasNamed(rows) \/ Unlisted)
    BY <1>1, <1>2 DEF NamedInv, StoreType
  <1>4. ASSUME NEW s \in Streams, Request(s) \/ Step(s) \/ Abort(s), UNCHANGED storage
        PROVE  HasNamed(rows') \/ Unlisted'
    BY <1>3, <1>4, UnlistedServe, NamedRowsServe
  <1>5. CASE Cancel /\ UNCHANGED storage
    <2>1. registry \in Streams
      BY <1>5, NoneAssumption DEF Cancel, RegistryInv, RegistryType, RegistrySound, Maybe
    <2>2. QED
      BY <1>4, <1>5, <2>1 DEF Cancel
  <1>6. CASE Delete
    <2>1. rows # <<>>
      BY <1>6 DEF Delete
    <2>2. PICK i \in DOMAIN rows : rows[i].named
      BY <1>3, <2>1 DEF HasNamed, Unlisted
    <2>3. i \in DOMAIN rows' /\ rows'[i].named = rows[i].named
      BY <1>6, DeletedRows DEF StoreType
    <2>4. QED
      BY <2>2, <2>3, Zenon DEF HasNamed
  <1>7. CASE Restart
    <2>1. /\ pc' = [s \in Streams |-> IF pc[s] = "unused" THEN "unused" ELSE "done"]
          /\ UNCHANGED <<named, rows, asked, shown>>
      BY <1>7 DEF Restart, tables, client
    <2>2. Unlisted => Unlisted'
      BY <2>1 DEF Unlisted, IsNew
    <2>3. QED
      BY <1>3, <2>1, <2>2
  <1>8. CASE UNCHANGED vars
    <2>1. UNCHANGED <<pc, named, rows, asked, shown>>
      BY <1>8 DEF vars, server, tables, client
    <2>2. QED
      BY <1>3, <2>1 DEF Unlisted, IsNew
  <1>9. QED
    BY <1>4, <1>5, <1>6, <1>7, <1>8 DEF Next, Serve

\* A session that has delivered a result is in the user's list, from however
\* many pages and through however many pauses and restarts, unless a database
\* call was lost or a row of it deleted.
THEOREM ShownIsListedHolds == Spec => []ShownIsListed
  <1>1. NamedInv => ShownIsListed
    BY DEF NamedInv, Unlisted, HasNamed, ShownIsListed, Listed
  <1>2. Init => RegistryInv
    BY DEF Init, RegistryInv, RegistryType, RegistrySound, Maybe, Places
  <1>3. QED
    BY <1>1, <1>2, StoreInit, StoreTypeNext, NamedNext, RegistryStep, PTL DEF Spec

-----------------------------------------------------------------------------
(***************************************************************************)
(* The turns of a session used from one page.  A turn's index is computed  *)
(* by one statement and stored by another, and what is read in between is  *)
(* still the number of turns when it is stored, because no other stream    *)
(* comes between (OneBusy).                                                *)
(***************************************************************************)

Turn == [index : Nat, role : {"user", "assistant"}, by : Streams]

TurnsNumbered ==
  /\ turns \in Seq(Turn)
  /\ index \in [Streams -> Nat]
  /\ \A i \in DOMAIN turns : turns[i].index = i - 1
  /\ \A s \in Streams : pc[s] \in {"turn_commit", "result_commit"} => index[s] = Len(turns)

\* COALESCE(MAX(turn_index) + 1, 0) is the number of turns while they are
\* numbered from 0 without a gap.
LEMMA NextIndexIsLen ==
  ASSUME TurnsNumbered, NEW s \in Streams
  PROVE  NextIndex(s) = Len(turns) /\ NextIndex(s) \in Nat
  <1>1. /\ Len(turns) \in Nat /\ DOMAIN turns = 1..Len(turns)
        /\ \A i \in 1..Len(turns) : turns[i].index = i - 1
    BY DEF TurnsNumbered
  <1>2. CASE turns = <<>>
    BY <1>1, <1>2 DEF NextIndex
  <1>3. CASE turns # <<>>
    <2> DEFINE used == {turns[i].index : i \in DOMAIN turns}
               top(m) == \A i \in DOMAIN turns : turns[i].index <= m
    <2>1. Len(turns) # 0
      BY <1>3 DEF TurnsNumbered
    <2>2. Len(turns) \in DOMAIN turns /\ turns[Len(turns)].index = Len(turns) - 1
      BY <1>1, <2>1
    <2>3. Len(turns) - 1 \in used /\ top(Len(turns) - 1)
      BY <1>1, <2>2
    <2>4. \A m \in used : top(m) => m = Len(turns) - 1
      BY <1>1, <2>2
    <2> HIDE DEF used, top
    <2> DEFINE last == CHOOSE m \in used : top(m)
    <2>5. last = Len(turns) - 1
      BY <2>3, <2>4
    <2>6. NextIndex(s) = last + 1
      BY <1>3 DEF NextIndex, used, top
    <2> HIDE DEF last
    <2>7. QED
      BY <1>1, <2>5, <2>6
  <1>4. QED
    BY <1>2, <1>3

LEMMA TurnsInit == Init => TurnsNumbered
  BY DEF Init, TurnsNumbered

\* A stored turn takes the next number.
LEMMA TurnAppended ==
  ASSUME SerialInv, TurnsNumbered, NEW s \in Streams,
         pc[s] \in {"turn_commit", "result_commit"},
         NEW role \in {"user", "assistant"}, AppendTurn(s, role),
         UNCHANGED index,
         NEW place \in Places \ {"turn_commit", "result_commit"}, pc' = [pc EXCEPT ![s] = place]
  PROVE  TurnsNumbered'
  <1>1. \A t \in Streams : pc'[t] \notin {"turn_commit", "result_commit"}
    BY DEF SerialInv, SerialType, OneBusy, BusyAt
  <1>2. CASE turns' = turns
    BY <1>1, <1>2 DEF TurnsNumbered
  <1>3. CASE turns' = Append(turns, [index |-> index[s], role |-> role, by |-> s])
    <2> DEFINE turn == [index |-> index[s], role |-> role, by |-> s]
    <2>1. turn \in Turn /\ turn.index = Len(turns)
      BY DEF TurnsNumbered, Turn
    <2> HIDE DEF turn
    <2>2. /\ turns' \in Seq(Turn) /\ Len(turns') = Len(turns) + 1 /\ Len(turns) \in Nat
          /\ \A i \in 1..Len(turns) : turns'[i] = turns[i]
          /\ turns'[Len(turns) + 1] = turn
      <3>1. turns' = Append(turns, turn)
        BY <1>3 DEF turn
      <3>2. QED
        BY <2>1, <3>1 DEF TurnsNumbered
    <2>3. \A i \in DOMAIN turns' : turns'[i].index = i - 1
      BY <2>1, <2>2 DEF TurnsNumbered
    <2>4. QED
      BY <1>1, <2>2, <2>3 DEF TurnsNumbered
  <1>4. QED
    BY <1>2, <1>3 DEF AppendTurn

LEMMA TurnsServe ==
  ASSUME SerialInv, TurnsNumbered, NEW s \in Streams, Request(s) \/ Step(s) \/ Abort(s)
  PROVE  TurnsNumbered'
  <1> USE DEF Places, Registered
  <1>1. CASE ReadIndex(s)
    <2>1. /\ index' = [index EXCEPT ![s] = Len(turns)] /\ UNCHANGED turns
          /\ \E place \in {"turn_commit", "result_commit"} : pc' = [pc EXCEPT ![s] = place]
      BY <1>1, NextIndexIsLen DEF ReadIndex, Go, tables
    <2>2. Len(turns) \in Nat
      BY DEF TurnsNumbered
    <2>3. \A t \in Streams \ {s} : pc'[t] \notin {"turn_commit", "result_commit"}
      BY <1>1, <2>1 DEF ReadIndex, SerialInv, SerialType, OneBusy, BusyAt
    <2>4. QED
      BY <2>1, <2>2, <2>3 DEF TurnsNumbered
  <1>2. CASE AppendPrompt(s)
    <2>1. \E place \in {"stub", "input"} : pc' = [pc EXCEPT ![s] = place]
      BY <1>2 DEF AppendPrompt, Go
    <2>2. QED
      BY <1>2, <2>1, TurnAppended DEF AppendPrompt
  <1>3. CASE Complete(s)
    BY <1>3, TurnAppended DEF Complete, End
  <1>4. CASE ~ReadIndex(s) /\ ~AppendPrompt(s) /\ ~Complete(s)
    <2>1. UNCHANGED <<turns, index>>
      BY <1>4 DEF Request, Step, PlanNew, PlanFollowUp, Clarify, Resume, PersistStub, Input, Pause,
         Finish, Snapshot, Persist, Abort, tables
    <2>2. \E place \in Places \ {"turn_commit", "result_commit"} : pc' = [pc EXCEPT ![s] = place]
      BY <1>4 DEF Request, Step, PlanNew, PlanFollowUp, Clarify, Resume, PersistStub, Input, Pause,
         Finish, Snapshot, Persist, Abort, Go, End
    <2>3. QED
      BY <2>1, <2>2 DEF TurnsNumbered, SerialInv, SerialType
  <1>5. QED
    BY <1>1, <1>2, <1>3, <1>4

LEMMA TurnsNext ==
  ASSUME SerialInv, RegistryInv, TurnsNumbered, [Next]_vars
  PROVE  TurnsNumbered'
  <1>1. CASE Cancel
    <2>1. registry \in Streams
      BY <1>1, NoneAssumption DEF Cancel, RegistryInv, RegistryType, RegistrySound, Maybe
    <2>2. QED
      BY <1>1, <2>1, TurnsServe DEF Cancel
  <1>2. CASE Delete \/ UNCHANGED vars
    BY <1>2 DEF Delete, vars, server, tables, TurnsNumbered
  <1>3. CASE Restart
    <2>1. /\ pc' = [s \in Streams |-> IF pc[s] = "unused" THEN "unused" ELSE "done"]
          /\ UNCHANGED <<turns, index>>
      BY <1>3 DEF Restart, tables
    <2>2. QED
      BY <2>1 DEF TurnsNumbered
  <1>4. QED
    BY <1>1, <1>2, <1>3, TurnsServe DEF Next, Serve

\* On one page the history of a session is totally ordered by turn_index, through
\* cancellations, lost inserts and restarts.
THEOREM TurnsOrderedHolds ==
  ASSUME ~SeveralPages
  PROVE  Spec => []TurnsOrdered
  <1>1. TurnsNumbered => TurnsOrdered
    BY DEF TurnsNumbered, TurnsOrdered
  <1>2. Init => RegistryInv
    BY DEF Init, RegistryInv, RegistryType, RegistrySound, Maybe, Places
  <1>3. QED
    BY <1>1, <1>2, SerialInit, SerialNext, RegistryStep, TurnsInit, TurnsNext, PTL DEF Spec

-----------------------------------------------------------------------------
(* Used from one page, TripSession implements Conversation: for every set  *)
(* of streams and any number of pauses, lost calls, aborts and restarts.   *)
(*                                                                         *)
(* SerialInv says that one stream is under way at a time and that a resume *)
(* finds its question.  What is added here (Following) is that this        *)
(* stream's copy of the thread's state is the thread's: a running graph    *)
(* started from the latest checkpoint, and what is stored and told was     *)
(* read after the graph's own last one.                                    *)

FollowsIn(s) ==
  /\ pc[s] = "running" =>
       /\ mem[s].query = saved.query
       /\ mem[s].itinerary = saved.itinerary
       /\ ~mem[s].waiting
  /\ pc[s] \in Telling => ~saved.waiting
  /\ pc[s] \in Telling \ {"snapshot"} => mem[s] = saved

Following == \A s \in Streams : FollowsIn(s)

TalkInv == SerialInv /\ RegistryInv /\ Following

PhaseWith(s) ==
  IF pc[s] = "running" THEN "working"
  ELSE IF pc[s] \in Telling THEN "telling"
  ELSE IF saved.waiting THEN "asking" ELSE "idle"

\* With one stream under way the phase is that stream's.
LEMMA PhaseNow ==
  ASSUME NEW s \in Streams, \A t \in Streams \ {s} : ~BusyAt(t)
  PROVE  Phase = PhaseWith(s)
  BY DEF Phase, PhaseWith, BusyAt, Telling

LEMMA PhaseNext ==
  ASSUME NEW s \in Streams, \A t \in Streams \ {s} : ~BusyAt(t)'
  PROVE  Phase' = PhaseWith(s)'
  BY DEF Phase, PhaseWith, BusyAt, Telling

\* A stream that moves alone, out of reach of the others.
LEMMA OthersIdle ==
  ASSUME TalkInv, NEW s \in Streams, BusyAt(s), NEW place, pc' = [pc EXCEPT ![s] = place]
  PROVE  /\ \A t \in Streams \ {s} : ~BusyAt(t) /\ ~BusyAt(t)' /\ FollowsIn(t)'
         /\ pc'[s] = place
  <1>1. pc \in [Streams -> Places] /\ OneBusy
    BY DEF TalkInv, SerialInv, SerialType
  <1>2. \A t \in Streams \ {s} : pc'[t] = pc[t] /\ ~BusyAt(t)
    BY <1>1 DEF OneBusy
  <1>3. QED
    BY <1>1, <1>2 DEF BusyAt, FollowsIn, Telling

\* The conversation does not move when no variable of its mapping does.
LEMMA Stutters ==
  ASSUME Phase' = Phase, UNCHANGED <<saved, shown, saver, holder>>
  PROVE  UNCHANGED Promise!vars
  BY DEF Promise!vars, Told

-----------------------------------------------------------------------------
LEMMA TalkRequest ==
  ASSUME ~SeveralPages, TalkInv, NEW s \in Streams, Request(s), UNCHANGED storage
  PROVE  Following' /\ [Promise!Next]_(Promise!vars)
  <1>1. \A t \in Streams : ~BusyAt(t)
    <2>1. MayRequest(s)
      BY DEF Request, PlanNew, PlanFollowUp, Clarify
    <2>2. QED
      BY <2>1 DEF MayRequest, Busy, BusyAt
  <1>2. /\ UNCHANGED <<saved, shown, saver, holder>>
        /\ pc' = [pc EXCEPT ![s] = "turn"] \/ pc' = [pc EXCEPT ![s] = "routed"]
    BY DEF Request, PlanNew, PlanFollowUp, Clarify, Go, client, storage
  <1>3. pc \in [Streams -> Places]
    BY DEF TalkInv, SerialInv, SerialType
  <1>4. \A t \in Streams : pc'[t] # "running" /\ pc'[t] \notin Telling
    BY <1>1, <1>2, <1>3 DEF BusyAt, Telling
  <1>5. \A t \in Streams : pc[t] # "running" /\ pc[t] \notin Telling
    BY <1>1 DEF BusyAt, Telling
  <1>6. Phase' = Phase
    BY <1>2, <1>4, <1>5 DEF Phase
  <1>7. QED
    BY <1>2, <1>4, <1>6, Stutters DEF Following, FollowsIn, Telling

LEMMA TalkResume ==
  ASSUME TalkInv, NEW s \in Streams, Resume(s), UNCHANGED storage
  PROVE  Following' /\ Promise!Reply
  <1>1. /\ pc[s] = "routed"
        /\ pc' = [pc EXCEPT ![s] = "running"]
        /\ mem' = [mem EXCEPT ![s] = [saved EXCEPT !.waiting = FALSE]]
        /\ UNCHANGED <<saved, shown, saver, holder>>
    BY DEF Resume, Go, client, storage
  <1>2. BusyAt(s)
    BY <1>1 DEF BusyAt
  <1>3. /\ \A t \in Streams \ {s} : ~BusyAt(t) /\ ~BusyAt(t)' /\ FollowsIn(t)'
        /\ pc'[s] = "running"
    BY <1>1, <1>2, OthersIdle
  <1>4. Phase = (IF saved.waiting THEN "asking" ELSE "idle") /\ Phase' = "working"
    <2>1. PhaseWith(s) = (IF saved.waiting THEN "asking" ELSE "idle") /\ PhaseWith(s)' = "working"
      BY <1>1, <1>3 DEF PhaseWith, Telling
    <2>2. QED
      BY <1>3, <2>1, PhaseNow, PhaseNext
  <1>5. saved.waiting \/ holder # saver
    BY <1>1 DEF TalkInv, SerialInv, Waiting, Held
  <1>6. mem'[s] = [saved EXCEPT !.waiting = FALSE] /\ saved \in Checkpoints
    BY <1>1 DEF TalkInv, SerialInv, SerialType
  <1>7. FollowsIn(s)'
    BY <1>1, <1>3, <1>6 DEF FollowsIn, Telling, Checkpoints
  <1>8. QED
    BY <1>1, <1>3, <1>4, <1>5, <1>7 DEF Following, Promise!Reply, Told

\* Steps of a stream before its input.
LEMMA TalkPrepare ==
  ASSUME TalkInv, NEW s \in Streams, AppendPrompt(s) \/ PersistStub(s), UNCHANGED storage
  PROVE  Following' /\ UNCHANGED Promise!vars
  <1>1. PICK place \in {"stub", "input"} : pc' = [pc EXCEPT ![s] = place]
    BY DEF AppendPrompt, PersistStub, Go
  <1>2. /\ pc[s] \in {"turn_commit", "stub"}
        /\ UNCHANGED <<saved, shown, saver, holder>>
    BY DEF AppendPrompt, PersistStub, client, storage
  <1>3. BusyAt(s)
    BY <1>2 DEF BusyAt
  <1>4. /\ \A t \in Streams \ {s} : ~BusyAt(t) /\ ~BusyAt(t)' /\ FollowsIn(t)'
        /\ pc'[s] = place
    BY <1>1, <1>3, OthersIdle
  <1>5. Phase' = Phase
    <2>1. PhaseWith(s)' = PhaseWith(s)
      BY <1>2, <1>4 DEF PhaseWith, Telling
    <2>2. QED
      BY <1>4, <2>1, PhaseNow, PhaseNext
  <1>6. FollowsIn(s)'
    BY <1>4 DEF FollowsIn, Telling
  <1>7. QED
    BY <1>2, <1>4, <1>5, <1>6, Stutters DEF Following

\* Reading the index of a turn, before the input or after the result.
LEMMA TalkReadIndex ==
  ASSUME TalkInv, NEW s \in Streams, ReadIndex(s), UNCHANGED storage
  PROVE  Following' /\ UNCHANGED Promise!vars
  <1>1. /\ pc' = [pc EXCEPT ![s] = IF pc[s] = "turn" THEN "turn_commit" ELSE "result_commit"]
        /\ pc[s] \in {"turn", "result"}
        /\ UNCHANGED <<saved, shown, saver, holder, mem>>
    BY DEF ReadIndex, Go, client, storage
  <1>2. BusyAt(s)
    BY <1>1 DEF BusyAt
  <1>3. /\ \A t \in Streams \ {s} : ~BusyAt(t) /\ ~BusyAt(t)' /\ FollowsIn(t)'
        /\ pc'[s] = IF pc[s] = "turn" THEN "turn_commit" ELSE "result_commit"
    BY <1>1, <1>2, OthersIdle
  <1>4. Phase' = Phase
    <2>1. PhaseWith(s)' = PhaseWith(s)
      BY <1>1, <1>3 DEF PhaseWith, Telling
    <2>2. QED
      BY <1>3, <2>1, PhaseNow, PhaseNext
  <1>5. FollowsIn(s)'
    BY <1>1, <1>3 DEF TalkInv, Following, FollowsIn, Telling
  <1>6. QED
    BY <1>1, <1>3, <1>4, <1>5, Stutters DEF Following

LEMMA TalkInput ==
  ASSUME TalkInv, NEW s \in Streams, Input(s), UNCHANGED storage
  PROVE  Following' /\ Promise!Ask
  <1>1. /\ pc[s] = "input"
        /\ pc' = [pc EXCEPT ![s] = "running"]
        /\ saved' = [saved EXCEPT !.query = s, !.waiting = FALSE]
        /\ mem' = [mem EXCEPT ![s] = saved']
        /\ UNCHANGED <<shown, saver, holder>>
    BY DEF Input, Go, client, storage
  <1>2. BusyAt(s)
    BY <1>1 DEF BusyAt
  <1>3. /\ \A t \in Streams \ {s} : ~BusyAt(t) /\ ~BusyAt(t)' /\ FollowsIn(t)'
        /\ pc'[s] = "running"
    BY <1>1, <1>2, OthersIdle
  <1>4. Phase \in {"idle", "asking"} /\ Phase' = "working"
    <2>1. PhaseWith(s) \in {"idle", "asking"} /\ PhaseWith(s)' = "working"
      BY <1>1, <1>3 DEF PhaseWith, Telling
    <2>2. QED
      BY <1>3, <2>1, PhaseNow, PhaseNext
  <1>5. /\ mem'[s] = saved'
        /\ saved'.query = s /\ saved'.itinerary = saved.itinerary /\ saved'.waiting = FALSE
    BY <1>1 DEF TalkInv, SerialInv, SerialType, Checkpoints
  <1>6. FollowsIn(s)'
    BY <1>3, <1>5 DEF FollowsIn, Telling
  <1>7. QED
    BY <1>1, <1>3, <1>4, <1>5, <1>6 DEF Following, Promise!Ask, Told

LEMMA TalkPause ==
  ASSUME TalkInv, NEW s \in Streams, Pause(s), UNCHANGED storage
  PROVE  Following' /\ Promise!Question
  <1>1. /\ pc[s] = "running"
        /\ pc' = [pc EXCEPT ![s] = "done"]
        /\ saved' = [mem[s] EXCEPT !.waiting = TRUE]
        /\ holder' = saver
        /\ UNCHANGED <<shown, saver>>
    BY DEF Pause, End, storage
  <1>2. BusyAt(s)
    BY <1>1 DEF BusyAt
  <1>3. /\ \A t \in Streams \ {s} : ~BusyAt(t) /\ ~BusyAt(t)' /\ FollowsIn(t)'
        /\ pc'[s] = "done"
    BY <1>1, <1>2, OthersIdle
  <1>4. saved'.query = saved.query /\ saved'.itinerary = saved.itinerary /\ saved'.waiting
    BY <1>1 DEF TalkInv, Following, FollowsIn, SerialInv, SerialType, Checkpoints
  <1>5. Phase = "working" /\ Phase' = "asking"
    <2>1. PhaseWith(s) = "working" /\ PhaseWith(s)' = "asking"
      BY <1>1, <1>3, <1>4 DEF PhaseWith, Telling
    <2>2. QED
      BY <1>3, <2>1, PhaseNow, PhaseNext
  <1>6. FollowsIn(s)'
    BY <1>3 DEF FollowsIn, Telling
  <1>7. QED
    BY <1>1, <1>3, <1>4, <1>5, <1>6 DEF Following, Promise!Question, Told

LEMMA TalkFinish ==
  ASSUME TalkInv, NEW s \in Streams, Finish(s), UNCHANGED storage
  PROVE  Following' /\ Promise!Decide
  <1>1. PICK it \in {mem[s].query, mem[s].itinerary} :
          saved' = [mem[s] EXCEPT !.itinerary = it]
    BY DEF Finish
  <1>2. /\ pc[s] = "running"
        /\ pc' = [pc EXCEPT ![s] = "snapshot"]
        /\ UNCHANGED <<shown, saver, holder>>
    BY DEF Finish, Go, client, storage
  <1>3. BusyAt(s)
    BY <1>2 DEF BusyAt
  <1>4. /\ \A t \in Streams \ {s} : ~BusyAt(t) /\ ~BusyAt(t)' /\ FollowsIn(t)'
        /\ pc'[s] = "snapshot"
    BY <1>2, <1>3, OthersIdle
  <1>5. /\ saved'.query = saved.query
        /\ saved'.itinerary \in {saved.query, saved.itinerary}
        /\ ~saved'.waiting
    BY <1>1, <1>2 DEF TalkInv, Following, FollowsIn, SerialInv, SerialType, Checkpoints
  <1>6. Phase = "working" /\ Phase' = "telling"
    <2>1. PhaseWith(s) = "working" /\ PhaseWith(s)' = "telling"
      BY <1>2, <1>4 DEF PhaseWith, Telling
    <2>2. QED
      BY <1>4, <2>1, PhaseNow, PhaseNext
  <1>7. FollowsIn(s)'
    BY <1>4, <1>5 DEF FollowsIn, Telling
  <1>8. QED
    BY <1>2, <1>4, <1>5, <1>6, <1>7 DEF Following, Promise!Decide, Told

LEMMA TalkStore ==
  ASSUME TalkInv, NEW s \in Streams, Snapshot(s) \/ Persist(s), UNCHANGED storage
  PROVE  Following' /\ UNCHANGED Promise!vars
  <1>1. PICK place \in {"persist", "result"} : pc' = [pc EXCEPT ![s] = place]
    BY DEF Snapshot, Persist, Go
  <1>2. /\ pc[s] \in {"snapshot", "persist"}
        /\ UNCHANGED <<saved, shown, saver, holder>>
        /\ mem' = [mem EXCEPT ![s] = saved]
    <2>1. CASE Snapshot(s)
      BY <2>1 DEF Snapshot, client, storage
    <2>2. CASE Persist(s)
      <3>1. mem[s] = saved /\ mem' = mem /\ mem \in [Streams -> Checkpoints]
        BY <2>2 DEF Persist, TalkInv, Following, FollowsIn, Telling, SerialInv, SerialType
      <3>2. QED
        BY <2>2, <3>1 DEF Persist, client, storage
    <2>3. QED
      BY <2>1, <2>2
  <1>3. BusyAt(s)
    BY <1>2 DEF BusyAt
  <1>4. /\ \A t \in Streams \ {s} : ~BusyAt(t) /\ ~BusyAt(t)' /\ FollowsIn(t)'
        /\ pc'[s] = place
    BY <1>1, <1>3, OthersIdle
  <1>5. Phase' = Phase
    <2>1. PhaseWith(s)' = PhaseWith(s)
      BY <1>2, <1>4 DEF PhaseWith, Telling
    <2>2. QED
      BY <1>4, <2>1, PhaseNow, PhaseNext
  <1>6. mem'[s] = saved /\ ~saved.waiting
    BY <1>2 DEF TalkInv, Following, FollowsIn, Telling, SerialInv, SerialType
  <1>7. FollowsIn(s)'
    BY <1>2, <1>4, <1>6 DEF FollowsIn
  <1>8. QED
    BY <1>2, <1>4, <1>5, <1>7, Stutters DEF Following

LEMMA TalkComplete ==
  ASSUME TalkInv, NEW s \in Streams, Complete(s), UNCHANGED storage
  PROVE  Following' /\ Promise!Tell
  <1>1. /\ pc[s] = "result_commit"
        /\ pc' = [pc EXCEPT ![s] = "done"]
        /\ shown' = shown \cup {<<trip[s], mem[s].itinerary>>}
        /\ UNCHANGED <<saved, saver, holder>>
    BY DEF Complete, End, storage
  <1>2. BusyAt(s)
    BY <1>1 DEF BusyAt
  <1>3. /\ \A t \in Streams \ {s} : ~BusyAt(t) /\ ~BusyAt(t)' /\ FollowsIn(t)'
        /\ pc'[s] = "done"
    BY <1>1, <1>2, OthersIdle
  <1>4. mem[s] = saved /\ ~saved.waiting
    BY <1>1 DEF TalkInv, Following, FollowsIn, Telling
  <1>5. Phase = "telling" /\ Phase' = "idle"
    <2>1. PhaseWith(s) = "telling" /\ PhaseWith(s)' = "idle"
      BY <1>1, <1>3, <1>4 DEF PhaseWith, Telling
    <2>2. QED
      BY <1>3, <2>1, PhaseNow, PhaseNext
  <1>6. Told' = Told \cup {saved.itinerary}
    <2> DEFINE new == <<trip[s], mem[s].itinerary>>
    <2>1. new[2] = saved.itinerary
      BY <1>4
    <2>2. shown' = shown \cup {new}
      BY <1>1
    <2> HIDE DEF new
    <2>3. {d[2] : d \in shown \cup {new}} = {d[2] : d \in shown} \cup {new[2]}
      OBVIOUS
    <2>4. QED
      BY <2>1, <2>2, <2>3 DEF Told
  <1>7. FollowsIn(s)'
    BY <1>3 DEF FollowsIn, Telling
  <1>8. QED
    BY <1>1, <1>3, <1>5, <1>6, <1>7 DEF Following, Promise!Tell

LEMMA TalkAbort ==
  ASSUME TalkInv, NEW s \in Streams, Abort(s), UNCHANGED storage
  PROVE  Following' /\ [Promise!Next]_(Promise!vars)
  <1>1. /\ Live(s)
        /\ pc' = [pc EXCEPT ![s] = "done"]
        /\ UNCHANGED <<saved, shown, saver, holder>>
    BY DEF Abort, End, client, storage
  <1>2. BusyAt(s)
    BY <1>1 DEF BusyAt, Live, Registered
  <1>3. /\ \A t \in Streams \ {s} : ~BusyAt(t) /\ ~BusyAt(t)' /\ FollowsIn(t)'
        /\ pc'[s] = "done"
    BY <1>1, <1>2, OthersIdle
  <1>4. Phase = PhaseWith(s) /\ Phase' = IF saved.waiting THEN "asking" ELSE "idle"
    <2>1. PhaseWith(s)' = IF saved.waiting THEN "asking" ELSE "idle"
      BY <1>1, <1>3 DEF PhaseWith, Telling
    <2>2. QED
      BY <1>3, <2>1, PhaseNow, PhaseNext
  <1>5. FollowsIn(s)'
    BY <1>3 DEF FollowsIn, Telling
  <1>6. CASE pc[s] \in Telling \cup {"running"}
    <2>1. pc[s] \in Telling => ~saved.waiting
      BY DEF TalkInv, Following, FollowsIn
    <2>2. Promise!Break
      BY <1>1, <1>4, <1>6, <2>1 DEF PhaseWith, Telling, Promise!Break, Told
    <2>3. QED
      BY <1>3, <1>5, <2>2 DEF Following, Promise!Next
  <1>7. CASE pc[s] \notin Telling \cup {"running"}
    <2>1. Phase' = Phase
      BY <1>4, <1>7 DEF PhaseWith
    <2>2. QED
      BY <1>1, <1>3, <1>5, <2>1, Stutters DEF Following
  <1>8. QED
    BY <1>6, <1>7

LEMMA TalkRestart ==
  ASSUME TalkInv, Restart
  PROVE  Following' /\ [Promise!Next]_(Promise!vars)
  <1>1. /\ pc' = [s \in Streams |-> IF pc[s] = "unused" THEN "unused" ELSE "done"]
        /\ UNCHANGED <<shown, holder>>
        /\ saver' \in {Postgres, process + 1}
        /\ saved' = IF saver' # Postgres THEN Fresh
                    ELSE IF saver = Postgres THEN saved ELSE durable
    BY DEF Restart, Loaded, client, history
  <1>2. \A s \in Streams : pc'[s] # "running" /\ pc'[s] \notin Telling
    BY <1>1 DEF Telling
  <1>3. Following' /\ Phase' = IF saved'.waiting THEN "asking" ELSE "idle"
    BY <1>2 DEF Following, FollowsIn, Phase
  <1>4. saver \in 0..process /\ process \in Nat /\ durable \in Checkpoints /\ saved \in Checkpoints
    BY DEF TalkInv, SerialInv, SaversKnown, SerialType
  <1>5. CASE saver' = saver
    <2>1. saved' = saved
      BY <1>1, <1>4, <1>5 DEF Postgres
    <2>2. CASE \E s \in Streams : pc[s] \in Telling \cup {"running"}
      <3>1. PICK s \in Streams : pc[s] \in Telling \cup {"running"}
        BY <2>2
      <3>2. Phase = PhaseWith(s)
        <4>1. \A t \in Streams \ {s} : ~BusyAt(t)
          BY <3>1 DEF TalkInv, SerialInv, OneBusy, BusyAt, Telling
        <4>2. QED
          BY <4>1, PhaseNow
      <3>3. pc[s] \in Telling => ~saved.waiting
        BY DEF TalkInv, Following, FollowsIn
      <3>4. Promise!Break
        BY <1>1, <1>3, <1>5, <2>1, <3>1, <3>2, <3>3 DEF PhaseWith, Telling, Promise!Break, Told
      <3>5. QED
        BY <1>3, <3>4 DEF Promise!Next
    <2>3. CASE \A s \in Streams : pc[s] \notin Telling \cup {"running"}
      <3>1. Phase' = Phase
        BY <1>3, <2>1, <2>3 DEF Phase
      <3>2. QED
        BY <1>1, <1>3, <1>5, <2>1, <3>1, Stutters
    <2>4. QED
      BY <2>2, <2>3
  <1>6. CASE saver' # saver
    <2>1. saved' \in Checkpoints
      BY <1>1, <1>4 DEF Fresh, Checkpoints, Maybe
    <2>2. saver' \in Nat \ {saver}
      BY <1>1, <1>4, <1>6 DEF Postgres
    <2>3. Promise!Elsewhere
      BY <1>1, <1>3, <2>1, <2>2 DEF Promise!Elsewhere, Promise!Maybe, Checkpoints, Maybe, Told
    <2>4. QED
      BY <1>3, <2>3 DEF Promise!Next
  <1>7. QED
    BY <1>5, <1>6

LEMMA TalkNext ==
  ASSUME ~SeveralPages, TalkInv, [Next]_vars
  PROVE  Following' /\ [Promise!Next]_(Promise!vars)
  <1>1. ASSUME NEW s \in Streams, Step(s), UNCHANGED storage
        PROVE  Following' /\ [Promise!Next]_(Promise!vars)
    BY <1>1, TalkResume, TalkPrepare, TalkReadIndex, TalkInput, TalkPause, TalkFinish, TalkStore,
       TalkComplete DEF Step, Promise!Next
  <1>2. CASE Cancel /\ UNCHANGED storage
    <2>1. registry \in Streams
      BY <1>2, NoneAssumption DEF Cancel, TalkInv, RegistryInv, RegistryType, RegistrySound, Maybe
    <2>2. QED
      BY <1>2, <2>1, TalkAbort DEF Cancel
  <1>3. CASE (Delete /\ UNCHANGED storage) \/ UNCHANGED vars
    <2>1. UNCHANGED <<pc, mem, saved, shown, saver, holder>>
      BY <1>3 DEF Delete, vars, server, client, history, storage
    <2>2. QED
      BY <2>1, Stutters DEF TalkInv, Following, FollowsIn, Phase
  <1>4. QED
    BY <1>1, <1>2, <1>3, TalkRequest, TalkAbort, TalkRestart DEF Next, Serve

\* On one page, whatever is cancelled, lost or restarted, the server's session
\* is a conversation: results are for the prompt in hand or the session's
\* previous ones, a follow-up keeps what the session had, and answers go on
\* from the question that waits, unless it was asked from another store.
THEOREM HoldsConversationHolds ==
  ASSUME ~SeveralPages
  PROVE  Spec => HoldsConversation
  <1>1. Init => TalkInv
    <2>1. Init => RegistryInv /\ Following
      BY DEF Init, RegistryInv, RegistryType, RegistrySound, Maybe, Places, Following, FollowsIn,
         Telling
    <2>2. QED
      BY <2>1, SerialInit DEF TalkInv
  <1>2. Init => Promise!Init
    BY DEF Init, Promise!Init, Phase, Told, Telling, Fresh, Postgres
  <1>3. TalkInv /\ [Next]_vars => TalkInv'
    BY SerialNext, RegistryStep, TalkNext DEF TalkInv
  <1>4. TalkInv /\ [Next]_vars => [Promise!Next]_(Promise!vars)
    BY TalkNext
  <1>5. QED
    BY <1>1, <1>2, <1>3, <1>4, PTL DEF Spec, HoldsConversation, Promise!Spec

=============================================================================
