-------------------------- MODULE OrchestratorProofs --------------------------
(***************************************************************************)
(* Orchestrator implements ClarificationGate, for every number of rounds,  *)
(* every set of fields and every behaviour of the language model; it       *)
(* returns no guess before the rounds are used up while dates are in ISO   *)
(* form; and with a steady model, what the user has answered is kept and   *)
(* not asked again.  The first invariant says how far a replay may be      *)
(* ahead of the recorded answers: never, and that no question is asked in  *)
(* the last round's place.  The others are introduced where they are used. *)
(***************************************************************************)
EXTENDS Orchestrator, SequenceTheorems, TLAPS

ParseType == Parses \cup {Unparsed}

\* What the types of the single variables do not say.
Progress ==
  /\ round <= Len(answers)
  /\ Len(answers) <= MaxRounds
  /\ text <= round
  /\ pc \in {"top", "gate", "paused"} => round < MaxRounds
  /\ pc = "gate" => parsed \in Parses
  /\ pc = "paused" => /\ round = Len(answers)
                      /\ Len(questions) = Len(answers) + 1
  /\ pc # "paused" => Len(questions) = Len(answers)
  /\ pc = "done" /\ parsed = Unparsed => round = MaxRounds

Inv == TypeOK /\ Progress

LEMMA UnparsedIsNoParse == Unparsed \notin Parses
  BY DEF Unparsed, Parses

LEMMA ReadingsAreParses == Readings \subseteq Parses
  BY DEF Readings, Parses, Origins

LEMMA StatedIsParse ==
  ASSUME NEW p \in Parses PROVE Stated(p) \in Parses
  BY FieldsAssumption DEF Stated, Parses, Origins

LEMMA GivenIsParse ==
  ASSUME NEW p \in Parses, NEW fs PROVE Given(p, fs) \in Parses
  BY DEF Given, Parses, Origins

LEMMA DefaultedIsParse ==
  ASSUME NEW p \in Parses PROVE Defaulted(p) \in Parses
  BY DEF Defaulted, Parses, Origins

LEMMA MissingIsFields ==
  ASSUME NEW p PROVE AboutFields(Missing(p)) \in Questions
  BY DEF AboutFields, Missing, Questions

LEMMA InitEstablishes == Init => Inv
  <1> SUFFICES ASSUME Init PROVE Inv
    OBVIOUS
  <1>1. TypeOK
    BY MaxRoundsAssumption, ModelsAssumption DEF Init, TypeOK
  <1>2. Progress
    BY MaxRoundsAssumption DEF Init, Progress
  <1> QED
    BY <1>1, <1>2 DEF Inv

\* The recorded answer a replay takes next.
LEMMA NextAnswer ==
  ASSUME Inv, round < Len(answers)
  PROVE  /\ answers[round + 1] \in [text : Texts \cup {"blank"}, given : SUBSET Fields]
         /\ round + 1 \in Nat /\ round + 1 <= MaxRounds
  <1>1. round \in Nat /\ Len(answers) \in Nat /\ Len(answers) <= MaxRounds
    BY MaxRoundsAssumption DEF Inv, TypeOK, Progress
  <1>2. round + 1 \in 1..Len(answers) /\ round + 1 <= MaxRounds
    BY <1>1, MaxRoundsAssumption
  <1>3. answers \in Seq([text : Texts \cup {"blank"}, given : SUBSET Fields])
    BY DEF Inv, TypeOK
  <1>4. answers[round + 1] \in [text : Texts \cup {"blank"}, given : SUBSET Fields]
    BY <1>2, <1>3, ElementOfSeq, Zenon
  <1> QED
    BY <1>1, <1>2, <1>4

LEMMA RewordingBounded ==
  ASSUME Inv, round < Len(answers)
  PROVE  Rewording \in 0..(round + 1)
  BY NextAnswer DEF Inv, TypeOK, Progress, Rewording

LEMMA AskingPreserves ==
  ASSUME Inv, pc \in {"top", "gate"}, NEW q \in Questions, Asks(q)
  PROVE  Inv'
  <1>1. TypeOK'
    BY DEF Inv, TypeOK, Asks
  <1>2. Len(questions') = Len(questions) + 1
    BY DEF Inv, TypeOK, Asks
  <1>3. Progress'
    BY <1>2 DEF Inv, TypeOK, Progress, Asks
  <1> QED
    BY <1>1, <1>3 DEF Inv

LEMMA ConsumingPreserves ==
  ASSUME Inv, pc \in {"top", "gate"}, NEW t \in 0..(round + 1), NEW p \in ParseType,
         Consumes(t, p)
  PROVE  Inv'
  <1>1. /\ round' = round + 1
        /\ round' \in 1..MaxRounds
        /\ round' <= Len(answers)
    BY NextAnswer DEF Consumes, Inv, TypeOK, Progress
  <1>2. parsed' \in ParseType
    BY DefaultedIsParse DEF Consumes, ParseType
  <1>3. TypeOK'
    BY <1>1, <1>2, MaxRoundsAssumption DEF Inv, TypeOK, Consumes, log, ParseType
  <1>4. pc' = "gate" => parsed' \in Parses
    BY <1>2, <1>1 DEF Consumes, ParseType
  <1>5. Progress'
    BY <1>1, <1>4, MaxRoundsAssumption DEF Inv, TypeOK, Progress, Consumes, log
  <1> QED
    BY <1>3, <1>5 DEF Inv

LEMMA AskingAboutQueryPreserves ==
  ASSUME Inv, pc = "top", AsksAboutQuery
  PROVE  Inv'
  <1>1. CASE Asks(AboutQuery)
    <2>1. AboutQuery \in Questions
      BY DEF AboutQuery, Questions
    <2> QED
      BY <1>1, <2>1, AskingPreserves
  <1>2. CASE Consumes(Rewording, Unparsed)
    <2>1. Rewording \in 0..(round + 1)
      BY <1>2, RewordingBounded DEF Consumes
    <2> QED
      BY <1>2, <2>1, ConsumingPreserves DEF ParseType
  <1> QED
    BY <1>1, <1>2 DEF AsksAboutQuery

LEMMA StepPreserves == Inv /\ [Next]_vars => Inv'
  <1> SUFFICES ASSUME Inv, [Next]_vars PROVE Inv'
    OBVIOUS
  <1>1. CASE Refuse
    BY <1>1, AskingAboutQueryPreserves DEF Refuse
  <1>2. CASE ParseFails
    BY <1>2, AskingAboutQueryPreserves DEF ParseFails
  <1>3. CASE Parse
    <2>1. PICK r \in Readings :
            parsed' = r /\ known' = IF "forgets" \in llm THEN known ELSE [known EXCEPT ![text] = r]
      BY <1>3 DEF Parse
    <2>2. r \in Parses
      BY ReadingsAreParses
    <2>3. TypeOK'
      BY <1>3, <2>1, <2>2 DEF Parse, Inv, TypeOK, log
    <2>4. Progress'
      BY <1>3, <2>1, <2>2 DEF Parse, Inv, TypeOK, Progress, log
    <2> QED
      BY <2>3, <2>4 DEF Inv
  <1>4. CASE AskFields
    <2>1. Stated(parsed) \in Parses
      BY <1>4, StatedIsParse DEF AskFields, Inv, Progress
    <2>2. CASE Asks(AboutFields(Missing(Stated(parsed))))
      BY <1>4, <2>2, MissingIsFields, AskingPreserves DEF AskFields
    <2>3. CASE Consumes(text, Given(Stated(parsed), answers[round + 1].given))
      <3>1. text \in 0..(round + 1)
        BY DEF Inv, TypeOK, Progress
      <3>2. Given(Stated(parsed), answers[round + 1].given) \in ParseType
        BY <2>1, GivenIsParse DEF ParseType
      <3> QED
        BY <1>4, <2>3, <3>1, <3>2, ConsumingPreserves DEF AskFields
    <2> QED
      BY <1>4, <2>2, <2>3 DEF AskFields
  <1>5. CASE Satisfied
    <2>1. Stated(parsed) \in Parses
      BY <1>5, StatedIsParse DEF Satisfied, Inv, Progress
    <2>2. TypeOK'
      BY <1>5, <2>1 DEF Satisfied, Inv, TypeOK, log
    <2>3. Progress'
      BY <1>5, <2>1, UnparsedIsNoParse DEF Satisfied, Inv, TypeOK, Progress, log
    <2> QED
      BY <2>2, <2>3 DEF Inv
  <1>6. CASE Answer
    <2>1. PICK a \in Answers(questions[Len(questions)]) : answers' = Append(answers, a)
      BY <1>6 DEF Answer
    <2>2. questions[Len(questions)] \in Questions
      BY <1>6 DEF Answer, Inv, TypeOK, Progress
    <2>3. a \in [text : Texts \cup {"blank"}, given : SUBSET Fields]
      BY <2>2 DEF Answers, Questions
    <2>4. Len(answers') = Len(answers) + 1
      BY <2>1, <2>3 DEF Inv, TypeOK
    <2>5. TypeOK'
      BY <1>6, <2>1, <2>3, MaxRoundsAssumption DEF Answer, Inv, TypeOK
    <2>6. Progress'
      BY <1>6, <2>4, MaxRoundsAssumption DEF Answer, Inv, TypeOK, Progress
    <2> QED
      BY <2>5, <2>6 DEF Inv
  <1>7. CASE UNCHANGED vars
    BY <1>7 DEF vars, log, call, Inv, TypeOK, Progress
  <1> QED
    BY <1>1, <1>2, <1>3, <1>4, <1>5, <1>6, <1>7 DEF Next, Step

LEMMA Invariance == Spec => []Inv
  <1> QED
    BY InitEstablishes, StepPreserves, PTL DEF Spec

\* The node's variables keep their types: in particular it never consumes more
\* answers, nor parses more texts, than there are rounds.
THEOREM TypeCorrect == Spec => []TypeOK
  <1>1. Inv => TypeOK
    BY DEF Inv
  <1> QED
    BY <1>1, Invariance, PTL

\* Every behaviour of the node is one the planning graph is prepared for
\* (graph.py's orchestrator node as PlanningGraph models it): at most MaxRounds
\* questions, no more rounds reported than answers heard, and no result without
\* a parse before the rounds are used up.
THEOREM PromiseKept == Spec => KeepsPromise
  <1>1. Init => Gate!Init
    BY DEF Init, Gate!Init, Done
  <1>2. Inv /\ Inv' /\ [Next]_vars => [Gate!Next]_(Gate!vars)
    <2> SUFFICES ASSUME Inv, Inv', [Next]_vars PROVE [Gate!Next]_(Gate!vars)
      OBVIOUS
    <2> USE DEF Gate!vars, Done
    <2>1. ASSUME NEW q, pc \in {"top", "gate"}, Asks(q) PROVE Gate!Ask
      BY <2>1 DEF Asks, Inv, TypeOK, Progress, Gate!Ask
    <2>2. ASSUME NEW t, NEW p, pc \in {"top", "gate"}, Consumes(t, p)
          PROVE  [Gate!Next]_(Gate!vars)
      <3>1. answers' = answers /\ round' \in 0..Len(answers)
        BY <2>2 DEF Consumes, log, Inv, TypeOK, Progress
      <3>2. CASE pc' = "done"
        <4>1. parsed' # Unparsed \/ round' = MaxRounds
          BY <3>2 DEF Inv, Progress
        <4> QED
          BY <2>2, <3>1, <3>2, <4>1 DEF Gate!Next, Gate!Return
      <3>3. CASE pc' # "done"
        BY <2>2, <3>1, <3>3 DEF Consumes
      <3> QED
        BY <3>2, <3>3
    <2>3. CASE Refuse \/ ParseFails
      BY <2>1, <2>2, <2>3 DEF Refuse, ParseFails, AsksAboutQuery, Gate!Next
    <2>4. CASE Parse
      BY <2>4 DEF Parse, log
    <2>5. CASE AskFields
      BY <2>1, <2>2, <2>5 DEF AskFields, Gate!Next
    <2>6. CASE Satisfied
      <3>1. parsed' # Unparsed
        BY <2>6, StatedIsParse, UnparsedIsNoParse DEF Satisfied, Inv, Progress
      <3> QED
        BY <2>6, <3>1 DEF Satisfied, log, Inv, TypeOK, Progress, Gate!Next, Gate!Return
    <2>7. CASE Answer
      <3>1. Len(answers') = Len(answers) + 1
        BY <2>7 DEF Answer, Inv, TypeOK, Progress
      <3> QED
        BY <2>7, <3>1 DEF Answer, Gate!Next, Gate!Hear
    <2>8. CASE UNCHANGED vars
      BY <2>8 DEF vars, log, call
    <2> QED
      BY <2>3, <2>4, <2>5, <2>6, <2>7, <2>8 DEF Next, Step
  <1> QED
    BY <1>1, <1>2, Invariance, PTL DEF Spec, KeepsPromise, Gate!Spec

-----------------------------------------------------------------------------
(***************************************************************************)
(* What a node returns before its rounds are used up.  Of results alone    *)
(* NeverSilentlyGuesses is not inductive: that no default gets into a      *)
(* parse on the way is NoDefaults, and that a garbled date and a return    *)
(* date come from a model with such a habit is NoGarbage and NoEnds.       *)
(***************************************************************************)

NoGarbage ==
  "garbles" \notin llm => parsed.end # "garbled" /\ \A f \in Fields : parsed.field[f] # "garbled"

NoEnds == "ends" \notin llm => parsed.end # "read"

NoDefaults ==
  /\ round < MaxRounds => \A f \in Fields : parsed.field[f] # "default"
  /\ pc = "done" /\ round < MaxRounds => Missing(parsed) = {}

GuessInv == NoGarbage /\ NoEnds /\ NoDefaults

\* What quick_extract_days, _apply_answers and _apply_defaults make of a field.
LEMMA StatedField ==
  ASSUME NEW p \in Parses, NEW f \in Fields
  PROVE  /\ Stated(p).field[f] = IF f = "trip_days" /\ TextOf(text) = "days" THEN "text" ELSE p.field[f]
         /\ Stated(p).end = p.end
  BY FieldsAssumption DEF Stated, Parses

LEMMA GivenField ==
  ASSUME NEW p \in Parses, NEW fs, NEW f \in Fields
  PROVE  /\ Given(p, fs).field[f] = IF f \in fs THEN "user" ELSE p.field[f]
         /\ Given(p, fs).end = p.end
  BY DEF Given, Parses

LEMMA DefaultedField ==
  ASSUME NEW p \in Parses, NEW f \in Fields
  PROVE  /\ Defaulted(p).field[f] \in {p.field[f], "default"}
         /\ p.field[f] = "user" => Defaulted(p).field[f] = "user"
         /\ Defaulted(p).end \in {p.end, "default"}
  BY DEF Defaulted, Parses

LEMMA UnparsedField ==
  Unparsed.end = "unparsed" /\ \A f \in Fields : Unparsed.field[f] = "none"
  BY DEF Unparsed

\* Taking an answer with a parse that has neither a garbled date nor a default.
LEMMA GuessConsumes ==
  ASSUME Inv, NEW t, NEW p \in ParseType, Consumes(t, p),
         "garbles" \notin llm => p.end # "garbled" /\ \A f \in Fields : p.field[f] # "garbled",
         "ends" \notin llm => p.end # "read",
         \A f \in Fields : p.field[f] # "default"
  PROVE  GuessInv'
  <1>1. /\ round' \in Nat /\ llm' = llm
        /\ parsed' = IF round' = MaxRounds /\ p # Unparsed THEN Defaulted(p) ELSE p
        /\ pc' = "done" => round' = MaxRounds
    BY DEF Consumes, log, Inv, TypeOK
  <1>2. CASE parsed' = p
    <2>1. NoGarbage' /\ NoEnds'
      BY <1>1, <1>2 DEF NoGarbage, NoEnds
    <2>2. NoDefaults'
      BY <1>1, <1>2, MaxRoundsAssumption DEF NoDefaults
    <2>3. QED
      BY <2>1, <2>2 DEF GuessInv
  <1>3. CASE round' = MaxRounds /\ p \in Parses /\ parsed' = Defaulted(p)
    <2>1. \A f \in Fields : parsed'.field[f] \in {p.field[f], "default"}
      BY <1>3, DefaultedField
    <2>2. parsed'.end \in {p.end, "default"}
      BY <1>3, DefaultedField, FieldsAssumption
    <2>3. NoGarbage' /\ NoEnds'
      BY <1>1, <2>1, <2>2 DEF NoGarbage, NoEnds
    <2>4. NoDefaults'
      BY <1>1, <1>3, MaxRoundsAssumption DEF NoDefaults
    <2>5. QED
      BY <2>3, <2>4 DEF GuessInv
  <1>4. QED
    BY <1>1, <1>2, <1>3 DEF ParseType

LEMMA GuessStep ==
  ASSUME Inv, GuessInv, [Next]_vars
  PROVE  GuessInv'
  <1>1. NoGarbage /\ NoEnds /\ NoDefaults /\ TypeOK /\ Progress
    BY DEF GuessInv, Inv
  <1>2. ASSUME NEW q, pc \in {"top", "gate"}, Asks(q)
        PROVE  GuessInv'
    BY <1>1, <1>2 DEF Asks, GuessInv, NoGarbage, NoEnds, NoDefaults
  <1>3. CASE AsksAboutQuery /\ pc = "top"
    <2>1. ASSUME Consumes(Rewording, Unparsed) PROVE GuessInv'
      <3>1. Unparsed \in ParseType
        BY DEF ParseType
      <3>2. QED
        BY <2>1, <3>1, UnparsedField, GuessConsumes
    <2>2. QED
      BY <1>2, <1>3, <2>1 DEF AsksAboutQuery
  <1>4. CASE Parse
    <2>1. PICK r \in Readings : parsed' = r
      BY <1>4 DEF Parse
    <2>2. /\ \A f \in Fields : r.field[f] # "default" /\ (r.field[f] = "garbled" => "garbles" \in llm)
          /\ r.end = "garbled" => "garbles" \in llm
          /\ r.end = "read" => "ends" \in llm
      BY DEF Readings
    <2>3. pc' = "gate" /\ llm' = llm
      BY <1>4 DEF Parse, log
    <2>4. QED
      BY <2>1, <2>2, <2>3 DEF GuessInv, NoGarbage, NoEnds, NoDefaults
  <1>5. CASE AskFields
    <2> DEFINE p == Given(Stated(parsed), answers[round + 1].given)
    <2>1. parsed \in Parses /\ Stated(parsed) \in Parses /\ round < MaxRounds
      BY <1>1, <1>5, StatedIsParse DEF AskFields, Progress
    <2>2. p \in Parses
      BY <2>1, GivenIsParse
    <2>3. \A f \in Fields : p.field[f] \in {"user", "text", parsed.field[f]}
      BY <2>1, StatedField, GivenField
    <2>4. p.end = parsed.end
      BY <2>1, StatedField, GivenField, FieldsAssumption
    <2> HIDE DEF p
    <2>5. \A f \in Fields : p.field[f] # "default"
      BY <1>1, <2>1, <2>3 DEF NoDefaults
    <2>6. "garbles" \notin llm => p.end # "garbled" /\ \A f \in Fields : p.field[f] # "garbled"
      BY <1>1, <2>3, <2>4 DEF NoGarbage
    <2>7. "ends" \notin llm => p.end # "read"
      BY <1>1, <2>4 DEF NoEnds
    <2>8. ASSUME Consumes(text, p) PROVE GuessInv'
      BY <2>2, <2>5, <2>6, <2>7, <2>8, GuessConsumes DEF ParseType
    <2>9. QED
      BY <1>2, <1>5, <2>8 DEF AskFields, p
  <1>6. CASE Satisfied
    <2>1. parsed \in Parses /\ round < MaxRounds
      BY <1>1, <1>6 DEF Satisfied, Progress
    <2>2. /\ parsed' = Stated(parsed) /\ Missing(Stated(parsed)) = {}
          /\ UNCHANGED <<llm, round>>
      BY <1>6 DEF Satisfied, log
    <2>3. /\ \A f \in Fields : parsed'.field[f] \in {"text", parsed.field[f]}
          /\ parsed'.end = parsed.end
      BY <2>1, <2>2, StatedField, FieldsAssumption
    <2>4. NoGarbage' /\ NoEnds'
      BY <1>1, <2>2, <2>3 DEF NoGarbage, NoEnds
    <2>5. NoDefaults'
      BY <1>1, <2>1, <2>2, <2>3 DEF NoDefaults, Missing
    <2>6. QED
      BY <2>4, <2>5 DEF GuessInv
  <1>7. CASE Answer
    <2>1. parsed' = Unparsed /\ pc' = "top"
      BY <1>7 DEF Answer
    <2>2. QED
      BY <2>1, UnparsedField DEF GuessInv, NoGarbage, NoEnds, NoDefaults
  <1>8. CASE UNCHANGED vars
    BY <1>1, <1>8 DEF vars, log, call, GuessInv, NoGarbage, NoEnds, NoDefaults, Missing
  <1>9. QED
    BY <1>3, <1>4, <1>5, <1>6, <1>7, <1>8 DEF Next, Step, Refuse, ParseFails

LEMMA GuessInvariance == Spec => []GuessInv
  <1>1. Init => GuessInv
    BY UnparsedField DEF Init, GuessInv, NoGarbage, NoEnds, NoDefaults
  <1>2. QED
    BY <1>1, GuessStep, Invariance, PTL DEF Spec

\* With a model whose dates are in ISO form, whatever else it does, a trip with
\* a guess, a default or a blank in it is returned only after the last round; of
\* the length of the trip nothing is said when the model may read a return date.
THEOREM NeverGuessesUngarbledHolds == Spec => []NeverGuessesUngarbled
  <1>1. Inv /\ GuessInv => NeverGuessesUngarbled
    <2> SUFFICES ASSUME Inv, NoGarbage, NoEnds, NoDefaults, "garbles" \notin llm, Done,
                        round < MaxRounds, NEW f \in Deciding
                 PROVE  Delivered(f) \notin {"none", "guess", "default"}
      BY DEF GuessInv, NeverGuessesUngarbled
    <2>1. f \in Fields /\ Delivered(f) = parsed.field[f]
      BY FieldsAssumption DEF NoGarbage, NoEnds, Delivered, Departure, Length, Deciding
    <2>2. parsed.field[f] \notin {"none", "guess", "default"}
      BY <2>1 DEF NoDefaults, Done, Missing
    <2>3. QED
      BY <2>1, <2>2
  <1>2. QED
    BY <1>1, GuessInvariance, Invariance, PTL

-----------------------------------------------------------------------------
(***************************************************************************)
(* A replay with a steady model.  The path of a replay is not recorded     *)
(* anywhere: it is told from the answers which text is parsed after the    *)
(* first j of them (Latest) and which fields they gave (Heard), and each   *)
(* question on record is the one a replay asks again there (WellAsked).    *)
(***************************************************************************)

\* After the first j answers, text t is the one to parse.
Latest(t, j) ==
  /\ t \in 0..j
  /\ t # 0 => answers[t].text \in Texts
  /\ \A i \in (t + 1)..j : answers[i].text \notin Texts

\* What the first j answers have given.
Heard(j) == UNION {answers[i].given : i \in 1..j}

DaysStated(t, f) == f = "trip_days" /\ TextOf(t) = "days"

\* What the reading of text t leaves to ask for.
Wanted(t) == {f \in Fields : known[t].field[f] \in {"none", "guess"} /\ ~DaysStated(t, f)}

\* Question i is the one text t calls for.
WellAsked(i, t) ==
  IF TextOf(t) = "disallowed" THEN questions[i] = AboutQuery
  ELSE /\ known[t] # Unparsed
       /\ questions[i] = AboutFields(Wanted(t) \ Heard(i - 1))
       /\ Wanted(t) \ Heard(i - 1) # {}

AllWellAsked ==
  \A i \in 1..Len(questions) : \E t \in 0..(i - 1) : Latest(t, i - 1) /\ WellAsked(i, t)

AnswersFit == \A i \in 1..Len(answers) : answers[i] \in Answers(questions[i])

\* Where the replay is.
AtText == Latest(text, round)

AtTop == pc = "top" => Heard(round) = {}

AtGate ==
  pc = "gate" =>
    /\ TextOf(text) # "disallowed" /\ known[text] # Unparsed
    /\ TextOf(text) = "days" => "trip_days" \notin Heard(round)
    /\ \A f \in Fields :
         IF f \in Heard(round) THEN parsed.field[f] = "user"
         ELSE DaysStated(text, f) \/ parsed.field[f] = known[text].field[f]

AtDone ==
  pc = "done" => round = Len(answers) /\ \A f \in Heard(round) : parsed.field[f] = "user"

ReplayInv == AllWellAsked /\ AnswersFit /\ AtText /\ AtTop /\ AtGate /\ AtDone

SteadyInv == Steady => ReplayInv

LEMMA LatestUnique ==
  ASSUME NEW j \in Nat, NEW t, NEW u, Latest(t, j), Latest(u, j)
  PROVE  t = u
  <1>1. t \in 0..j /\ u \in 0..j
    BY DEF Latest
  <1>2. ~(t < u)
    <2> SUFFICES ASSUME t < u PROVE FALSE
      OBVIOUS
    <2>1. u \in (t + 1)..j /\ u # 0
      BY <1>1
    <2>2. QED
      BY <2>1 DEF Latest
  <1>3. ~(u < t)
    <2> SUFFICES ASSUME u < t PROVE FALSE
      OBVIOUS
    <2>1. t \in (u + 1)..j /\ t # 0
      BY <1>1
    <2>2. QED
      BY <2>1 DEF Latest
  <1>4. QED
    BY <1>1, <1>2, <1>3

\* One answer more.
LEMMA LatestStep ==
  ASSUME NEW j \in Nat, NEW t, Latest(t, j)
  PROVE  Latest(IF answers[j + 1].text \in Texts THEN j + 1 ELSE t, j + 1)
  <1>1. t \in 0..j
    BY DEF Latest
  <1>2. CASE answers[j + 1].text \in Texts
    <2>1. (j + 1) \in 0..(j + 1) /\ ((j + 1) + 1)..(j + 1) = {}
      OBVIOUS
    <2>2. QED
      BY <1>2, <2>1 DEF Latest
  <1>3. CASE answers[j + 1].text \notin Texts
    <2>1. t \in 0..(j + 1) /\ \A i \in (t + 1)..(j + 1) : i = j + 1 \/ i \in (t + 1)..j
      BY <1>1
    <2>2. QED
      BY <1>3, <2>1 DEF Latest
  <1>4. QED
    BY <1>2, <1>3

LEMMA HeardStep ==
  ASSUME NEW j \in Nat
  PROVE  Heard(0) = {} /\ Heard(j + 1) = Heard(j) \cup answers[j + 1].given
  <1>1. 1..0 = {} /\ 1..(j + 1) = (1..j) \cup {j + 1}
    OBVIOUS
  <1>2. QED
    BY <1>1 DEF Heard

LEMMA HeardGrows ==
  ASSUME NEW i \in Nat, NEW j \in Nat, i <= j
  PROVE  Heard(i) \subseteq Heard(j)
  <1>1. \A k \in 1..i : k \in 1..j
    OBVIOUS
  <1>2. QED
    BY <1>1 DEF Heard

\* What the first j answers say stays so while more are recorded.
LEMMA PastKept ==
  ASSUME NEW j \in Nat, query' = query, \A i \in 1..j : answers'[i] = answers[i]
  PROVE  /\ Heard(j)' = Heard(j)
         /\ \A t : Latest(t, j)' <=> Latest(t, j)
         /\ \A t \in 0..j : TextOf(t)' = TextOf(t)
  <1>1. Heard(j)' = Heard(j)
    BY DEF Heard
  <1>2. \A t \in 0..j : TextOf(t)' = TextOf(t)
    <2> SUFFICES ASSUME NEW t \in 0..j PROVE TextOf(t)' = TextOf(t)
      OBVIOUS
    <2>1. t = 0 \/ t \in 1..j
      OBVIOUS
    <2>2. QED
      BY <2>1 DEF TextOf
  <1>3. ASSUME NEW t PROVE Latest(t, j)' <=> Latest(t, j)
    <2>1. t \in 0..j => /\ t = 0 \/ t \in 1..j
                        /\ \A i \in (t + 1)..j : i \in 1..j
      OBVIOUS
    <2>2. QED
      BY <2>1 DEF Latest
  <1>4. QED
    BY <1>1, <1>2, <1>3

\* At the gate, what is missing is what the text leaves to ask for and no
\* answer has given.
LEMMA MissingAtGate ==
  ASSUME Inv, ReplayInv, pc = "gate"
  PROVE  Missing(Stated(parsed)) = Wanted(text) \ Heard(round)
  <1>1. parsed \in Parses /\ AtGate
    BY DEF Inv, Progress, ReplayInv
  <1>2. ASSUME NEW f \in Fields
        PROVE  Stated(parsed).field[f] \in {"none", "guess"}
                 <=> f \in Wanted(text) \ Heard(round)
    <2>1. Stated(parsed).field[f] = IF DaysStated(text, f) THEN "text" ELSE parsed.field[f]
      BY <1>1, StatedField DEF DaysStated
    <2>2. QED
      BY <1>1, <2>1 DEF AtGate, Wanted
  <1>3. QED
    BY <1>2 DEF Missing, Wanted

\* The question a replay comes to is the one on record there.
LEMMA Replayed ==
  ASSUME Inv, ReplayInv, pc \in {"top", "gate"}, round < Len(answers)
  PROVE  /\ WellAsked(round + 1, text)
         /\ answers[round + 1] \in Answers(questions[round + 1])
  <1>1. round \in Nat /\ Len(answers) \in Nat /\ Len(questions) = Len(answers)
    BY DEF Inv, TypeOK, Progress
  <1>2. round + 1 \in 1..Len(questions) /\ (round + 1) - 1 = round /\ round + 1 \in 1..Len(answers)
    BY <1>1
  <1>3. PICK t \in 0..round : Latest(t, round) /\ WellAsked(round + 1, t)
    BY <1>2 DEF ReplayInv, AllWellAsked
  <1>4. t = text
    BY <1>1, <1>3, LatestUnique DEF ReplayInv, AtText
  <1>5. QED
    BY <1>2, <1>3, <1>4 DEF ReplayInv, AnswersFit

LEMMA LogKept ==
  ASSUME ReplayInv, UNCHANGED <<query, answers, questions, known>>
  PROVE  AllWellAsked' /\ AnswersFit'
  <1>1. \A t, j : (Latest(t, j)' <=> Latest(t, j)) /\ Heard(j)' = Heard(j)
    BY DEF Latest, Heard
  <1>2. \A t : Wanted(t)' = Wanted(t) /\ TextOf(t)' = TextOf(t)
    BY DEF Wanted, DaysStated, TextOf
  <1>3. \A i, t : WellAsked(i, t)' <=> WellAsked(i, t)
    BY <1>1, <1>2 DEF WellAsked
  <1>4. AllWellAsked'
    BY <1>1, <1>3 DEF ReplayInv, AllWellAsked
  <1>5. AnswersFit'
    BY DEF ReplayInv, AnswersFit, Answers
  <1>6. QED
    BY <1>4, <1>5

\* A new question that is well asked.
LEMMA ReplayAsks ==
  ASSUME Inv, ReplayInv, pc \in {"top", "gate"}, NEW q \in Questions, Asks(q),
         IF TextOf(text) = "disallowed" THEN q = AboutQuery
         ELSE /\ known[text] # Unparsed
              /\ q = AboutFields(Wanted(text) \ Heard(round))
              /\ Wanted(text) \ Heard(round) # {}
  PROVE  ReplayInv'
  <1>1. /\ round = Len(answers) /\ pc' = "paused"
        /\ questions' = Append(questions, q)
        /\ UNCHANGED <<query, answers, round, text, parsed, known>>
    BY DEF Asks
  <1>2. /\ Len(questions) = round /\ round \in Nat /\ Len(questions') = round + 1
        /\ questions'[round + 1] = q
        /\ \A i \in 1..round : questions'[i] = questions[i]
    BY <1>1 DEF Inv, TypeOK, Progress
  <1>3. \A t, j : (Latest(t, j)' <=> Latest(t, j)) /\ Heard(j)' = Heard(j)
    BY <1>1 DEF Latest, Heard
  <1>4. \A t : Wanted(t)' = Wanted(t) /\ TextOf(t)' = TextOf(t)
    BY <1>1 DEF Wanted, DaysStated, TextOf
  <1>5. AllWellAsked'
    <2> SUFFICES ASSUME NEW i \in 1..(round + 1)
                 PROVE  \E t \in 0..(i - 1) : Latest(t, i - 1)' /\ WellAsked(i, t)'
      BY <1>2 DEF AllWellAsked
    <2>1. CASE i \in 1..round
      <3>1. PICK t \in 0..(i - 1) : Latest(t, i - 1) /\ WellAsked(i, t)
        BY <1>2, <2>1 DEF ReplayInv, AllWellAsked
      <3>2. WellAsked(i, t)'
        BY <1>1, <1>2, <1>3, <1>4, <2>1, <3>1 DEF WellAsked
      <3>3. QED
        BY <1>3, <3>1, <3>2
    <2>2. CASE i = round + 1
      <3>1. PICK t : t = text
        OBVIOUS
      <3>2. i - 1 = round /\ Latest(t, i - 1) /\ t \in 0..(i - 1)
        BY <1>2, <2>2, <3>1 DEF ReplayInv, AtText, Latest
      <3>3. /\ questions'[i] = q
            /\ IF TextOf(t) = "disallowed" THEN q = AboutQuery
               ELSE /\ known[t] # Unparsed
                    /\ q = AboutFields(Wanted(t) \ Heard(i - 1))
                    /\ Wanted(t) \ Heard(i - 1) # {}
        BY <1>2, <2>2, <3>1, <3>2
      <3>4. /\ TextOf(t)' = TextOf(t) /\ Wanted(t)' = Wanted(t)
            /\ Heard(i - 1)' = Heard(i - 1) /\ known' = known
        BY <1>1, <1>3, <1>4
      <3>5. WellAsked(i, t)'
        BY <3>3, <3>4 DEF WellAsked
      <3>6. QED
        BY <1>3, <3>2, <3>5
    <2>3. QED
      BY <1>2, <2>1, <2>2
  <1>6. AnswersFit'
    <2>1. \A i \in 1..Len(answers) : questions'[i] = questions[i]
      BY <1>1, <1>2
    <2>2. QED
      BY <1>1, <2>1 DEF ReplayInv, AnswersFit, Answers
  <1>7. AtText' /\ AtTop' /\ AtGate' /\ AtDone'
    BY <1>1, <1>3 DEF ReplayInv, AtText, AtTop, AtGate, AtDone
  <1>8. QED
    BY <1>5, <1>6, <1>7 DEF ReplayInv

\* A replay takes the next answer, with the text that is the latest then.
LEMMA ReplayConsumes ==
  ASSUME Inv, ReplayInv, NEW t, NEW p \in ParseType, Consumes(t, p),
         Latest(t, round + 1),
         p = Unparsed => Heard(round + 1) = {},
         p # Unparsed =>
           /\ TextOf(t) # "disallowed" /\ known[t] # Unparsed
           /\ TextOf(t) = "days" => "trip_days" \notin Heard(round + 1)
           /\ \A f \in Fields :
                IF f \in Heard(round + 1) THEN p.field[f] = "user"
                ELSE DaysStated(t, f) \/ p.field[f] = known[t].field[f],
         Heard(round + 1) \subseteq Fields
  PROVE  ReplayInv'
  <1>1. /\ round' = round + 1 /\ text' = t /\ round < Len(answers)
        /\ parsed' = IF round' = MaxRounds /\ p # Unparsed THEN Defaulted(p) ELSE p
        /\ pc' = IF round' = MaxRounds THEN "done" ELSE IF p = Unparsed THEN "top" ELSE "gate"
        /\ UNCHANGED <<query, answers, questions, known>>
    BY DEF Consumes, log
  <1>2. AllWellAsked' /\ AnswersFit'
    BY <1>1, LogKept
  <1>3. \A u, j : (Latest(u, j)' <=> Latest(u, j)) /\ Heard(j)' = Heard(j)
    BY <1>1 DEF Latest, Heard
  <1>4. \A u : TextOf(u)' = TextOf(u) /\ \A f : DaysStated(u, f)' <=> DaysStated(u, f)
    BY <1>1 DEF DaysStated, TextOf
  <1>5. Latest(text', round') /\ Heard(round') = Heard(round + 1)
    BY <1>1
  <1>6. AtText'
    BY <1>1, <1>3 DEF AtText
  <1>7. AtTop'
    BY <1>1, <1>3 DEF AtTop
  <1>8. AtGate'
    <2> SUFFICES ASSUME pc' = "gate"
                 PROVE  /\ TextOf(t) # "disallowed" /\ known[t] # Unparsed
                        /\ TextOf(t) = "days" => "trip_days" \notin Heard(round + 1)
                        /\ \A f \in Fields :
                             IF f \in Heard(round + 1) THEN parsed'.field[f] = "user"
                             ELSE DaysStated(t, f) \/ parsed'.field[f] = known[t].field[f]
      BY <1>1, <1>3, <1>4 DEF AtGate
    <2>1. p # Unparsed /\ parsed' = p
      BY <1>1
    <2>2. QED
      BY <2>1
  <1>9. AtDone'
    <2> SUFFICES ASSUME pc' = "done"
                 PROVE  round + 1 = Len(answers) /\ \A f \in Heard(round + 1) : parsed'.field[f] = "user"
      BY <1>1, <1>3 DEF AtDone
    <2>1. round + 1 = Len(answers)
      <3>1. round + 1 = MaxRounds
        BY <1>1
      <3>2. round \in Nat /\ Len(answers) \in Nat /\ Len(answers) <= MaxRounds
        BY DEF Inv, TypeOK, Progress
      <3>3. QED
        BY <1>1, <3>1, <3>2, MaxRoundsAssumption
    <2>2. ASSUME p # Unparsed, NEW f \in Heard(round + 1)
          PROVE  parsed'.field[f] = "user"
      <3>1. p.field[f] = "user" /\ f \in Fields
        BY <2>2
      <3>2. parsed' = Defaulted(p) /\ p \in Parses
        BY <1>1, <2>2 DEF ParseType
      <3>3. QED
        BY <3>1, <3>2, DefaultedField
    <2>3. QED
      BY <2>1, <2>2
  <1>10. QED
    BY <1>2, <1>6, <1>7, <1>8, <1>9 DEF ReplayInv

LEMMA AnsweredFields ==
  ASSUME Inv, NEW j \in 0..Len(answers)
  PROVE  Heard(j) \subseteq Fields
  <1>1. answers \in Seq([text : Texts \cup {"blank"}, given : SUBSET Fields])
    BY DEF Inv, TypeOK
  <1>2. ASSUME NEW i \in 1..j PROVE answers[i].given \subseteq Fields
    <2>1. i \in 1..Len(answers)
      BY <1>1
    <2>2. answers[i] \in [text : Texts \cup {"blank"}, given : SUBSET Fields]
      BY <1>1, <2>1, ElementOfSeq, Zenon
    <2>3. QED
      BY <2>2
  <1>3. QED
    BY <1>2 DEF Heard

LEMMA RefusePreserves ==
  ASSUME Inv, ReplayInv, Refuse
  PROVE  ReplayInv'
  <1>1. pc = "top" /\ TextOf(text) = "disallowed" /\ AsksAboutQuery
    BY DEF Refuse
  <1>2. CASE Asks(AboutQuery)
    <2>1. AboutQuery \in Questions
      BY DEF AboutQuery, Questions
    <2>2. QED
      BY <1>1, <1>2, <2>1, ReplayAsks
  <1>3. CASE Consumes(Rewording, Unparsed)
    <2>1. round < Len(answers) /\ round \in Nat /\ Unparsed \in ParseType
      BY <1>3 DEF Consumes, Inv, TypeOK, ParseType
    <2>2. answers[round + 1].given = {}
      <3>1. questions[round + 1] = AboutQuery /\ answers[round + 1] \in Answers(questions[round + 1])
        BY <1>1, <2>1, Replayed DEF WellAsked
      <3>2. QED
        BY <3>1 DEF Answers, AboutQuery
    <2>3. Heard(round + 1) = {}
      BY <1>1, <2>1, <2>2, HeardStep DEF ReplayInv, AtTop
    <2>4. Latest(Rewording, round + 1)
      BY <2>1, LatestStep DEF ReplayInv, AtText, Rewording
    <2>5. QED
      BY <1>3, <2>1, <2>3, <2>4, ReplayConsumes
  <1>4. QED
    BY <1>1, <1>2, <1>3 DEF AsksAboutQuery

\* A steady model adds to what is known and changes nothing of it.
LEMMA ParsePreserves ==
  ASSUME Inv, ReplayInv, Steady, Parse
  PROVE  ReplayInv'
  <1>1. PICK r \in Readings :
          /\ known[text] \in {Unparsed, r} /\ parsed' = r
          /\ known' = [known EXCEPT ![text] = r]
    BY DEF Parse, Steady
  <1>2. /\ pc = "top" /\ pc' = "gate" /\ TextOf(text) # "disallowed"
        /\ UNCHANGED <<query, answers, questions, round, text>>
    BY DEF Parse, log
  <1>3. r # Unparsed /\ text \in 0..MaxRounds /\ known \in [0..MaxRounds -> Parses \cup {Unparsed}]
    BY ReadingsAreParses, UnparsedIsNoParse DEF Inv, TypeOK
  <1>4. known'[text] = r /\ \A t : known[t] # Unparsed /\ t \in 0..MaxRounds => known'[t] = known[t]
    BY <1>1, <1>3
  <1>5. \A t, j : (Latest(t, j)' <=> Latest(t, j)) /\ Heard(j)' = Heard(j)
    BY <1>2 DEF Latest, Heard
  <1>6. \A t : TextOf(t)' = TextOf(t) /\ \A f : DaysStated(t, f)' <=> DaysStated(t, f)
    BY <1>2 DEF DaysStated, TextOf
  <1>7. AllWellAsked'
    <2> SUFFICES ASSUME NEW i \in 1..Len(questions)
                 PROVE  \E t \in 0..(i - 1) : Latest(t, i - 1)' /\ WellAsked(i, t)'
      BY <1>2 DEF AllWellAsked
    <2>1. PICK t \in 0..(i - 1) : Latest(t, i - 1) /\ WellAsked(i, t)
      BY DEF ReplayInv, AllWellAsked
    <2>2. t \in 0..MaxRounds
      BY MaxRoundsAssumption DEF Inv, TypeOK, Progress
    <2>3. ASSUME known[t] # Unparsed PROVE known'[t] = known[t] /\ Wanted(t)' = Wanted(t)
      BY <1>4, <1>6, <2>2, <2>3 DEF Wanted
    <2>4. WellAsked(i, t)'
      BY <1>2, <1>5, <1>6, <2>1, <2>3 DEF WellAsked
    <2>5. QED
      BY <1>5, <2>1, <2>4
  <1>8. AnswersFit'
    BY <1>2 DEF ReplayInv, AnswersFit, Answers
  <1>9. AtText' /\ AtTop' /\ AtDone'
    BY <1>2, <1>5 DEF ReplayInv, AtText, AtTop, AtDone
  <1>10. AtGate'
    <2>1. Heard(round) = {}
      BY <1>2 DEF ReplayInv, AtTop
    <2>2. Heard(round)' = {} /\ TextOf(text)' = TextOf(text)
      BY <1>2, <2>1 DEF Heard, TextOf
    <2>3. known'[text'] = r /\ parsed' = r /\ r # Unparsed
      BY <1>1, <1>2, <1>3, <1>4
    <2>4. QED
      BY <1>2, <2>2, <2>3 DEF AtGate
  <1>11. QED
    BY <1>7, <1>8, <1>9, <1>10 DEF ReplayInv

LEMMA AskFieldsPreserves ==
  ASSUME Inv, ReplayInv, AskFields
  PROVE  ReplayInv'
  <1> DEFINE wanted == Wanted(text) \ Heard(round)
             p == Given(Stated(parsed), answers[round + 1].given)
  <1>1. /\ pc = "gate" /\ Missing(Stated(parsed)) = wanted /\ wanted # {}
        /\ Asks(AboutFields(wanted)) \/ Consumes(text, p)
    BY MissingAtGate DEF AskFields
  <1>2. /\ TextOf(text) # "disallowed" /\ known[text] # Unparsed
        /\ TextOf(text) = "days" => "trip_days" \notin Heard(round)
        /\ \A f \in Fields :
             IF f \in Heard(round) THEN parsed.field[f] = "user"
             ELSE DaysStated(text, f) \/ parsed.field[f] = known[text].field[f]
    BY <1>1 DEF ReplayInv, AtGate
  <1>3. CASE Asks(AboutFields(wanted))
    <2>1. AboutFields(wanted) \in Questions
      BY <1>1, MissingIsFields
    <2>2. QED
      BY <1>1, <1>2, <1>3, <2>1, ReplayAsks
  <1>4. CASE Consumes(text, p)
    <2>1. round < Len(answers) /\ round \in Nat /\ Len(answers) \in Nat
      BY <1>4 DEF Consumes, Inv, TypeOK
    <2>2. answers[round + 1].text \notin Texts /\ answers[round + 1].given \subseteq wanted
      <3>1. /\ questions[round + 1] = AboutFields(wanted)
            /\ answers[round + 1] \in Answers(questions[round + 1])
        BY <1>1, <1>2, <2>1, Replayed DEF WellAsked
      <3>2. QED
        BY <3>1 DEF Answers, AboutFields, Texts
    <2>3. Heard(round + 1) = Heard(round) \cup answers[round + 1].given
      BY <2>1, HeardStep
    <2>4. Heard(round + 1) \subseteq Fields
      BY <2>1, AnsweredFields
    <2>5. Latest(text, round + 1)
      BY <2>1, <2>2, LatestStep DEF ReplayInv, AtText
    <2>6. Stated(parsed) \in Parses /\ parsed \in Parses /\ p \in Parses
      BY <1>1, StatedIsParse, GivenIsParse DEF Inv, Progress
    <2>7. \A f \in Fields :
            p.field[f] = IF f \in answers[round + 1].given THEN "user"
                         ELSE IF DaysStated(text, f) THEN "text" ELSE parsed.field[f]
      BY <2>6, GivenField, StatedField DEF DaysStated
    <2>8. TextOf(text) = "days" => "trip_days" \notin Heard(round + 1)
      BY <1>2, <2>2, <2>3 DEF Wanted, DaysStated
    <2>9. ASSUME NEW f \in Fields
          PROVE  IF f \in Heard(round + 1) THEN p.field[f] = "user"
                 ELSE DaysStated(text, f) \/ p.field[f] = known[text].field[f]
      BY <1>2, <2>3, <2>7, <2>8 DEF DaysStated
    <2>10. p # Unparsed /\ p \in ParseType
      BY <2>6, UnparsedIsNoParse DEF ParseType
    <2> HIDE DEF p
    <2>11. QED
      BY <1>2, <1>4, <2>4, <2>5, <2>8, <2>9, <2>10, ReplayConsumes
  <1>5. QED
    BY <1>1, <1>3, <1>4

\* The loop is left only where every recorded answer was taken: had there been
\* one more, its question would have been asked about a field now missing.
LEMMA SatisfiedPreserves ==
  ASSUME Inv, ReplayInv, Satisfied
  PROVE  ReplayInv'
  <1>1. /\ pc = "gate" /\ Missing(Stated(parsed)) = {} /\ pc' = "done"
        /\ parsed' = Stated(parsed)
        /\ UNCHANGED <<query, answers, questions, known, round, text>>
    BY DEF Satisfied, log
  <1>2. AllWellAsked' /\ AnswersFit'
    BY <1>1, LogKept
  <1>3. \A t, j : (Latest(t, j)' <=> Latest(t, j)) /\ Heard(j)' = Heard(j)
    BY <1>1 DEF Latest, Heard
  <1>4. AtText' /\ AtTop' /\ AtGate'
    BY <1>1, <1>3 DEF ReplayInv, AtText, AtTop, AtGate
  <1>5. round = Len(answers)
    <2>1. Wanted(text) \ Heard(round) = {}
      BY <1>1, MissingAtGate
    <2>2. TextOf(text) # "disallowed"
      BY <1>1 DEF ReplayInv, AtGate
    <2>3. round \in Nat /\ Len(answers) \in Nat /\ round <= Len(answers)
      BY DEF Inv, TypeOK, Progress
    <2>4. ~(round < Len(answers))
      <3> SUFFICES ASSUME round < Len(answers) PROVE FALSE
        OBVIOUS
      <3>1. (round + 1) - 1 = round /\ WellAsked(round + 1, text)
        BY <1>1, <2>3, Replayed
      <3>2. Wanted(text) \ Heard((round + 1) - 1) # {}
        BY <2>2, <3>1 DEF WellAsked
      <3>3. QED
        BY <2>1, <3>1, <3>2
    <2>5. QED
      BY <2>3, <2>4
  <1>6. ASSUME NEW f \in Heard(round) PROVE parsed'.field[f] = "user"
    <2>1. f \in Fields /\ parsed \in Parses
      BY <1>1, <1>5, AnsweredFields DEF Inv, TypeOK, Progress
    <2>2. parsed.field[f] = "user" /\ ~DaysStated(text, f)
      BY <1>1, <2>1 DEF ReplayInv, AtGate, DaysStated
    <2>3. QED
      BY <1>1, <2>1, <2>2, StatedField DEF DaysStated
  <1>7. AtDone'
    BY <1>1, <1>3, <1>5, <1>6 DEF AtDone
  <1>8. QED
    BY <1>2, <1>4, <1>7 DEF ReplayInv

\* An answer more leaves what the earlier ones say as it was.
LEMMA AnswerPreserves ==
  ASSUME Inv, ReplayInv, Answer
  PROVE  ReplayInv'
  <1>1. PICK a \in Answers(questions[Len(questions)]) : answers' = Append(answers, a)
    BY DEF Answer
  <1>2. /\ pc = "paused" /\ pc' = "top" /\ round' = 0 /\ text' = 0
        /\ UNCHANGED <<query, questions, known>>
    BY DEF Answer
  <1>3. PICK n \in Nat : n = Len(answers) /\ Len(questions) = n + 1
    BY <1>2 DEF Inv, TypeOK, Progress
  <1>4. /\ Len(answers') = n + 1 /\ answers'[n + 1] = a
        /\ \A i \in 1..n : answers'[i] = answers[i]
    BY <1>1, <1>3 DEF Inv, TypeOK
  <1>5. ASSUME NEW i \in 1..(n + 1)
        PROVE  \E t \in 0..(i - 1) : Latest(t, i - 1)' /\ WellAsked(i, t)'
    <2>1. PICK t \in 0..(i - 1) : Latest(t, i - 1) /\ WellAsked(i, t)
      BY <1>3 DEF ReplayInv, AllWellAsked
    <2>2. i - 1 \in Nat /\ \A k \in 1..(i - 1) : answers'[k] = answers[k]
      BY <1>4
    <2>3. PICK j \in Nat : j = i - 1
      BY <2>2
    <2>4. /\ Heard(j)' = Heard(j) /\ Latest(t, j)' /\ TextOf(t)' = TextOf(t)
      BY <1>2, <2>1, <2>2, <2>3, PastKept
    <2>5. Wanted(t)' = Wanted(t)
      BY <1>2, <2>4 DEF Wanted, DaysStated
    <2>6. Heard(i - 1)' = Heard(i - 1) /\ Latest(t, i - 1)'
      BY <2>3, <2>4
    <2>7. WellAsked(i, t)'
      BY <1>2, <2>1, <2>4, <2>5, <2>6 DEF WellAsked
    <2>8. QED
      BY <2>6, <2>7
  <1>6. AllWellAsked'
    BY <1>2, <1>3, <1>5 DEF AllWellAsked
  <1>7. AnswersFit'
    <2>1. ASSUME NEW i \in 1..(n + 1) PROVE answers'[i] \in Answers(questions[i])
      BY <1>1, <1>3, <1>4 DEF ReplayInv, AnswersFit
    <2>2. QED
      BY <1>2, <1>4, <2>1 DEF AnswersFit, Answers
  <1>8. Latest(0, 0)' /\ Heard(0)' = {}
    BY DEF Latest, Heard
  <1>9. AtText' /\ AtTop' /\ AtGate' /\ AtDone'
    <2>1. Latest(text, round)' /\ Heard(round)' = {}
      BY <1>2, <1>8 DEF Latest, Heard
    <2>2. QED
      BY <1>2, <2>1 DEF AtText, AtTop, AtGate, AtDone
  <1>10. QED
    BY <1>6, <1>7, <1>9 DEF ReplayInv

LEMMA SteadyStep ==
  ASSUME Inv, SteadyInv, [Next]_vars
  PROVE  SteadyInv'
  <1> SUFFICES ASSUME Steady' PROVE ReplayInv'
    BY DEF SteadyInv
  <1>1. llm' = llm
    BY DEF Next, Step, Refuse, ParseFails, Parse, AskFields, Satisfied, Answer, AsksAboutQuery,
           Asks, Consumes, vars, log
  <1>2. Steady /\ ReplayInv
    BY <1>1 DEF SteadyInv, Steady
  <1>3. CASE Refuse
    BY <1>2, <1>3, RefusePreserves
  <1>4. CASE ParseFails
    BY <1>2, <1>4 DEF Steady, ParseFails
  <1>5. CASE Parse
    BY <1>2, <1>5, ParsePreserves
  <1>6. CASE AskFields
    BY <1>2, <1>6, AskFieldsPreserves
  <1>7. CASE Satisfied
    BY <1>2, <1>7, SatisfiedPreserves
  <1>8. CASE Answer
    BY <1>2, <1>8, AnswerPreserves
  <1>9. CASE UNCHANGED vars
    <2>1. UNCHANGED <<query, answers, questions, known, pc, round, text, parsed>>
      BY <1>9 DEF vars, log, call
    <2>2. AllWellAsked' /\ AnswersFit'
      BY <1>2, <2>1, LogKept
    <2>3. \A t, j : (Latest(t, j)' <=> Latest(t, j)) /\ Heard(j)' = Heard(j)
      BY <2>1 DEF Latest, Heard
    <2>4. \A t : TextOf(t)' = TextOf(t) /\ \A f : DaysStated(t, f)' <=> DaysStated(t, f)
      BY <2>1 DEF DaysStated, TextOf
    <2>5. AtText' /\ AtTop' /\ AtDone'
      BY <1>2, <2>1, <2>3 DEF ReplayInv, AtText, AtTop, AtDone
    <2>6. AtGate'
      BY <1>2, <2>1, <2>3, <2>4 DEF ReplayInv, AtGate
    <2>7. QED
      BY <2>2, <2>5, <2>6 DEF ReplayInv
  <1>10. QED
    BY <1>3, <1>4, <1>5, <1>6, <1>7, <1>8, <1>9 DEF Next, Step

LEMMA SteadyInvariance == Spec => []SteadyInv
  <1>1. Init => SteadyInv
    <2> SUFFICES ASSUME Init PROVE ReplayInv
      BY DEF SteadyInv
    <2>1. Len(questions) = 0 /\ Len(answers) = 0 /\ round = 0 /\ text = 0 /\ pc = "top"
      BY DEF Init
    <2>2. Latest(0, 0) /\ Heard(0) = {}
      BY DEF Latest, Heard
    <2>3. QED
      BY <2>1, <2>2 DEF ReplayInv, AllWellAsked, AnswersFit, AtText, AtTop, AtGate, AtDone
  <1>2. QED
    BY <1>1, SteadyStep, Invariance, PTL DEF Spec

\* With a steady model, every field the user has given in any of the rounds is
\* the user's in the trip that is returned, although each answer starts the
\* node anew and the text is parsed again; the length of the trip is excepted
\* when the model may read a return date.
THEOREM SteadyAnswersKeptHolds == Spec => []SteadyAnswersKept
  <1>1. Inv /\ GuessInv /\ SteadyInv => SteadyAnswersKept
    <2> SUFFICES ASSUME Inv, NoGarbage, NoEnds, Steady, ReplayInv, Done,
                        NEW i \in DOMAIN answers, NEW f \in answers[i].given \cap Deciding
                 PROVE  Delivered(f) = "user"
      BY DEF GuessInv, SteadyInv, SteadyAnswersKept
    <2>1. round = Len(answers) /\ \A g \in Heard(round) : parsed.field[g] = "user"
      BY DEF ReplayInv, AtDone, Done
    <2>2. f \in Heard(round) /\ Len(answers) \in 0..Len(answers)
      BY <2>1 DEF Heard, Inv, TypeOK
    <2>3. parsed.field[f] = "user" /\ f \in Fields
      BY <2>1, <2>2, AnsweredFields
    <2>4. parsed.end # "garbled" /\ (f = "trip_days" => parsed.end # "read")
      BY DEF NoGarbage, NoEnds, Steady, Deciding
    <2>5. QED
      BY <2>3, <2>4 DEF Delivered, Departure, Length
  <1>2. QED
    BY <1>1, GuessInvariance, Invariance, SteadyInvariance, PTL

\* With a steady model, a field that was certain or given when a question about
\* a text was asked is in no later question about that text.
THEOREM SteadyConfirmedNotAskedHolds == Spec => []SteadyConfirmedNotAsked
  <1>1. Inv /\ SteadyInv => SteadyConfirmedNotAsked
    <2> SUFFICES ASSUME Inv, ReplayInv, NEW i \in DOMAIN questions, NEW j \in DOMAIN questions,
                        i < j, \A k \in i..j : questions[k].about = "fields"
                 PROVE  questions[j].fields \subseteq questions[i].fields \ answers[i].given
      BY DEF SteadyInv, SteadyConfirmedNotAsked, ConfirmedNotAsked
    <2>1. PICK n \in Nat : n = Len(answers) /\ Len(questions) \in {n, n + 1}
      BY DEF Inv, TypeOK, Progress
    <2>2. /\ i \in 1..Len(questions) /\ j \in 1..Len(questions) /\ i \in Nat /\ j \in Nat
          /\ j <= n + 1 /\ i <= j - 1
      BY <2>1 DEF Inv, TypeOK
    <2>3. PICK t \in 0..(i - 1) : Latest(t, i - 1) /\ WellAsked(i, t)
      BY <2>2 DEF ReplayInv, AllWellAsked
    <2>4. PICK u \in 0..(j - 1) : Latest(u, j - 1) /\ WellAsked(j, u)
      BY <2>2 DEF ReplayInv, AllWellAsked
    <2>5. ASSUME NEW k \in i..(j - 1) PROVE answers[k].text \notin Texts
      <3>1. k \in 1..Len(answers) /\ k \in i..j
        BY <2>1, <2>2
      <3>2. answers[k] \in Answers(questions[k]) /\ questions[k].about = "fields"
        BY <3>1 DEF ReplayInv, AnswersFit
      <3>3. QED
        BY <3>2 DEF Answers, Texts
    <2>6. Latest(t, j - 1)
      <3>1. t \in 0..(j - 1) /\ \A k \in (t + 1)..(j - 1) : k \in (t + 1)..(i - 1) \/ k \in i..(j - 1)
        BY <2>2
      <3>2. QED
        BY <2>3, <2>5, <3>1 DEF Latest
    <2>7. t = u
      BY <2>2, <2>4, <2>6, LatestUnique
    <2>8. /\ questions[i] = AboutFields(Wanted(t) \ Heard(i - 1))
          /\ questions[j] = AboutFields(Wanted(t) \ Heard(j - 1))
      <3>1. questions[i].about = "fields" /\ questions[j].about = "fields"
        BY <2>2
      <3>2. QED
        BY <2>3, <2>4, <2>7, <3>1 DEF WellAsked, AboutQuery
    <2>9. Heard(i - 1) \subseteq Heard(j - 1) /\ answers[i].given \subseteq Heard(j - 1)
      <3>1. i - 1 \in Nat /\ j - 1 \in Nat /\ i - 1 <= j - 1 /\ i \in 1..(j - 1)
        BY <2>2
      <3>2. answers[i].given \subseteq Heard(j - 1)
        BY <3>1 DEF Heard
      <3>3. QED
        BY <3>1, <3>2, HeardGrows
    <2>10. QED
      BY <2>8, <2>9 DEF AboutFields
  <1>2. QED
    BY <1>1, Invariance, SteadyInvariance, PTL
=============================================================================
