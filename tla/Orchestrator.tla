----------------------------- MODULE Orchestrator -----------------------------
(***************************************************************************)
(* One prompt in the orchestrator node (agents/orchestrator.py): the text  *)
(* is parsed by the language model, and what is missing or uncertain is    *)
(* asked for.                                                              *)
(*                                                                         *)
(* interrupt() ends the Python call.  When the user answers, LangGraph     *)
(* calls the node again from its first line; every interrupt() it comes to *)
(* then returns the next recorded answer at once, until one of them has no *)
(* answer yet and pauses again.  Answers are matched to questions by their *)
(* position, whatever the questions are this time.                         *)
(*                                                                         *)
(* The value of a field is abstracted to where it comes from.              *)
(***************************************************************************)
EXTENDS Naturals, Sequences

CONSTANTS
  MaxRounds,  \* settings.max_clarification_rounds
  Fields,     \* settings.clarification_fields
  Models      \* the language models considered: what each may do

AllFields == {"source", "destination", "dates", "trip_days", "travelers"}

\* "fails": the call may raise.
\* "forgets": two calls with the same text may read it differently.
\* "garbles": a date it is sure of may not be in ISO form.
\* "ends": it may read a return date.
Habits == {"fails", "forgets", "garbles", "ends"}

ASSUME MaxRoundsAssumption == MaxRounds \in Nat \ {0}
ASSUME FieldsAssumption == {"dates", "trip_days"} \subseteq Fields /\ Fields \subseteq AllFields
ASSUME ModelsAssumption == Models \subseteq SUBSET Habits

VARIABLES
  llm,        \* the habits of the model in use
  query,      \* the text of the prompt
  answers,    \* the user's answers, as the checkpoint records them
  questions,  \* history: the questions put to the user
  pc,         \* where the call is
  round,      \* rounds_taken, which is also the number of answers consumed
  text,       \* the text to parse: 0 for the prompt, n for answers[n]
  parsed,     \* the parse, or Unparsed
  known       \* what a model that does not forget has read in each text

log == <<llm, query, answers, questions>>
call == <<pc, round, text, parsed>>
vars == <<log, call, known>>

-----------------------------------------------------------------------------
(* Texts, parses, questions and answers. *)

\* A text that _INJECTION_PATTERNS match, one that states the number of days
\* so that quick_extract_days finds it, or any other.
Texts == {"disallowed", "days", "plain"}

TextOf(n) == IF n = 0 THEN query ELSE answers[n].text

\* A field is blank, a guess below its confidence threshold, read with
\* confidence (garbled or not), stated by the text, given by the user, or
\* defaulted.  An uncertain date is taken to be in ISO form.
Origins == {"none", "guess", "read", "garbled", "text", "user", "default"}

Parses == [field : [Fields -> Origins], end : {"none", "read", "garbled", "default"}]

\* parsed = None
Unparsed == [field |-> [f \in Fields |-> "none"], end |-> "unparsed"]

\* The structured output of the model.
Readings ==
  {r \in [field : [Fields -> {"none", "guess", "read", "garbled"}],
          end : {"none", "read", "garbled"}] :
     /\ \A f \in Fields : r.field[f] = "garbled" => f = "dates" /\ "garbles" \in llm
     /\ r.end = "read" => "ends" \in llm
     /\ r.end = "garbled" => {"ends", "garbles"} \subseteq llm}

AboutQuery == [about |-> "query", fields |-> {}]

AboutFields(fs) == [about |-> "fields", fields |-> fs]

Questions == [about : {"query", "fields"}, fields : SUBSET Fields]

\* A question about the query is answered with another text or a blank one; of
\* the fields asked for, usable values are given for some.
Answers(question) ==
  IF question.about = "query"
    THEN [text : Texts \cup {"blank"}, given : {{}}]
    ELSE [text : {"blank"}, given : SUBSET question.fields]

\* quick_extract_days overrides the model.
Stated(p) == IF TextOf(text) = "days" THEN [p EXCEPT !.field["trip_days"] = "text"] ELSE p

\* Mutant: a field the model has a guess for is not asked about.
Missing_BlankOnly(p) == {f \in Fields : p.field[f] = "none"}

\* _compute_missing
Missing(p) == {f \in Fields : p.field[f] \in {"none", "guess"}}

\* Mutant: an answer fills blanks but does not replace a guess.
Given_FillsBlanks(p, fs) ==
  [p EXCEPT !.field = [f \in Fields |-> IF f \in fs /\ p.field[f] = "none"
                                          THEN "user" ELSE p.field[f]]]

\* Mutant: an answer leaves the field's confidence as it was.
Given_Unsure(p, fs) ==
  [p EXCEPT !.field = [f \in Fields |-> IF f \in fs THEN "guess" ELSE p.field[f]]]

\* _apply_answers
Given(p, fs) ==
  [p EXCEPT !.field = [f \in Fields |-> IF f \in fs THEN "user" ELSE p.field[f]]]

\* _apply_defaults: everything but the source; a default departure comes with
\* its own return date.
Defaulted(p) ==
  [field |-> [f \in Fields |->
                IF \/ p.field[f] = "none" /\ f # "source"
                   \/ p.field[f] = "guess" /\ f = "travelers"
                  THEN "default" ELSE p.field[f]],
   end |-> IF p.field["dates"] = "none" THEN "default" ELSE p.end]

-----------------------------------------------------------------------------
(* interrupt() *)

\* No answer is recorded for it: the graph pauses.
Asks(question) ==
  /\ round = Len(answers)
  /\ pc' = "paused"
  /\ questions' = Append(questions, question)
  /\ UNCHANGED <<llm, query, answers, round, text, parsed, known>>

\* Mutant: a refused or failed text does not use up a round.
Consumes_Uncounted(t, p) ==
  /\ round < Len(answers)
  /\ round' = IF p = Unparsed THEN round ELSE round + 1
  /\ text' = t
  /\ parsed' = IF round' = MaxRounds THEN Defaulted(p) ELSE p
  /\ pc' = IF round' = MaxRounds THEN "done" ELSE IF p = Unparsed THEN "top" ELSE "gate"
  /\ UNCHANGED <<log, known>>

\* Mutant: the loop runs once more.
Consumes_OneMore(t, p) ==
  /\ round < Len(answers)
  /\ round' = round + 1
  /\ text' = t
  /\ parsed' = IF round = MaxRounds /\ p # Unparsed THEN Defaulted(p) ELSE p
  /\ pc' = IF round = MaxRounds THEN "done" ELSE IF p = Unparsed THEN "top" ELSE "gate"
  /\ UNCHANGED <<log, known>>

\* The next recorded answer is taken, and the loop goes on with text t and
\* parse p, to the for-else branch after the last round.
Consumes(t, p) ==
  /\ round < Len(answers)
  /\ round' = round + 1
  /\ text' = t
  /\ parsed' = IF round' = MaxRounds /\ p # Unparsed THEN Defaulted(p) ELSE p
  /\ pc' = IF round' = MaxRounds THEN "done" ELSE IF p = Unparsed THEN "top" ELSE "gate"
  /\ UNCHANGED <<log, known>>

\* `if new_q: query = new_q`
Rewording == IF answers[round + 1].text \in Texts THEN round + 1 ELSE text

-----------------------------------------------------------------------------
(* The node. *)

AsksAboutQuery == Asks(AboutQuery) \/ Consumes(Rewording, Unparsed)

\* Mutant: a disallowed text ends the prompt.
Refuse_GivesUp ==
  /\ pc = "top"
  /\ TextOf(text) = "disallowed"
  /\ pc' = "done"
  /\ UNCHANGED <<log, round, text, parsed, known>>

Refuse ==
  /\ pc = "top"
  /\ TextOf(text) = "disallowed"
  /\ AsksAboutQuery

ParseFails ==
  /\ pc = "top"
  /\ TextOf(text) # "disallowed"
  /\ "fails" \in llm
  /\ AsksAboutQuery

Parse ==
  /\ pc = "top"
  /\ TextOf(text) # "disallowed"
  /\ \E r \in Readings :
       /\ "forgets" \in llm \/ known[text] \in {Unparsed, r}
       /\ parsed' = r
       /\ known' = IF "forgets" \in llm THEN known ELSE [known EXCEPT ![text] = r]
  /\ pc' = "gate"
  /\ UNCHANGED <<log, round, text>>

\* Some field is missing or uncertain.
AskFields ==
  /\ pc = "gate"
  /\ Missing(Stated(parsed)) # {}
  /\ \/ Asks(AboutFields(Missing(Stated(parsed))))
     \/ Consumes(text, Given(Stated(parsed), answers[round + 1].given))

\* All fields are satisfied: the loop is left.
Satisfied ==
  /\ pc = "gate"
  /\ Missing(Stated(parsed)) = {}
  /\ pc' = "done"
  /\ parsed' = Stated(parsed)
  /\ UNCHANGED <<log, round, text, known>>

\* POST /clarify: the node is called again, with one more answer recorded.
Answer ==
  /\ pc = "paused"
  /\ \E a \in Answers(questions[Len(questions)]) : answers' = Append(answers, a)
  /\ pc' = "top"
  /\ round' = 0
  /\ text' = 0
  /\ parsed' = Unparsed
  /\ UNCHANGED <<llm, query, questions, known>>

Init ==
  /\ llm \in Models
  /\ query \in Texts
  /\ answers = <<>>
  /\ questions = <<>>
  /\ pc = "top"
  /\ round = 0
  /\ text = 0
  /\ parsed = Unparsed
  /\ known = [n \in 0..MaxRounds |-> Unparsed]

Step == Refuse \/ ParseFails \/ Parse \/ AskFields \/ Satisfied

Next == Step \/ Answer

Spec == Init /\ [][Next]_vars

\* The node's steps are fair because the model call has a timeout; the user
\* answers every question.
AnsweredSpec == Spec /\ WF_vars(Step) /\ WF_vars(Answer)

-----------------------------------------------------------------------------
(* What is returned. *)

Done == pc = "done"

\* TripDates.departure: a garbled date, or a garbled return date, is replaced
\* by today + 30 days.
Departure ==
  IF parsed.field["dates"] = "garbled" \/ parsed.end = "garbled" THEN "default"
  ELSE parsed.field["dates"]

\* TripDates.trip_days, the only length that is returned: the days up to the
\* return date the model read, whatever number of days was stated or answered;
\* without one, and from a default departure on, that number.
Length ==
  IF parsed.end = "read" /\ parsed.field["dates"] \notin {"none", "garbled"}
    THEN "return" ELSE parsed.field["trip_days"]

\* The outcome of field f.
Delivered(f) ==
  IF f = "dates" THEN Departure ELSE IF f = "trip_days" THEN Length ELSE parsed.field[f]

-----------------------------------------------------------------------------
(* Properties. *)

TypeOK ==
  /\ llm \in SUBSET Habits
  /\ query \in Texts
  /\ answers \in Seq([text : Texts \cup {"blank"}, given : SUBSET Fields])
  /\ questions \in Seq(Questions)
  /\ pc \in {"top", "gate", "paused", "done"}
  /\ round \in 0..MaxRounds
  /\ text \in 0..MaxRounds
  /\ parsed \in Parses \cup {Unparsed}
  /\ known \in [0..MaxRounds -> Parses \cup {Unparsed}]

\* "The system never silently guesses on the first attempt" (plan.md:459): a
\* trip with a default or a guess in it is only returned once every round was
\* spent on asking.  A return date is returned whatever the model's confidence
\* in the dates was.
NeverSilentlyGuesses ==
  Done /\ round < MaxRounds =>
    \A f \in Fields : Delivered(f) \notin {"none", "guess", "default", "return"}

\* The fields that decide the plan.  A return date takes the length of the trip
\* out of the user's hands, though a test says of an answered departure that it
\* "preserves the parsed trip duration" (src/backend/tests/unit/test_agents.py:395).
Deciding == IF "ends" \in llm THEN Fields \ {"trip_days"} ELSE Fields

\* Of the deciding fields none is guessed silently as long as the model's dates
\* are in ISO form, even if its calls fail and its readings contradict each
\* other.
NeverGuessesUngarbled ==
  "garbles" \notin llm /\ Done /\ round < MaxRounds =>
    \A f \in Deciding : Delivered(f) \notin {"none", "guess", "default"}

\* What the user has answered is what is planned, although the node parses the
\* text anew after each answer ("re-entering OrchestratorAgent exactly where it
\* paused", plan.md:440).
AnswersKept ==
  Done => \A i \in DOMAIN answers : \A f \in answers[i].given : Delivered(f) = "user"

\* "already-confirmed fields are never re-parsed by the LLM" (plan.md:440): a
\* field the user gave, or was not asked for because it was certain, is not
\* asked for in a later question about the same text.
ConfirmedNotAsked ==
  \A i, j \in DOMAIN questions :
    i < j /\ (\A k \in i..j : questions[k].about = "fields")
      => questions[j].fields \subseteq questions[i].fields \ answers[i].given

\* Both hold, the first of the deciding fields, with a model that never fails
\* and reads a text the same way each time: the replay after each answer finds
\* its way back.
Steady == {"fails", "forgets", "garbles"} \cap llm = {}
SteadyAnswersKept ==
  Steady /\ Done =>
    \A i \in DOMAIN answers : \A f \in answers[i].given \cap Deciding : Delivered(f) = "user"
SteadyConfirmedNotAsked == Steady => ConfirmedNotAsked

\* The node implements the contract PlanningGraph relies on.
Gate == INSTANCE ClarificationGate WITH
  stage <- IF pc = "paused" THEN "waiting" ELSE IF pc = "done" THEN "returned" ELSE "working",
  heard <- Len(answers),
  used <- IF Done THEN round ELSE 0,
  understood <- Done /\ parsed # Unparsed

KeepsPromise == Gate!Spec

\* A user who answers every question gets a result.
Settles == <>Done
=============================================================================
