------------------------------- MODULE SseStream -------------------------------
(***************************************************************************)
(* The response of /plan or /clarify on its way to the page: the server    *)
(* writes one frame per event (sse_event), the network cuts the bytes      *)
(* anywhere, and the page puts frames together again (lib/sse.ts).         *)
(*                                                                         *)
(* Bytes are ASCII, because json.dumps escapes everything else.  A field   *)
(* name with its colon is one character here, an event name two and a JSON *)
(* text two: enough to cut any of them.  A message is named by its event,  *)
(* and the server sends each message's data with its own name.             *)
(***************************************************************************)
EXTENDS Naturals, SequencesExt

CONSTANTS
  Messages,   \* strings: what the server may send
  MaxFrames   \* bound of the model: frames of a response

ASSUME FramesAssumption == MaxFrames \in Nat

VARIABLES
  frames,    \* the frames of this response
  arrived,   \* bytes of it read so far
  buffer,    \* bytes read and not yet taken for a frame
  given,     \* events handed to the page, each as <<name, data>>
  open       \* the page is still reading

vars == <<frames, arrived, buffer, given, open>>

-----------------------------------------------------------------------------
(* The wire. *)

CR == <<"cr", "">>
LF == <<"lf", "">>
Colon == <<"comment", "">>
Event == <<"event:", "">>
Data == <<"data:", "">>
Name(m) == << <<"name", m>>, <<"name end", m>> >>
Json(m) == << <<"json", m>>, <<"json end", m>> >>

\* The server ends lines with LF; a proxy may rewrite them as CRLF, frame by
\* frame, and put in a comment to keep the connection alive.
Frames == [message : Messages, ending : {<<LF>>, <<CR, LF>>}, comment : BOOLEAN]

\* sse_event
Encoded(f) ==
  (IF f.comment THEN <<Colon>> \o f.ending ELSE <<>>)
  \o <<Event>> \o Name(f.message) \o f.ending
  \o <<Data>> \o Json(f.message) \o f.ending \o f.ending

BytesOf(fs) == FlattenSeq([i \in DOMAIN fs |-> Encoded(fs[i])])

-----------------------------------------------------------------------------
(* The parser. *)

\* Blank lines: where a frame ends and where the next one starts.
Boundaries(b) ==
  {[end |-> i - 1, next |-> i + 2] :
     i \in {i \in 1..(Len(b) - 1) : SubSeq(b, i, i + 1) = <<LF, LF>>}}
  \cup
  {[end |-> i - 1, next |-> i + 4] :
     i \in {i \in 1..(Len(b) - 3) : SubSeq(b, i, i + 3) = <<CR, LF, CR, LF>>}}

\* Mutant: a blank line of LFs is looked for first.
FrameBoundary_LfFirst(b) ==
  CHOOSE x \in Boundaries(b) : \A y \in Boundaries(b) :
    \/ x.next - x.end < y.next - y.end
    \/ x.next - x.end = y.next - y.end /\ x.end <= y.end

\* findFrameBoundary: the first of either kind.
FrameBoundary(b) ==
  CHOOSE x \in Boundaries(b) : \A y \in Boundaries(b) : x.end <= y.end

\* The line of frame f that starts at i: up to LF, without the CR before it.
LineFrom(f, i) ==
  LET ends == {j \in i..Len(f) : f[j] = LF}
      line == SubSeq(f, i, IF ends = {} THEN Len(f) ELSE Min(ends) - 1)
  IN IF ends # {} /\ line # <<>> /\ Last(line) = CR THEN Front(line) ELSE line

LineStarts(f) == {1} \cup {i + 1 : i \in {i \in DOMAIN f : f[i] = LF}}

\* The values of a field, in the order of its lines.
Values(f, field) ==
  LET lines == {i \in LineStarts(f) : LineFrom(f, i) # <<>> /\ LineFrom(f, i)[1] = field}
      order == CHOOSE s \in [1..Cardinality(lines) -> lines] :
                 \A i, j \in DOMAIN s : i < j => s[i] < s[j]
  IN [i \in DOMAIN order |-> Tail(LineFrom(f, order[i]))]

\* JSON.parse accepts white space, such as a CR, after the value.
Trimmed(s) == IF s # <<>> /\ Last(s) = CR THEN Front(s) ELSE s

\* parseFrame and toTripStreamEvent: the event of a frame, if it has data, the
\* data is JSON and the name is known.  The last name counts, and lines of data
\* are joined with LF.
EventsOf(f) ==
  LET names == Values(f, Event)
      data == Values(f, Data)
      joined == FlattenSeq([i \in DOMAIN data |-> IF i = 1 THEN data[i] ELSE <<LF>> \o data[i]])
  IN {e \in Messages \X Messages :
        names # <<>> /\ Last(names) = Name(e[1]) /\ Trimmed(joined) = Json(e[2])}

Give(f) == given' = given \o SetToSeq(EventsOf(f))

-----------------------------------------------------------------------------
(* parseSseStream *)

\* Mutant: a chunk takes the place of what was left over.
Read_Replaces ==
  /\ open
  /\ Boundaries(buffer) = {}
  /\ arrived < Len(BytesOf(frames))
  /\ arrived' \in (arrived + 1)..Len(BytesOf(frames))
  /\ buffer' = SubSeq(BytesOf(frames), arrived + 1, arrived')
  /\ UNCHANGED <<frames, given, open>>

\* A chunk of any length arrives, once every frame in the buffer is taken.
Read ==
  /\ open
  /\ Boundaries(buffer) = {}
  /\ arrived < Len(BytesOf(frames))
  /\ arrived' \in (arrived + 1)..Len(BytesOf(frames))
  /\ buffer' = buffer \o SubSeq(BytesOf(frames), arrived + 1, arrived')
  /\ UNCHANGED <<frames, given, open>>

TakeFrame ==
  /\ open
  /\ Boundaries(buffer) # {}
  /\ LET b == FrameBoundary(buffer)
     IN /\ Give(SubSeq(buffer, 1, b.end))
        /\ buffer' = SubSeq(buffer, b.next, Len(buffer))
  /\ UNCHANGED <<frames, arrived, open>>

\* The response ends, perhaps early: what is left is taken for a frame.
EndOfBody ==
  /\ open
  /\ Boundaries(buffer) = {}
  /\ Give(buffer)
  /\ open' = FALSE
  /\ UNCHANGED <<frames, arrived, buffer>>

\* read() rejects: the connection broke or the request was aborted.
ConnectionBreaks ==
  /\ open
  /\ Boundaries(buffer) = {}
  /\ open' = FALSE
  /\ UNCHANGED <<frames, arrived, buffer, given>>

-----------------------------------------------------------------------------
Init ==
  /\ frames \in BoundedSeq(Frames, MaxFrames)
  /\ arrived = 0
  /\ buffer = <<>>
  /\ given = <<>>
  /\ open = TRUE

Next == Read \/ TakeFrame \/ EndOfBody \/ ConnectionBreaks

Spec == Init /\ [][Next]_vars

-----------------------------------------------------------------------------
(* Properties. *)

Sent == [i \in DOMAIN frames |-> <<frames[i].message, frames[i].message>>]

\* "Handles frames split across chunk boundaries, multiple events within one
\* chunk, both CRLF and LF line endings" (lib/sse.ts:11): however the response
\* is cut, and wherever it ends, the page is given what the server sent, in
\* its order, without a gap, and nothing made of half a frame.
GivenAsSent == IsPrefix(given, Sent)

\* "retains a trailing partial frame until more data (or stream end) completes
\* it" (lib/sse.ts:12), and only a partial one: while the page waits for more,
\* it has been given every frame that has arrived to the end.
NothingHeldBack ==
  open /\ Boundaries(buffer) = {} =>
    \A k \in DOMAIN frames :
      Len(BytesOf(SubSeq(frames, 1, k))) <= arrived => Len(given) >= k
=============================================================================
