---------------------------- MODULE SseStreamProofs ----------------------------
(***************************************************************************)
(* The stream parser, for every set of messages, every response of whole   *)
(* frames and every way to cut it: what the page is given is a beginning   *)
(* of what the server sent, and while the page waits, it has been given    *)
(* every frame that has arrived.                                           *)
(*                                                                         *)
(* From the bytes of one frame: where its lines are (EncodedIs), what is   *)
(* made of a beginning of it (EventsOfBeginning), and where its first      *)
(* blank line is (FirstBlankLine).  Frames follow each other in a response *)
(* (FrameBytes), so the invariant says of the buffer that it is what has   *)
(* arrived after the frames given (StreamInv).                             *)
(***************************************************************************)
EXTENDS SseStream, FiniteSetTheorems, SequenceTheorems, WellFoundedInduction, TLAPS

-----------------------------------------------------------------------------
(* The bytes of a frame. *)

\* What a response may be made of.
Bytes ==
  {CR, LF, Colon, Event, Data} \cup
  UNION {{Name(m)[1], Name(m)[2], Json(m)[1], Json(m)[2]} : m \in Messages}

\* Line ends and field names are nothing else.
LEMMA BytesDiffer ==
  /\ LF \notin {CR, Colon, Event, Data} /\ CR \notin {LF, Colon, Event, Data}
  /\ Event \notin {CR, LF, Colon, Data} /\ Data \notin {CR, LF, Colon, Event}
  /\ \A m : /\ Name(m)[1] \notin {CR, LF, Colon, Event, Data}
            /\ Name(m)[2] \notin {CR, LF, Colon, Event, Data}
            /\ Json(m)[1] \notin {CR, LF, Colon, Event, Data}
            /\ Json(m)[2] \notin {CR, LF, Colon, Event, Data}
  BY DEF CR, LF, Colon, Event, Data, Name, Json

\* An event name and a JSON text are two bytes each.
LEMMA MessageBytes ==
  ASSUME NEW m \in Messages
  PROVE  /\ Name(m) = <<Name(m)[1], Name(m)[2]>> /\ Name(m) \in Seq(Bytes)
         /\ Json(m) = <<Json(m)[1], Json(m)[2]>> /\ Json(m) \in Seq(Bytes)
  <1>1. PICK n1, n2, j1, j2 :
          Name(m)[1] = n1 /\ Name(m)[2] = n2 /\ Json(m)[1] = j1 /\ Json(m)[2] = j2
    OBVIOUS
  <1>2. n1 \in Bytes /\ n2 \in Bytes /\ j1 \in Bytes /\ j2 \in Bytes
    BY <1>1 DEF Bytes
  <1>3. Name(m) = <<n1, n2>> /\ Json(m) = <<j1, j2>>
    BY <1>1 DEF Name, Json
  <1>4. QED
    BY <1>1, <1>2, <1>3

\* Where the event field and the data field of a frame start, and its length.
EventAt(f) == IF f.comment THEN 2 + Len(f.ending) ELSE 1
DataAt(f) == EventAt(f) + 3 + Len(f.ending)
Size(f) == DataAt(f) + 2 + 2 * Len(f.ending)

\* Where a frame has its LFs.
Feeds(f) ==
  {DataAt(f) - 1, DataAt(f) + 2 + Len(f.ending), Size(f)} \cup
  (IF f.comment THEN {1 + Len(f.ending)} ELSE {})

\* e is frame f, byte by byte.
IsLaidOut(e, f) ==
  /\ e \in Seq(Bytes) /\ Len(e) = Size(f)
  /\ e[EventAt(f)] = Event /\ e[DataAt(f)] = Data
  /\ e[EventAt(f) + 1] = Name(f.message)[1] /\ e[EventAt(f) + 2] = Name(f.message)[2]
  /\ e[DataAt(f) + 1] = Json(f.message)[1] /\ e[DataAt(f) + 2] = Json(f.message)[2]
  /\ \A i \in 1..Size(f) :
       /\ e[i] = LF <=> i \in Feeds(f)
       /\ e[i] = Event => i = EventAt(f)
       /\ e[i] = Data => i = DataAt(f)
       /\ e[i] = CR <=> i + 1 \in Feeds(f) /\ Len(f.ending) = 2

\* sse_event makes bytes.
LEMMA EncodedTyped ==
  ASSUME NEW f \in Frames
  PROVE  Encoded(f) \in Seq(Bytes)
  <1> DEFINE p1 == IF f.comment THEN <<Colon>> \o f.ending ELSE <<>>
             p2 == p1 \o <<Event>>
             p3 == p2 \o Name(f.message)
             p4 == p3 \o f.ending
             p5 == p4 \o <<Data>>
             p6 == p5 \o Json(f.message)
             p7 == p6 \o f.ending
  <1>1. f.ending \in {<<LF>>, <<CR, LF>>} /\ f.message \in Messages
    BY DEF Frames
  <1>2. CR \in Bytes /\ LF \in Bytes /\ Colon \in Bytes /\ Event \in Bytes /\ Data \in Bytes
    BY DEF Bytes
  <1>3. /\ <<Event>> \in Seq(Bytes) /\ <<Data>> \in Seq(Bytes) /\ <<Colon>> \in Seq(Bytes)
        /\ f.ending \in Seq(Bytes)
    <2>1. <<LF>> \in Seq(Bytes) /\ <<CR, LF>> \in Seq(Bytes)
      BY <1>2
    <2>2. f.ending \in Seq(Bytes)
      BY <1>1, <2>1
    <2>3. <<Event>> \in Seq(Bytes) /\ <<Data>> \in Seq(Bytes) /\ <<Colon>> \in Seq(Bytes)
      BY <1>2
    <2>4. QED
      BY <2>2, <2>3
  <1>4. Name(f.message) \in Seq(Bytes) /\ Json(f.message) \in Seq(Bytes)
    BY <1>1, MessageBytes
  <1>5. p1 \in Seq(Bytes)
    <2>1. <<Colon>> \o f.ending \in Seq(Bytes)
      BY <1>3, ConcatProperties
    <2>2. QED
      BY <2>1
  <1> HIDE DEF p1
  <1>6. p2 \in Seq(Bytes)
    BY <1>5, <1>3, ConcatProperties
  <1> HIDE DEF p2
  <1>7. p3 \in Seq(Bytes)
    BY <1>6, <1>4, ConcatProperties
  <1> HIDE DEF p3
  <1>8. p4 \in Seq(Bytes)
    BY <1>7, <1>3, ConcatProperties
  <1> HIDE DEF p4
  <1>9. p5 \in Seq(Bytes)
    BY <1>8, <1>3, ConcatProperties
  <1> HIDE DEF p5
  <1>10. p6 \in Seq(Bytes)
    BY <1>9, <1>4, ConcatProperties
  <1> HIDE DEF p6
  <1>11. p7 \in Seq(Bytes)
    BY <1>10, <1>3, ConcatProperties
  <1> HIDE DEF p7
  <1>12. Encoded(f) = p7 \o f.ending
    BY DEF Encoded, p1, p2, p3, p4, p5, p6, p7
  <1>13. QED
    BY <1>11, <1>12, <1>3, ConcatProperties

\* Each of the four forms of a frame has its fields and line ends in place.
LEMMA EncodedIs ==
  ASSUME NEW f \in Frames
  PROVE  IsLaidOut(Encoded(f), f)
  <1> DEFINE n1 == Name(f.message)[1]
             n2 == Name(f.message)[2]
             j1 == Json(f.message)[1]
             j2 == Json(f.message)[2]
  <1>1. /\ f.ending \in {<<LF>>, <<CR, LF>>} /\ f.comment \in BOOLEAN
        /\ Encoded(f) \in Seq(Bytes)
    BY EncodedTyped DEF Frames
  <1>2. Name(f.message) = <<n1, n2>> /\ Json(f.message) = <<j1, j2>>
    BY MessageBytes DEF Frames
  <1>3. /\ LF \notin {n1, n2, j1, j2} /\ CR \notin {n1, n2, j1, j2}
        /\ Event \notin {n1, n2, j1, j2} /\ Data \notin {n1, n2, j1, j2}
    BY BytesDiffer
  <1> HIDE DEF n1, n2, j1, j2
  <1>4. CASE f.ending = <<LF>> /\ ~f.comment
    <2> DEFINE e == <<>> \o <<Event>> \o <<n1, n2>> \o <<LF>> \o <<Data>>
                    \o <<j1, j2>> \o <<LF>> \o <<LF>>
    <2>1. Encoded(f) = e
      BY <1>1, <1>2, <1>4 DEF Encoded
    <2>2. EventAt(f) = 1 /\ DataAt(f) = 5 /\ Size(f) = 9 /\ Feeds(f) = {4, 8, 9}
      BY <1>4 DEF EventAt, DataAt, Size, Feeds
    <2>3. Len(e) = 9
      OBVIOUS
    <2>4. /\ e[1] = Event /\ e[2] = n1 /\ e[3] = n2 /\ e[4] = LF /\ e[5] = Data /\ e[6] = j1
          /\ e[7] = j2 /\ e[8] = LF /\ e[9] = LF
      OBVIOUS
    <2>5. 1..9 = {1, 2, 3, 4, 5, 6, 7, 8, 9}
      OBVIOUS
    <2> HIDE DEF e
    <2>6. Len(f.ending) = 1
      BY <1>4
    <2>7. QED
      BY <1>1, <1>3, <2>1, <2>2, <2>3, <2>4, <2>5, <2>6, BytesDiffer DEF IsLaidOut, n1, n2, j1, j2
  <1>5. CASE f.ending = <<LF>> /\ f.comment
    <2> DEFINE e == (<<Colon>> \o <<LF>>) \o <<Event>> \o <<n1, n2>> \o <<LF>> \o <<Data>>
                    \o <<j1, j2>> \o <<LF>> \o <<LF>>
    <2>1. Encoded(f) = e
      BY <1>1, <1>2, <1>5 DEF Encoded
    <2>2. EventAt(f) = 3 /\ DataAt(f) = 7 /\ Size(f) = 11 /\ Feeds(f) = {6, 10, 11, 2}
      BY <1>5 DEF EventAt, DataAt, Size, Feeds
    <2>3. Len(e) = 11
      OBVIOUS
    <2>4. /\ e[1] = Colon /\ e[2] = LF /\ e[3] = Event /\ e[4] = n1 /\ e[5] = n2 /\ e[6] = LF
          /\ e[7] = Data /\ e[8] = j1 /\ e[9] = j2 /\ e[10] = LF /\ e[11] = LF
      OBVIOUS
    <2>5. 1..11 = {1, 2, 3, 4, 5, 6, 7, 8, 9, 10, 11}
      OBVIOUS
    <2> HIDE DEF e
    <2>6. Len(f.ending) = 1
      BY <1>5
    <2>7. QED
      BY <1>1, <1>3, <2>1, <2>2, <2>3, <2>4, <2>5, <2>6, BytesDiffer DEF IsLaidOut, n1, n2, j1, j2
  <1>6. CASE f.ending = <<CR, LF>> /\ ~f.comment
    <2> DEFINE e == <<>> \o <<Event>> \o <<n1, n2>> \o <<CR, LF>> \o <<Data>>
                    \o <<j1, j2>> \o <<CR, LF>> \o <<CR, LF>>
    <2>1. Encoded(f) = e
      BY <1>1, <1>2, <1>6 DEF Encoded
    <2>2. EventAt(f) = 1 /\ DataAt(f) = 6 /\ Size(f) = 12 /\ Feeds(f) = {5, 10, 12}
      BY <1>6 DEF EventAt, DataAt, Size, Feeds
    <2>3. Len(e) = 12
      OBVIOUS
    <2>4. /\ e[1] = Event /\ e[2] = n1 /\ e[3] = n2 /\ e[4] = CR /\ e[5] = LF /\ e[6] = Data
          /\ e[7] = j1 /\ e[8] = j2 /\ e[9] = CR /\ e[10] = LF /\ e[11] = CR /\ e[12] = LF
      OBVIOUS
    <2>5. 1..12 = {1, 2, 3, 4, 5, 6, 7, 8, 9, 10, 11, 12}
      OBVIOUS
    <2> HIDE DEF e
    <2>6. Len(f.ending) = 2
      BY <1>6
    <2>7. QED
      BY <1>1, <1>3, <2>1, <2>2, <2>3, <2>4, <2>5, <2>6, BytesDiffer DEF IsLaidOut, n1, n2, j1, j2
  <1>7. CASE f.ending = <<CR, LF>> /\ f.comment
    <2> DEFINE e == (<<Colon>> \o <<CR, LF>>) \o <<Event>> \o <<n1, n2>> \o <<CR, LF>> \o <<Data>>
                    \o <<j1, j2>> \o <<CR, LF>> \o <<CR, LF>>
    <2>1. Encoded(f) = e
      BY <1>1, <1>2, <1>7 DEF Encoded
    <2>2. EventAt(f) = 4 /\ DataAt(f) = 9 /\ Size(f) = 15 /\ Feeds(f) = {8, 13, 15, 3}
      BY <1>7 DEF EventAt, DataAt, Size, Feeds
    <2>3. Len(e) = 15
      OBVIOUS
    <2>4. /\ e[1] = Colon /\ e[2] = CR /\ e[3] = LF /\ e[4] = Event /\ e[5] = n1 /\ e[6] = n2
          /\ e[7] = CR /\ e[8] = LF /\ e[9] = Data /\ e[10] = j1 /\ e[11] = j2 /\ e[12] = CR
          /\ e[13] = LF /\ e[14] = CR /\ e[15] = LF
      OBVIOUS
    <2>5. 1..15 = {1, 2, 3, 4, 5, 6, 7, 8, 9, 10, 11, 12, 13, 14, 15}
      OBVIOUS
    <2> HIDE DEF e
    <2>6. Len(f.ending) = 2
      BY <1>7
    <2>7. QED
      BY <1>1, <1>3, <2>1, <2>2, <2>3, <2>4, <2>5, <2>6, BytesDiffer DEF IsLaidOut, n1, n2, j1, j2
  <1>8. QED
    BY <1>1, <1>4, <1>5, <1>6, <1>7

-----------------------------------------------------------------------------
(* Numbers and sequences. *)

\* A set of numbers that is not empty has a least one.
LEMMA Smallest ==
  ASSUME NEW S \in SUBSET Nat, S # {}
  PROVE  \E x \in S : \A y \in S : x <= y
  <1> DEFINE Less == OpToRel(<, Nat)
  <1>1. \A i, j \in Nat : i < j => <<i, j>> \in Less
    BY DEF OpToRel
  <1>2. IsWellFoundedOn(Less, Nat)
    BY NatLessThanWellFounded
  <1> HIDE DEF Less
  <1>3. PICK x \in S : \A y \in S : ~(<<y, x>> \in Less)
    BY <1>2, WFMin
  <1>4. \A y \in S : ~(y < x)
    BY <1>1, <1>3
  <1>5. QED
    BY <1>3, <1>4

\* Induction over a set of numbers.
LEMMA CountUp ==
  ASSUME NEW S, \A n \in Nat : (\A m \in 0..(n - 1) : m \in S) => n \in S
  PROVE  \A n \in Nat : n \in S
  <1> SUFFICES ASSUME Nat \ S # {} PROVE FALSE
    OBVIOUS
  <1>1. PICK t \in Nat \ S : \A u \in Nat \ S : t <= u
    BY Smallest
  <1>2. \A m \in 0..(t - 1) : m \in S
    BY <1>1
  <1>3. QED
    BY <1>1, <1>2

\* What the provers need to know of a part of a sequence.
LEMMA Part ==
  ASSUME NEW S, NEW s \in Seq(S), NEW i \in 1..(Len(s) + 1), NEW j \in 0..Len(s), i <= j + 1
  PROVE  /\ SubSeq(s, i, j) \in Seq(S)
         /\ Len(SubSeq(s, i, j)) = j - i + 1
         /\ \A k \in 1..(j - i + 1) : SubSeq(s, i, j)[k] = s[i + k - 1]
  <1>1. Len(s) \in Nat /\ \A k \in 1..Len(s) : s[k] \in S
    OBVIOUS
  <1>2. i \in Int /\ j \in Int /\ \A k \in i..j : s[k] \in S
    BY <1>1
  <1>3. QED
    BY <1>1, <1>2, SubSeqProperties

\* The same of a part from after the first o elements up to the n-th.
LEMMA Slice ==
  ASSUME NEW S, NEW s \in Seq(S), NEW o \in 0..Len(s), NEW n \in o..Len(s)
  PROVE  /\ SubSeq(s, o + 1, n) \in Seq(S)
         /\ Len(SubSeq(s, o + 1, n)) = n - o
         /\ \A k \in 1..(n - o) : SubSeq(s, o + 1, n)[k] = s[o + k]
  <1>1. Len(s) \in Nat
    OBVIOUS
  <1>2. PICK t : t = SubSeq(s, o + 1, n)
    OBVIOUS
  <1>3. PICK i \in 1..(Len(s) + 1) : i = o + 1 /\ i <= n + 1 /\ n \in 0..Len(s)
    BY <1>1
  <1>4. t \in Seq(S) /\ Len(t) = n - i + 1 /\ \A k \in 1..(n - i + 1) : t[k] = s[i + k - 1]
    BY <1>2, <1>3, Part
  <1>5. n - i + 1 = n - o /\ \A k \in Nat : i + k - 1 = o + k
    BY <1>1, <1>3
  <1>6. \A k \in 1..(n - o) : t[k] = s[o + k]
    <2>1. TAKE k \in 1..(n - o)
    <2>2. k \in Nat /\ k \in 1..(n - i + 1)
      BY <1>1, <1>5
    <2>3. t[k] = s[i + k - 1] /\ i + k - 1 = o + k
      BY <1>4, <1>5, <2>2
    <2>4. QED
      BY <2>3
  <1>7. QED
    BY <1>2, <1>4, <1>5, <1>6

\* Two parts of a sequence that meet are one part.
LEMMA SlicesJoin ==
  ASSUME NEW S, NEW s \in Seq(S), NEW o \in 0..Len(s), NEW m \in o..Len(s), NEW n \in m..Len(s)
  PROVE  SubSeq(s, o + 1, m) \o SubSeq(s, m + 1, n) = SubSeq(s, o + 1, n)
  <1>1. m \in 0..Len(s) /\ n \in o..Len(s) /\ Len(s) \in Nat
    OBVIOUS
  <1>2. PICK b : /\ b = SubSeq(s, o + 1, m)
                    /\ b \in Seq(S) /\ Len(b) = m - o
                    /\ \A k \in 1..(m - o) : b[k] = s[o + k]
    <2>1. PICK z : z = SubSeq(s, o + 1, m)
      OBVIOUS
    <2>2. /\ z \in Seq(S) /\ Len(z) = m - o
          /\ \A k \in 1..(m - o) : z[k] = s[o + k]
      BY <2>1, Slice
    <2>3. QED
      BY <2>1, <2>2
  <1>3. PICK c : /\ c = SubSeq(s, m + 1, n)
                    /\ c \in Seq(S) /\ Len(c) = n - m
                    /\ \A k \in 1..(n - m) : c[k] = s[m + k]
    <2>1. PICK z : z = SubSeq(s, m + 1, n)
      OBVIOUS
    <2>2. /\ z \in Seq(S) /\ Len(z) = n - m
          /\ \A k \in 1..(n - m) : z[k] = s[m + k]
      BY <2>1, <1>1, Slice
    <2>3. QED
      BY <2>1, <2>2
  <1>4. PICK d : /\ d = SubSeq(s, o + 1, n)
                    /\ d \in Seq(S) /\ Len(d) = n - o
                    /\ \A k \in 1..(n - o) : d[k] = s[o + k]
    <2>1. PICK z : z = SubSeq(s, o + 1, n)
      OBVIOUS
    <2>2. /\ z \in Seq(S) /\ Len(z) = n - o
          /\ \A k \in 1..(n - o) : z[k] = s[o + k]
      BY <2>1, <1>1, Slice
    <2>3. QED
      BY <2>1, <2>2
  <1>5. PICK e : e = b \o c
    OBVIOUS
  <1>6. /\ e \in Seq(S) /\ Len(e) = Len(b) + Len(c)
        /\ \A i \in 1..(Len(b) + Len(c)) : e[i] = IF i <= Len(b) THEN b[i] ELSE c[i - Len(b)]
    BY <1>2, <1>3, <1>5, ConcatProperties
  <1>7. Len(b) + Len(c) = n - o
    BY <1>1, <1>2, <1>3
  <1>8. ASSUME NEW k \in 1..(n - o) PROVE e[k] = d[k]
    <2>1. d[k] = s[o + k]
      BY <1>4
    <2>2. e[k] = IF k <= m - o THEN b[k] ELSE c[k - (m - o)]
      BY <1>2, <1>6, <1>7
    <2>3. CASE k <= m - o
      <3>1. k \in 1..(m - o)
        BY <1>1, <2>3
      <3>2. QED
        BY <1>2, <2>1, <2>2, <2>3, <3>1
    <2>4. CASE k > m - o
      <3>1. PICK j \in 1..(n - m) : j = k - (m - o) /\ m + j = o + k /\ ~(k <= m - o)
        BY <1>1, <2>4
      <3>2. e[k] = c[j] /\ c[j] = s[m + j]
        BY <1>3, <2>2, <3>1
      <3>3. QED
        BY <2>1, <3>1, <3>2
    <2>5. QED
      BY <1>1, <2>3, <2>4
  <1>9. e = d
    BY <1>4, <1>6, <1>7, <1>8, SeqEqual
  <1>10. QED
    BY <1>2, <1>3, <1>4, <1>5, <1>9, Zenon

\* The rest of a part is a part.
LEMMA SliceOfSlice ==
  ASSUME NEW S, NEW s \in Seq(S), NEW o \in 0..Len(s), NEW n \in o..Len(s), NEW k \in 0..(n - o),
         NEW b, b = SubSeq(s, o + 1, n)
  PROVE  SubSeq(b, k + 1, Len(b)) = SubSeq(s, o + k + 1, n)
  <1>1. Len(s) \in Nat /\ o + k \in 0..Len(s) /\ n \in (o + k)..Len(s)
    OBVIOUS
  <1>2. b \in Seq(S) /\ Len(b) = n - o /\ \A i \in 1..(n - o) : b[i] = s[o + i]
    BY Slice
  <1>3. PICK l : l = n - o /\ l = Len(b) /\ k \in 0..Len(b) /\ l \in k..Len(b)
    BY <1>1, <1>2
  <1>4. PICK c : /\ c = SubSeq(b, k + 1, l)
                 /\ c \in Seq(S) /\ Len(c) = l - k
                 /\ \A i \in 1..(l - k) : c[i] = b[k + i]
    <2>1. PICK z : z = SubSeq(b, k + 1, l)
      OBVIOUS
    <2>2. b \in Seq(S)
      BY <1>2
    <2>3. z \in Seq(S) /\ Len(z) = l - k /\ \A i \in 1..(l - k) : z[i] = b[k + i]
      BY <1>3, <2>1, <2>2, Slice
    <2>4. QED
      BY <2>1, <2>3
  <1>5. PICK d : /\ d = SubSeq(s, (o + k) + 1, n)
                    /\ d \in Seq(S) /\ Len(d) = n - (o + k)
                    /\ \A i \in 1..(n - (o + k)) : d[i] = s[(o + k) + i]
    <2>1. PICK z : z = SubSeq(s, (o + k) + 1, n)
      OBVIOUS
    <2>2. /\ z \in Seq(S) /\ Len(z) = n - (o + k)
          /\ \A i \in 1..(n - (o + k)) : z[i] = s[(o + k) + i]
      BY <2>1, <1>1, Slice
    <2>3. QED
      BY <2>1, <2>2
  <1>6. l - k = n - (o + k)
    BY <1>1, <1>3
  <1>7. ASSUME NEW i \in 1..(n - (o + k)) PROVE c[i] = d[i]
    <2>1. PICK j \in 1..(n - o) : j = k + i /\ o + j = (o + k) + i
      BY <1>1
    <2>2. c[i] = b[j]
      BY <1>4, <1>6, <2>1
    <2>3. b[j] = s[o + j]
      BY <1>2
    <2>4. d[i] = s[(o + k) + i]
      BY <1>5
    <2>5. QED
      BY <2>1, <2>2, <2>3, <2>4
  <1>8. c = d
    BY <1>4, <1>5, <1>6, <1>7, SeqEqual
  <1>9. QED
    BY <1>3, <1>4, <1>5, <1>8

\* A beginning of a sequence with the next element is a longer beginning.
LEMMA OneMore ==
  ASSUME NEW S, NEW g \in Seq(S), NEW s \in Seq(S), Len(g) < Len(s),
         \A i \in 1..Len(g) : g[i] = s[i], NEW x, x = s[Len(g) + 1]
  PROVE  g \o <<x>> = SubSeq(s, 1, Len(g) + 1)
  <1>1. Len(g) \in Nat /\ Len(s) \in Nat
    OBVIOUS
  <1>2. PICK n \in Nat : n = Len(g) /\ n + 1 \in 1..Len(s) /\ x = s[n + 1]
    BY <1>1
  <1>3. PICK e : e = <<x>>
    OBVIOUS
  <1>4. e \in Seq(S) /\ Len(e) = 1 /\ e[1] = x
    BY <1>2, <1>3
  <1>5. PICK h : h = g \o e
    OBVIOUS
  <1>6. /\ h \in Seq(S) /\ Len(h) = Len(g) + Len(e)
        /\ \A i \in 1..(Len(g) + Len(e)) : h[i] = IF i <= Len(g) THEN g[i] ELSE e[i - Len(g)]
    BY <1>4, <1>5, ConcatProperties
  <1>7. ASSUME NEW i \in 1..(n + 1) PROVE h[i] = s[i]
    <2>1. h[i] = IF i <= n THEN g[i] ELSE e[i - n]
      BY <1>2, <1>4, <1>6
    <2>2. CASE i <= n
      BY <1>2, <2>1, <2>2
    <2>3. CASE i = n + 1
      <3>1. ~(i <= n) /\ i - n = 1
        BY <2>3
      <3>2. h[i] = e[1]
        BY <2>1, <3>1
      <3>3. QED
        BY <1>2, <1>4, <2>3, <3>2
    <2>4. QED
      BY <2>2, <2>3
  <1>8. PICK t : t = SubSeq(s, 1, n + 1)
    OBVIOUS
  <1>9. t \in Seq(S) /\ Len(t) = n + 1 /\ \A i \in 1..(n + 1) : t[i] = s[i]
    <2>1. 1 \in 1..(Len(s) + 1) /\ n + 1 \in 0..Len(s) /\ 1 <= (n + 1) + 1
      BY <1>1, <1>2
    <2>2. QED
      BY <1>2, <1>8, <2>1, Part
  <1>10. h = t
    BY <1>2, <1>4, <1>6, <1>7, <1>9, SeqEqual
  <1>11. QED
    BY <1>2, <1>3, <1>5, <1>8, <1>10, Zenon

LEMMA FlattenOne ==
  ASSUME NEW x
  PROVE  FlattenSeq(<<x>>) = x
  BY DEF FlattenSeq

LEMMA SetToSeqNone == SetToSeq({}) = <<>>
  <1>1. Cardinality({}) = 0
    BY FS_EmptySet
  <1>2. SetToSeq({}) \in [1..0 -> {}]
    <2> DEFINE F == {f \in [1..0 -> {}] : IsInjective(f)}
    <2>1. SetToSeq({}) = CHOOSE f : f \in F
      BY <1>1 DEF SetToSeq
    <2>2. [i \in 1..0 |-> i] \in F
      BY DEF IsInjective
    <2>3. QED
      BY <2>1, <2>2
  <1>3. QED
    BY <1>2

LEMMA SetToSeqOne ==
  ASSUME NEW x
  PROVE  SetToSeq({x}) = <<x>>
  <1>1. Cardinality({x}) = 1
    BY FS_Singleton
  <1>2. SetToSeq({x}) \in [1..1 -> {x}]
    <2> DEFINE F == {f \in [1..1 -> {x}] : IsInjective(f)}
    <2>1. SetToSeq({x}) = CHOOSE f : f \in F
      BY <1>1 DEF SetToSeq
    <2>2. [i \in 1..1 |-> x] \in F
      BY DEF IsInjective
    <2>3. QED
      BY <2>1, <2>2
  <1>3. QED
    BY <1>2

-----------------------------------------------------------------------------
(* Lines and fields. *)

\* The last line of a text, without a line end.
LEMMA LineToEnd ==
  ASSUME NEW s \in Seq(Bytes), NEW i \in 1..(Len(s) + 1), \A j \in i..Len(s) : s[j] # LF
  PROVE  LineFrom(s, i) = SubSeq(s, i, Len(s))
  <1>1. {j \in i..Len(s) : s[j] = LF} = {}
    OBVIOUS
  <1>2. QED
    BY <1>1 DEF LineFrom

\* A line with a line end: up to it, without a CR.
LEMMA LineToFeed ==
  ASSUME NEW s \in Seq(Bytes), NEW i \in 1..Len(s), NEW e \in i..Len(s), s[e] = LF,
         \A j \in i..(e - 1) : s[j] # LF
  PROVE  LineFrom(s, i) = SubSeq(s, i, IF e > i /\ s[e - 1] = CR THEN e - 2 ELSE e - 1)
  <1> DEFINE ends == {j \in i..Len(s) : s[j] = LF}
             line == SubSeq(s, i, e - 1)
  <1>1. e \in ends /\ \A j \in ends : e <= j
    OBVIOUS
  <1>2. Min(ends) = e
    <2>1. Min(ends) \in ends /\ \A j \in ends : Min(ends) <= j
      BY <1>1 DEF Min
    <2>2. QED
      BY <1>1, <2>1
  <1>3. LineFrom(s, i) = IF line # <<>> /\ Last(line) = CR THEN Front(line) ELSE line
    BY <1>1, <1>2 DEF LineFrom
  <1>4. /\ line \in Seq(Bytes) /\ Len(line) = e - i
        /\ \A k \in 1..(e - i) : line[k] = s[i + k - 1]
    BY Part
  <1>5. line # <<>> <=> e > i
    BY <1>4
  <1>6. CASE e > i
    <2>1. Last(line) = s[e - 1]
      BY <1>4, <1>6 DEF Last
    <2>2. Front(line) = SubSeq(s, i, e - 2)
      <3>1. /\ Front(line) \in Seq(Bytes) /\ Len(Front(line)) = e - i - 1
            /\ \A k \in 1..(e - i - 1) : Front(line)[k] = line[k]
        BY <1>4, <1>6, Part DEF Front
      <3>2. /\ SubSeq(s, i, e - 2) \in Seq(Bytes) /\ Len(SubSeq(s, i, e - 2)) = e - i - 1
            /\ \A k \in 1..(e - i - 1) : SubSeq(s, i, e - 2)[k] = s[i + k - 1]
        BY <1>6, Part
      <3>3. QED
        BY <1>4, <3>1, <3>2, SeqEqual
    <2>3. QED
      BY <1>3, <1>5, <1>6, <2>1, <2>2
  <1>7. CASE e = i
    BY <1>3, <1>5, <1>7
  <1>8. QED
    BY <1>6, <1>7

\* A line starts with the byte at its start, and is only empty at a line end.
LEMMA LineStart ==
  ASSUME NEW s \in Seq(Bytes), NEW i \in 1..(Len(s) + 1)
  PROVE  /\ LineFrom(s, i) # <<>> => i <= Len(s) /\ LineFrom(s, i)[1] = s[i]
         /\ i <= Len(s) /\ s[i] \notin {CR, LF} => LineFrom(s, i) # <<>>
  <1>1. CASE \A j \in i..Len(s) : s[j] # LF
    <2>1. PICK line : line = LineFrom(s, i)
      OBVIOUS
    <2>2. /\ line \in Seq(Bytes) /\ Len(line) = Len(s) - i + 1
          /\ \A k \in 1..(Len(s) - i + 1) : line[k] = s[i + k - 1]
      <3>1. line = SubSeq(s, i, Len(s))
        BY <1>1, <2>1, LineToEnd
      <3>2. Len(s) \in 0..Len(s) /\ i <= Len(s) + 1
        OBVIOUS
      <3>3. QED
        BY <3>1, <3>2, Part
    <2>3. i \in Nat /\ Len(s) \in Nat
      OBVIOUS
    <2>4. CASE i <= Len(s)
      BY <2>1, <2>2, <2>3, <2>4
    <2>5. CASE i = Len(s) + 1
      BY <2>1, <2>2, <2>3, <2>5
    <2>6. QED
      BY <2>3, <2>4, <2>5
  <1>2. CASE \E j \in i..Len(s) : s[j] = LF
    <2> DEFINE ends == {j \in i..Len(s) : s[j] = LF}
    <2>0. ends \in SUBSET Nat /\ ends # {}
      BY <1>2
    <2>1. PICK e \in ends : \A j \in ends : e <= j
      BY <2>0, Smallest
    <2>2. i \in 1..Len(s) /\ e \in i..Len(s) /\ s[e] = LF /\ \A j \in i..(e - 1) : s[j] # LF
      BY <2>1
    <2>3. PICK l : l = IF e > i /\ s[e - 1] = CR THEN e - 2 ELSE e - 1
      OBVIOUS
    <2>4. LineFrom(s, i) = SubSeq(s, i, l)
      BY <2>2, <2>3, LineToFeed
    <2>5. l \in 0..Len(s) /\ i <= l + 1
      BY <2>2, <2>3
    <2>6. /\ SubSeq(s, i, l) \in Seq(Bytes) /\ Len(SubSeq(s, i, l)) = l - i + 1
          /\ \A k \in 1..(l - i + 1) : SubSeq(s, i, l)[k] = s[i + k - 1]
      BY <2>5, Part
    <2>7. LineFrom(s, i) # <<>> => LineFrom(s, i)[1] = s[i]
      BY <2>4, <2>5, <2>6
    <2>8. s[i] \notin {CR, LF} => l >= i
      BY <2>2, <2>3
    <2>9. QED
      BY <2>2, <2>4, <2>6, <2>7, <2>8
  <1>3. QED
    BY <1>1, <1>2

\* A field that is not in the text has no value.
LEMMA NoField ==
  ASSUME NEW s \in Seq(Bytes), NEW field, \A i \in 1..Len(s) : s[i] # field
  PROVE  Values(s, field) = <<>>
  <1> DEFINE lines == {i \in LineStarts(s) : LineFrom(s, i) # <<>> /\ LineFrom(s, i)[1] = field}
             order == CHOOSE o \in [1..Cardinality(lines) -> lines] :
                        \A i, j \in DOMAIN o : i < j => o[i] < o[j]
  <1>1. Values(s, field) = [i \in DOMAIN order |-> Tail(LineFrom(s, order[i]))]
    BY DEF Values
  <1>2. \A i \in LineStarts(s) : i \in 1..(Len(s) + 1)
    BY DEF LineStarts
  <1>3. lines = {}
    BY <1>2, LineStart
  <1>4. Cardinality(lines) = 0
    BY <1>3, FS_EmptySet
  <1>5. order \in [1..0 -> lines]
    <2> DEFINE F == {o \in [1..0 -> lines] : \A i, j \in DOMAIN o : i < j => o[i] < o[j]}
    <2>1. order = CHOOSE o : o \in F
      BY <1>4
    <2>2. [i \in 1..0 |-> i] \in F
      OBVIOUS
    <2> HIDE DEF order
    <2>3. QED
      BY <2>1, <2>2
  <1> HIDE DEF order
  <1>6. DOMAIN order = {}
    BY <1>5
  <1>7. QED
    BY <1>1, <1>6

\* A field that starts one line has the rest of that line for its value.
LEMMA OneField ==
  ASSUME NEW s \in Seq(Bytes), NEW field, field \notin {CR, LF}, NEW a \in LineStarts(s),
         a \in 1..Len(s), \A i \in 1..Len(s) : s[i] = field <=> i = a
  PROVE  Values(s, field) = <<Tail(LineFrom(s, a))>>
  <1> DEFINE lines == {i \in LineStarts(s) : LineFrom(s, i) # <<>> /\ LineFrom(s, i)[1] = field}
             order == CHOOSE o \in [1..Cardinality(lines) -> lines] :
                        \A i, j \in DOMAIN o : i < j => o[i] < o[j]
  <1>1. Values(s, field) = [i \in DOMAIN order |-> Tail(LineFrom(s, order[i]))]
    BY DEF Values
  <1>2. \A i \in LineStarts(s) : i \in 1..(Len(s) + 1)
    BY DEF LineStarts
  <1>3. lines = {a}
    <2>1. a \in lines
      BY LineStart
    <2>2. \A i \in lines : i \in 1..Len(s) /\ s[i] = field
      BY <1>2, LineStart
    <2>3. QED
      BY <2>1, <2>2
  <1>4. Cardinality(lines) = 1
    BY <1>3, FS_Singleton
  <1>5. order \in [1..1 -> lines]
    <2> DEFINE F == {o \in [1..1 -> lines] : \A i, j \in DOMAIN o : i < j => o[i] < o[j]}
    <2>1. order = CHOOSE o : o \in F
      BY <1>4
    <2>2. [i \in 1..1 |-> a] \in F
      BY <1>3
    <2> HIDE DEF order
    <2>3. QED
      BY <2>1, <2>2
  <1> HIDE DEF order
  <1>6. DOMAIN order = 1..1 /\ order[1] = a
    BY <1>3, <1>5
  <1>7. QED
    BY <1>1, <1>6

-----------------------------------------------------------------------------
(* What is made of a frame, and of a part of one. *)

\* Different messages have different names and texts.
LEMMA MessagesDiffer ==
  /\ \A m, d : Name(m) = Name(d) => m = d
  /\ \A m, d : Json(m) = Json(d) => m = d
  /\ \A d : Len(Json(d)) = 2
  BY DEF Name, Json

\* Without data there is no event.
LEMMA NoData ==
  ASSUME NEW s, Values(s, Data) = <<>>
  PROVE  EventsOf(s) = {}
  <1> DEFINE data == Values(s, Data)
             joined == FlattenSeq([i \in DOMAIN data |-> IF i = 1 THEN data[i] ELSE <<LF>> \o data[i]])
  <1>1. [i \in DOMAIN data |-> IF i = 1 THEN data[i] ELSE <<LF>> \o data[i]] = <<>>
    OBVIOUS
  <1>2. joined = <<>>
    BY <1>1 DEF FlattenSeq
  <1>3. \A d : Trimmed(joined) # Json(d)
    BY <1>2, MessagesDiffer DEF Trimmed
  <1>4. \A e \in EventsOf(s) : Trimmed(joined) = Json(e[2])
    BY DEF EventsOf
  <1>5. QED
    BY <1>3, <1>4

\* With one line of data, the event is what that line and the name say.
LEMMA OneDatum ==
  ASSUME NEW s, NEW x, Values(s, Data) = <<x>>
  PROVE  EventsOf(s) = {e \in Messages \X Messages :
                          /\ Values(s, Event) # <<>> /\ Last(Values(s, Event)) = Name(e[1])
                          /\ Trimmed(x) = Json(e[2])}
  <1> DEFINE data == Values(s, Data)
  <1>1. [i \in DOMAIN data |-> IF i = 1 THEN data[i] ELSE <<LF>> \o data[i]] = <<x>>
    OBVIOUS
  <1>2. QED
    BY <1>1, FlattenOne DEF EventsOf

\* A name and data of the same message make that message.
LEMMA WholeEvent ==
  ASSUME NEW s, NEW m \in Messages, NEW x, Values(s, Event) = <<Name(m)>>,
         Values(s, Data) = <<x>>, Trimmed(x) = Json(m)
  PROVE  EventsOf(s) = {<<m, m>>}
  <1>1. Last(Values(s, Event)) = Name(m) /\ Values(s, Event) # <<>>
    BY DEF Last
  <1>2. EventsOf(s) = {e \in Messages \X Messages : Name(m) = Name(e[1]) /\ Json(m) = Json(e[2])}
    BY <1>1, OneDatum
  <1>3. QED
    BY <1>2, MessagesDiffer

\* Where things are in a frame.
LEMMA Places ==
  ASSUME NEW f \in Frames
  PROVE  \E w \in {1, 2}, a \in Nat \ {0} :
           /\ Len(f.ending) = w /\ EventAt(f) = a /\ DataAt(f) = a + 3 + w
           /\ Size(f) = a + 5 + 3 * w
           /\ a = 1 \/ a = 2 + w
           /\ Feeds(f) = {a + 2 + w, a + 5 + 2 * w, a + 5 + 3 * w} \cup
                         (IF a = 1 THEN {} ELSE {1 + w})
  <1>1. PICK w \in {1, 2} : Len(f.ending) = w
    BY DEF Frames
  <1>2. f.comment \in BOOLEAN
    BY DEF Frames
  <1>3. PICK a \in Nat \ {0} : a = EventAt(f) /\ (a = 1 <=> ~f.comment) /\ (a = 1 \/ a = 2 + w)
    BY <1>1, <1>2 DEF EventAt
  <1>4. DataAt(f) = a + 3 + w
    BY <1>1, <1>3 DEF DataAt
  <1>5. Size(f) = a + 5 + 3 * w
    BY <1>1, <1>4 DEF Size
  <1>6. Feeds(f) = {a + 2 + w, a + 5 + 2 * w, a + 5 + 3 * w} \cup (IF a = 1 THEN {} ELSE {1 + w})
    <2>1. DataAt(f) - 1 = a + 2 + w /\ DataAt(f) + 2 + w = a + 5 + 2 * w
      BY <1>4
    <2>2. Feeds(f) = {a + 2 + w, a + 5 + 2 * w, a + 5 + 3 * w} \cup
                     (IF f.comment THEN {1 + w} ELSE {})
      BY <1>1, <1>5, <2>1 DEF Feeds
    <2>3. QED
      BY <1>2, <1>3, <2>2
  <1>7. QED
    BY <1>1, <1>3, <1>4, <1>5, <1>6

\* s is the first p bytes of frame f.
Begins(s, f, p) ==
  /\ s \in Seq(Bytes) /\ Len(s) = p
  /\ \A i \in 1..p : /\ s[i] = Encoded(f)[i]
                     /\ s[i] = LF <=> i \in Feeds(f)
                     /\ s[i] = Event <=> i = EventAt(f)
                     /\ s[i] = Data <=> i = DataAt(f)
                     /\ s[i] = CR <=> i + 1 \in Feeds(f) /\ Len(f.ending) = 2
  /\ LineStarts(s) = {1} \cup {i + 1 : i \in Feeds(f) \cap 1..p}

\* The bytes of a frame stay in place in a beginning of it.
LEMMA Beginning ==
  ASSUME NEW f \in Frames, NEW p \in 0..Size(f)
  PROVE  Begins(SubSeq(Encoded(f), 1, p), f, p)
  <1>0. PICK s : s = SubSeq(Encoded(f), 1, p)
    OBVIOUS
  <1>1. IsLaidOut(Encoded(f), f)
    BY EncodedIs
  <1>2. Size(f) \in Nat
    BY Places
  <1>3. Encoded(f) \in Seq(Bytes) /\ Len(Encoded(f)) = Size(f)
    BY <1>1 DEF IsLaidOut
  <1>4. s \in Seq(Bytes) /\ Len(s) = p /\ \A i \in 1..p : s[i] = Encoded(f)[i]
    BY <1>0, <1>2, <1>3, Part
  <1>5. \A i \in 1..p : /\ s[i] = LF <=> i \in Feeds(f)
                        /\ s[i] = Event <=> i = EventAt(f)
                        /\ s[i] = Data <=> i = DataAt(f)
                        /\ s[i] = CR <=> i + 1 \in Feeds(f) /\ Len(f.ending) = 2
    BY <1>1, <1>2, <1>4 DEF IsLaidOut
  <1>6. LineStarts(s) = {1} \cup {i + 1 : i \in Feeds(f) \cap 1..p}
    BY <1>4, <1>5 DEF LineStarts
  <1>7. QED
    BY <1>0, <1>4, <1>5, <1>6 DEF Begins

\* Sequences of three and of four elements.
LEMMA ShortTails ==
  ASSUME NEW S, NEW s \in Seq(S)
  PROVE  /\ Len(s) = 3 => Tail(s) = <<s[2], s[3]>>
         /\ Len(s) = 4 => Tail(s) = <<s[2], s[3], s[4]>>
         /\ Len(s) = 3 => Front(s) = <<s[1], s[2]>>
  <1>0. Len(s) \in Nat /\ \A k \in 1..Len(s) : s[k] \in S
    OBVIOUS
  <1>1. CASE Len(s) = 3
    <2>1. PICK t : t = Tail(s)
      OBVIOUS
    <2>2. t \in Seq(S) /\ Len(t) = 2 /\ \A k \in 1..2 : t[k] = s[k + 1]
      <3>1. s # <<>>
        BY <1>1
      <3>2. Tail(s) = SubSeq(s, 2, 3)
        BY <1>1, <3>1, TailIsSubSeq
      <3>3. t = SubSeq(s, 2, 3)
        BY <2>1, <3>2
      <3>4. 2 \in 1..(Len(s) + 1) /\ 3 \in 0..Len(s)
        BY <1>1
      <3>5. QED
        BY <3>3, <3>4, Part
    <2>3. PICK u : u = SubSeq(s, 1, 2)
      OBVIOUS
    <2>4. u \in Seq(S) /\ Len(u) = 2 /\ \A k \in 1..2 : u[k] = s[k]
      <3>1. 1 \in 1..(Len(s) + 1) /\ 2 \in 0..Len(s)
        BY <1>1
      <3>2. QED
        BY <2>3, <3>1, Part
    <2>5. t = <<s[2], s[3]>>
      BY <2>2
    <2>6. u = <<s[1], s[2]>>
      BY <2>4
    <2>7. Front(s) = u
      BY <1>1, <2>3 DEF Front
    <2>8. Tail(s) = <<s[2], s[3]>> /\ Front(s) = <<s[1], s[2]>>
      BY <2>1, <2>5, <2>6, <2>7, Zenon
    <2>9. Len(s) # 4
      BY <1>1
    <2>10. QED
      BY <2>8, <2>9, Zenon
  <1>2. CASE Len(s) = 4
    <2>1. PICK t : t = Tail(s)
      OBVIOUS
    <2>2. t \in Seq(S) /\ Len(t) = 3 /\ \A k \in 1..3 : t[k] = s[k + 1]
      <3>1. s # <<>>
        BY <1>2
      <3>2. Tail(s) = SubSeq(s, 2, 4)
        BY <1>2, <3>1, TailIsSubSeq
      <3>3. t = SubSeq(s, 2, 4)
        BY <2>1, <3>2
      <3>4. 2 \in 1..(Len(s) + 1) /\ 4 \in 0..Len(s)
        BY <1>2
      <3>5. QED
        BY <3>3, <3>4, Part
    <2>3. t = <<s[2], s[3], s[4]>>
      BY <2>2
    <2>4. Tail(s) = <<s[2], s[3], s[4]>>
      BY <2>1, <2>3, Zenon
    <2>5. Len(s) # 3
      BY <1>2
    <2>6. QED
      BY <2>4, <2>5, Zenon
  <1>3. QED
    BY <1>1, <1>2, Zenon

\* The text of a field of two bytes whose line is complete.
LEMMA LineRead ==
  ASSUME NEW s \in Seq(Bytes), NEW i \in 1..Len(s),
         s[i] \notin {CR, LF}, s[i + 1] \notin {CR, LF}, s[i + 2] \notin {CR, LF},
         \/ i + 3 <= Len(s) /\ s[i + 3] = LF
         \/ i + 4 <= Len(s) /\ s[i + 3] = CR /\ s[i + 4] = LF
  PROVE  Tail(LineFrom(s, i)) = <<s[i + 1], s[i + 2]>>
  <1>1. Len(s) \in Nat /\ i \in 1..Len(s) /\ i + 2 <= Len(s)
    OBVIOUS
  <1>2. LineFrom(s, i) = SubSeq(s, i, i + 2)
    <2>1. CASE i + 3 <= Len(s) /\ s[i + 3] = LF
      <3>1. i + 3 \in i..Len(s) /\ i + 3 > i /\ s[(i + 3) - 1] # CR
        BY <1>1, <2>1
      <3>2. \A j \in i..((i + 3) - 1) : s[j] # LF
        BY <1>1, <2>1
      <3>3. LineFrom(s, i) = SubSeq(s, i, (i + 3) - 1)
        BY <1>1, <2>1, <3>1, <3>2, LineToFeed
      <3>4. QED
        BY <3>3
    <2>2. CASE i + 4 <= Len(s) /\ s[i + 3] = CR /\ s[i + 4] = LF
      <3>1. i + 4 \in i..Len(s) /\ i + 4 > i /\ s[(i + 4) - 1] = CR
        BY <1>1, <2>2
      <3>2. \A j \in i..((i + 4) - 1) : s[j] # LF
        BY <1>1, <2>2, BytesDiffer
      <3>3. LineFrom(s, i) = SubSeq(s, i, (i + 4) - 2)
        BY <1>1, <2>2, <3>1, <3>2, LineToFeed
      <3>4. QED
        BY <3>3
    <2>3. QED
      BY <2>1, <2>2
  <1>3. PICK line : line = SubSeq(s, i, i + 2)
    OBVIOUS
  <1>4. line \in Seq(Bytes) /\ Len(line) = 3 /\ line[2] = s[i + 1] /\ line[3] = s[i + 2]
    BY <1>1, <1>3, Part
  <1>5. Tail(line) = <<line[2], line[3]>>
    BY <1>4, ShortTails
  <1>6. QED
    BY <1>2, <1>3, <1>4, <1>5, Zenon

\* The same of a line that may be cut after the text.
LEMMA TextRead ==
  ASSUME NEW s \in Seq(Bytes), NEW i \in 1..Len(s), i + 2 <= Len(s),
         s[i] \notin {CR, LF}, s[i + 1] \notin {CR, LF}, s[i + 2] \notin {CR, LF},
         \/ Len(s) = i + 2
         \/ Len(s) = i + 3 /\ s[i + 3] = CR
         \/ i + 3 <= Len(s) /\ s[i + 3] = LF
         \/ i + 4 <= Len(s) /\ s[i + 3] = CR /\ s[i + 4] = LF
  PROVE  Trimmed(Tail(LineFrom(s, i))) = <<s[i + 1], s[i + 2]>>
  <1> DEFINE u == s[i + 1]
             v == s[i + 2]
  <1>1. Len(s) \in Nat /\ i \in 1..Len(s)
    OBVIOUS
  <1>2. Trimmed(<<u, v>>) = <<u, v>>
    <2>1. u # CR /\ v # CR
      OBVIOUS
    <2> HIDE DEF u, v
    <2>2. QED
      BY <2>1 DEF Trimmed, Last
  <1>3. CASE Len(s) = i + 2
    <2>1. \A j \in i..Len(s) : s[j] # LF
      BY <1>3
    <2>2. i \in 1..(Len(s) + 1)
      BY <1>1
    <2>3. PICK line : line = LineFrom(s, i)
      OBVIOUS
    <2>4. line = SubSeq(s, i, Len(s))
      BY <2>1, <2>2, <2>3, LineToEnd
    <2>5. line \in Seq(Bytes) /\ Len(line) = 3 /\ line[2] = u /\ line[3] = v
      BY <1>1, <1>3, <2>4, Part
    <2>6. Tail(line) = <<u, v>>
      BY <2>5, ShortTails
    <2>7. QED
      BY <1>2, <2>3, <2>6
  <1>4. CASE Len(s) = i + 3 /\ s[i + 3] = CR
    <2>1. \A j \in i..Len(s) : s[j] # LF
      BY <1>4, BytesDiffer
    <2>2. PICK line : line = LineFrom(s, i)
      OBVIOUS
    <2>3. line = SubSeq(s, i, i + 3)
      <3>1. i \in 1..(Len(s) + 1)
        BY <1>1
      <3>2. LineFrom(s, i) = SubSeq(s, i, Len(s))
        BY <2>1, <3>1, LineToEnd
      <3>3. QED
        BY <1>4, <2>2, <3>2
    <2>4. line \in Seq(Bytes) /\ Len(line) = 4 /\ line[2] = u /\ line[3] = v /\ line[4] = CR
      BY <1>1, <1>4, <2>3, Part
    <2>5. Tail(line) = <<u, v, CR>>
      BY <2>4, ShortTails
    <2>6. PICK x : x = <<u, v, CR>>
      OBVIOUS
    <2>7. x \in Seq({u, v, CR}) /\ Len(x) = 3 /\ x[1] = u /\ x[2] = v /\ x[3] = CR /\ x # <<>>
      BY <2>6
    <2>8. Front(x) = <<u, v>>
      BY <2>7, ShortTails
    <2>9. Trimmed(x) = <<u, v>>
      BY <2>7, <2>8 DEF Trimmed, Last
    <2>10. QED
      BY <2>2, <2>5, <2>6, <2>9
  <1>5. CASE \/ i + 3 <= Len(s) /\ s[i + 3] = LF
             \/ i + 4 <= Len(s) /\ s[i + 3] = CR /\ s[i + 4] = LF
    <2>1. Tail(LineFrom(s, i)) = <<u, v>>
      BY <1>1, <1>5, LineRead
    <2>2. QED
      BY <1>2, <2>1, Zenon
  <1>6. QED
    BY <1>3, <1>4, <1>5

\* A text that is cut short is no JSON text.
LEMMA TextCut ==
  ASSUME NEW s \in Seq(Bytes), NEW i \in 1..Len(s), Len(s) <= i + 1, \A j \in i..Len(s) : s[j] # LF
  PROVE  \A e : Trimmed(Tail(LineFrom(s, i))) # Json(e)
  <1>1. PICK line : line = LineFrom(s, i)
    OBVIOUS
  <1>2. line = SubSeq(s, i, Len(s))
    BY <1>1, LineToEnd
  <1>3. Len(s) \in 0..Len(s) /\ i \in 1..(Len(s) + 1) /\ i <= Len(s) + 1
    OBVIOUS
  <1>4. line \in Seq(Bytes) /\ Len(line) = Len(s) - i + 1
    BY <1>2, <1>3, Part
  <1>5. PICK x : x = Tail(line)
    OBVIOUS
  <1>6. x \in Seq(Bytes) /\ Len(x) <= 1
    BY <1>3, <1>4, <1>5
  <1>7. Len(Trimmed(x)) <= 1
    BY <1>6 DEF Trimmed, Front
  <1>8. PICK y : y = Trimmed(x)
    OBVIOUS
  <1>9. Len(y) <= 1
    BY <1>7, <1>8
  <1>10. \A e : y # Json(e)
    <2>1. SUFFICES ASSUME NEW e, y = Json(e) PROVE FALSE
      OBVIOUS
    <2>2. Len(Json(e)) = 2
      BY MessagesDiffer
    <2>3. Len(y) = 2
      BY <2>1, <2>2
    <2>4. QED
      BY <1>9, <2>3
  <1>11. QED
    BY <1>1, <1>5, <1>8, <1>10

\* Cut before its data, a frame makes no event.
LEMMA DataNotThere ==
  ASSUME NEW f \in Frames, NEW p \in 0..Size(f), NEW s, Begins(s, f, p), p < DataAt(f)
  PROVE  EventsOf(s) = {}
  <1>2. s \in Seq(Bytes) /\ Len(s) = p /\ \A i \in 1..p : s[i] = Data <=> i = DataAt(f)
    BY DEF Begins
  <1>3. \A i \in 1..Len(s) : s[i] # Data
    BY <1>2, Places
  <1>4. Values(s, Data) = <<>>
    BY <1>2, <1>3, NoField
  <1>5. QED
    BY <1>4, NoData

\* The data field of a frame cut after it starts.
LEMMA DataField ==
  ASSUME NEW f \in Frames, NEW p \in 0..Size(f), NEW s, Begins(s, f, p),
         DataAt(f) <= p
  PROVE  Values(s, Data) = <<Tail(LineFrom(s, DataAt(f)))>>
  <1>1. /\ s \in Seq(Bytes) /\ Len(s) = p
        /\ \A i \in 1..p : s[i] = Data <=> i = DataAt(f)
    BY DEF Begins
  <1>2. PICK d \in Nat : d = DataAt(f) /\ d - 1 \in Feeds(f) /\ d > 1
    BY Places
  <1>3. d \in 1..Len(s) /\ d - 1 \in Feeds(f) \cap 1..p
    BY <1>1, <1>2
  <1>4. d \in LineStarts(s)
    BY <1>2, <1>3 DEF Begins
  <1>5. \A i \in 1..Len(s) : s[i] = Data <=> i = d
    BY <1>1, <1>2
  <1>6. Data \notin {CR, LF}
    BY BytesDiffer
  <1>7. Values(s, Data) = <<Tail(LineFrom(s, d))>>
    BY <1>1, <1>3, <1>4, <1>5, <1>6, OneField
  <1>8. QED
    BY <1>2, <1>7

\* The event field of a frame cut after it starts.
LEMMA EventField ==
  ASSUME NEW f \in Frames, NEW p \in 0..Size(f), NEW s, Begins(s, f, p),
         EventAt(f) <= p
  PROVE  Values(s, Event) = <<Tail(LineFrom(s, EventAt(f)))>>
  <1>1. /\ s \in Seq(Bytes) /\ Len(s) = p
        /\ \A i \in 1..p : s[i] = Event <=> i = EventAt(f)
    BY DEF Begins
  <1>2. PICK a \in Nat \ {0} : a = EventAt(f) /\ (a = 1 \/ a - 1 \in Feeds(f))
    BY Places
  <1>3. a \in 1..Len(s) /\ (a = 1 \/ a - 1 \in Feeds(f) \cap 1..p)
    BY <1>1, <1>2
  <1>4. a \in LineStarts(s)
    BY <1>2, <1>3 DEF Begins
  <1>5. \A i \in 1..Len(s) : s[i] = Event <=> i = a
    BY <1>1, <1>2
  <1>6. Event \notin {CR, LF}
    BY BytesDiffer
  <1>7. Values(s, Event) = <<Tail(LineFrom(s, a))>>
    BY <1>1, <1>3, <1>4, <1>5, <1>6, OneField
  <1>8. QED
    BY <1>2, <1>7

\* Cut within its data, a frame makes no event: half a JSON text is none.
LEMMA DataCut ==
  ASSUME NEW f \in Frames, NEW p \in 0..Size(f), NEW s, Begins(s, f, p),
         DataAt(f) <= p, p < DataAt(f) + 2
  PROVE  EventsOf(s) = {}
  <1>2. s \in Seq(Bytes) /\ Len(s) = p /\ \A i \in 1..p : s[i] = LF <=> i \in Feeds(f)
    BY DEF Begins
  <1>3. PICK d \in Nat \ {0} : d = DataAt(f) /\ d \notin Feeds(f) /\ d + 1 \notin Feeds(f)
    BY Places
  <1>4. d \in 1..Len(s) /\ Len(s) <= d + 1 /\ \A j \in d..Len(s) : s[j] # LF
    BY <1>2, <1>3
  <1>5. PICK x : x = Tail(LineFrom(s, d))
    OBVIOUS
  <1>6. \A e : Trimmed(x) # Json(e)
    BY <1>2, <1>4, <1>5, TextCut
  <1>7. Values(s, Data) = <<x>>
    BY <1>3, <1>5, DataField
  <1>8. \A e \in EventsOf(s) : Trimmed(x) = Json(e[2])
    BY <1>7, OneDatum
  <1>9. QED
    BY <1>6, <1>8

\* Cut after its data, a frame makes its event.
LEMMA DataThere ==
  ASSUME NEW f \in Frames, NEW p \in 0..Size(f), NEW s, Begins(s, f, p), DataAt(f) + 2 <= p
  PROVE  EventsOf(s) = {<<f.message, f.message>>}
  <1>2. PICK w \in {1, 2}, a \in Nat \ {0} :
          /\ Len(f.ending) = w /\ EventAt(f) = a /\ DataAt(f) = a + 3 + w
          /\ Size(f) = a + 5 + 3 * w
          /\ a = 1 \/ a = 2 + w
          /\ Feeds(f) = {a + 2 + w, a + 5 + 2 * w, a + 5 + 3 * w} \cup
                        (IF a = 1 THEN {} ELSE {1 + w})
    BY Places
  <1>3. PICK n1, n2, j1, j2 : /\ Name(f.message) = <<n1, n2>> /\ Json(f.message) = <<j1, j2>>
                              /\ Name(f.message)[1] = n1 /\ Name(f.message)[2] = n2
                              /\ Json(f.message)[1] = j1 /\ Json(f.message)[2] = j2
    BY MessageBytes DEF Frames
  <1>4. n1 \notin {CR, LF} /\ n2 \notin {CR, LF} /\ j1 \notin {CR, LF} /\ j2 \notin {CR, LF}
    BY <1>3, BytesDiffer
  <1>5. /\ s \in Seq(Bytes) /\ Len(s) = p
        /\ \A i \in 1..p : /\ s[i] = Encoded(f)[i]
                           /\ s[i] = LF <=> i \in Feeds(f)
                           /\ s[i] = CR <=> i + 1 \in Feeds(f) /\ Len(f.ending) = 2
                           /\ s[i] = Event <=> i = EventAt(f)
                           /\ s[i] = Data <=> i = DataAt(f)
    BY DEF Begins
  <1>6. PICK d \in Nat \ {0} : d = a + 3 + w /\ d = DataAt(f) /\ d + 2 <= p /\ p \in Nat
    BY <1>2
  <1>7. /\ s[a] = Event /\ s[a + 1] = n1 /\ s[a + 2] = n2
        /\ s[d] = Data /\ s[d + 1] = j1 /\ s[d + 2] = j2
    <2>1. {a, a + 1, a + 2, d, d + 1, d + 2} \subseteq 1..p
      BY <1>6
    <2>2. IsLaidOut(Encoded(f), f)
      BY EncodedIs
    <2>3. /\ Encoded(f)[a] = Event /\ Encoded(f)[a + 1] = n1 /\ Encoded(f)[a + 2] = n2
          /\ Encoded(f)[d] = Data /\ Encoded(f)[d + 1] = j1 /\ Encoded(f)[d + 2] = j2
      BY <1>2, <1>3, <1>6, <2>2 DEF IsLaidOut
    <2>4. QED
      BY <1>5, <2>1, <2>3
  <1>8. Tail(LineFrom(s, a)) = <<n1, n2>>
    <2>1. \/ a + 3 <= Len(s) /\ s[a + 3] = LF
          \/ a + 4 <= Len(s) /\ s[a + 3] = CR /\ s[a + 4] = LF
      <3>1. a + 3 \in 1..p /\ a + 2 + w \in 1..p /\ a + 2 + w \in Feeds(f)
        BY <1>2, <1>6
      <3>2. s[a + 2 + w] = LF
        BY <1>5, <3>1
      <3>3. w = 2 => s[a + 3] = CR
        BY <1>2, <1>5, <3>1
      <3>4. QED
        BY <1>5, <1>6, <3>1, <3>2, <3>3
    <2>2. s[a] \notin {CR, LF}
      BY <1>7, BytesDiffer
    <2>3. a \in 1..Len(s) /\ s \in Seq(Bytes) /\ s[a + 1] = n1 /\ s[a + 2] = n2
      BY <1>2, <1>5, <1>6, <1>7
    <2>4. s[a + 1] \notin {CR, LF} /\ s[a + 2] \notin {CR, LF}
      BY <1>4, <2>3
    <2>5. Tail(LineFrom(s, a)) = <<s[a + 1], s[a + 2]>>
      BY <2>1, <2>2, <2>3, <2>4, LineRead
    <2>6. QED
      BY <2>3, <2>5, Zenon
  <1>9. Trimmed(Tail(LineFrom(s, d))) = <<j1, j2>>
    <2>1. \/ Len(s) = d + 2
          \/ Len(s) = d + 3 /\ s[d + 3] = CR
          \/ d + 3 <= Len(s) /\ s[d + 3] = LF
          \/ d + 4 <= Len(s) /\ s[d + 3] = CR /\ s[d + 4] = LF
      <3>1. d + 2 + w \in Feeds(f)
        BY <1>2, <1>6
      <3>2. p >= d + 2 + w => s[d + 2 + w] = LF
        BY <1>5, <1>6, <3>1
      <3>3. w = 2 /\ p >= d + 3 => s[d + 3] = CR
        BY <1>2, <1>5, <1>6, <3>1
      <3>4. QED
        BY <1>5, <1>6, <3>2, <3>3
    <2>2. s[d] \notin {CR, LF}
      BY <1>7, BytesDiffer
    <2>3. d \in 1..Len(s) /\ d + 2 <= Len(s) /\ s \in Seq(Bytes) /\ s[d + 1] = j1 /\ s[d + 2] = j2
      BY <1>5, <1>6, <1>7
    <2>4. s[d + 1] \notin {CR, LF} /\ s[d + 2] \notin {CR, LF}
      BY <1>4, <2>3
    <2>5. Trimmed(Tail(LineFrom(s, d))) = <<s[d + 1], s[d + 2]>>
      BY <2>1, <2>2, <2>3, <2>4, TextRead
    <2>6. QED
      BY <2>3, <2>5, Zenon
  <1>10. PICK x : x = Tail(LineFrom(s, d))
    OBVIOUS
  <1>11. Values(s, Data) = <<x>>
    BY <1>6, <1>10, DataField
  <1>12. Values(s, Event) = <<Name(f.message)>>
    <2>1. EventAt(f) <= p
      BY <1>2, <1>6
    <2>2. Values(s, Event) = <<Tail(LineFrom(s, EventAt(f)))>>
      BY <2>1, EventField
    <2>3. QED
      BY <1>2, <1>3, <1>8, <2>2, Zenon
  <1>13. Trimmed(x) = Json(f.message)
    BY <1>3, <1>9, <1>10
  <1>14. f.message \in Messages
    BY DEF Frames
  <1>15. QED
    BY <1>11, <1>12, <1>13, <1>14, WholeEvent

-----------------------------------------------------------------------------
(* Blank lines. *)

\* As far as b and frame f go, they are the same.
Agrees(b, f) == b \in Seq(Bytes) /\ \A i \in 1..Len(b) : i <= Size(f) => b[i] = Encoded(f)[i]

\* Where blank lines of either kind start.
Pairs(b) == {i \in 1..(Len(b) - 1) : b[i] = LF /\ b[i + 1] = LF}

Quads(b) == {i \in 1..(Len(b) - 3) : b[i] = CR /\ b[i + 1] = LF /\ b[i + 2] = CR /\ b[i + 3] = LF}

\* Blank lines are two LFs or two CRLFs in a row.
LEMMA BoundariesAre ==
  ASSUME NEW b \in Seq(Bytes)
  PROVE  Boundaries(b) = {[end |-> i - 1, next |-> i + 2] : i \in Pairs(b)} \cup
                         {[end |-> i - 1, next |-> i + 4] : i \in Quads(b)}
  <1>1. Len(b) \in Nat
    OBVIOUS
  <1>2. \A i \in 1..(Len(b) - 1) : SubSeq(b, i, i + 1) = <<LF, LF>> <=> b[i] = LF /\ b[i + 1] = LF
    <2>1. TAKE i \in 1..(Len(b) - 1)
    <2>2. PICK t : t = SubSeq(b, i, i + 1)
      OBVIOUS
    <2>3. t \in Seq(Bytes) /\ Len(t) = 2 /\ t[1] = b[i] /\ t[2] = b[i + 1]
      BY <1>1, <2>2, Part
    <2>4. t = <<LF, LF>> <=> t[1] = LF /\ t[2] = LF
      BY <2>3
    <2>5. QED
      BY <2>2, <2>3, <2>4, Zenon
  <1>3. \A i \in 1..(Len(b) - 3) :
          SubSeq(b, i, i + 3) = <<CR, LF, CR, LF>> <=>
            b[i] = CR /\ b[i + 1] = LF /\ b[i + 2] = CR /\ b[i + 3] = LF
    <2>1. TAKE i \in 1..(Len(b) - 3)
    <2>2. PICK t : t = SubSeq(b, i, i + 3)
      OBVIOUS
    <2>3. /\ t \in Seq(Bytes) /\ Len(t) = 4 /\ t[1] = b[i] /\ t[2] = b[i + 1]
          /\ t[3] = b[i + 2] /\ t[4] = b[i + 3]
      BY <1>1, <2>2, Part
    <2>4. t = <<CR, LF, CR, LF>> <=> t[1] = CR /\ t[2] = LF /\ t[3] = CR /\ t[4] = LF
      BY <2>3
    <2>5. QED
      BY <2>2, <2>3, <2>4, Zenon
  <1>4. {i \in 1..(Len(b) - 1) : SubSeq(b, i, i + 1) = <<LF, LF>>} = Pairs(b)
    BY <1>2 DEF Pairs
  <1>5. {i \in 1..(Len(b) - 3) : SubSeq(b, i, i + 3) = <<CR, LF, CR, LF>>} = Quads(b)
    BY <1>3 DEF Quads
  <1>6. QED
    BY <1>4, <1>5, Zenon DEF Boundaries

\* In the bytes of a frame, the only blank line is at the end.
LEMMA BlankLines ==
  ASSUME NEW f \in Frames, NEW b, Agrees(b, f)
  PROVE  /\ \A i \in Pairs(b) : i + 1 <= Size(f) => Len(f.ending) = 1 /\ i = Size(f) - 1
         /\ \A i \in Quads(b) : i <= Size(f) => Len(f.ending) = 2 /\ i >= Size(f) - 3
         /\ Len(b) >= Size(f) /\ Len(f.ending) = 1 => Size(f) - 1 \in Pairs(b)
         /\ Len(b) >= Size(f) /\ Len(f.ending) = 2 => Size(f) - 3 \in Quads(b)
  <1>1. PICK w \in {1, 2}, a \in Nat \ {0} :
          /\ Len(f.ending) = w
          /\ Size(f) = a + 5 + 3 * w
          /\ a = 1 \/ a = 2 + w
          /\ Feeds(f) = {a + 2 + w, a + 5 + 2 * w, a + 5 + 3 * w} \cup
                        (IF a = 1 THEN {} ELSE {1 + w})
    BY Places
  <1>2. b \in Seq(Bytes) /\ Len(b) \in Nat
    BY DEF Agrees
  <1>3. \A i \in 1..Len(b) : i <= Size(f) => /\ b[i] = LF <=> i \in Feeds(f)
                                             /\ b[i] = CR <=> i + 1 \in Feeds(f) /\ w = 2
    <2>1. PICK e : e = Encoded(f) /\ IsLaidOut(e, f)
      BY EncodedIs
    <2>2. \A i \in 1..Size(f) : e[i] = LF <=> i \in Feeds(f)
      BY <2>1 DEF IsLaidOut
    <2>3. \A i \in 1..Size(f) : e[i] = CR <=> i + 1 \in Feeds(f) /\ w = 2
      BY <1>1, <2>1 DEF IsLaidOut
    <2>4. \A i \in 1..Len(b) : i <= Size(f) => b[i] = e[i] /\ i \in 1..Size(f)
      BY <1>1, <1>2, <2>1 DEF Agrees
    <2>5. \A i \in 1..Len(b) : i <= Size(f) => (b[i] = LF <=> i \in Feeds(f))
      BY <2>2, <2>4
    <2>6. \A i \in 1..Len(b) : i <= Size(f) => (b[i] = CR <=> i + 1 \in Feeds(f) /\ w = 2)
      BY <2>3, <2>4
    <2>7. QED
      BY <2>5, <2>6
  <1>4. ASSUME NEW i \in Pairs(b), i + 1 <= Size(f) PROVE w = 1 /\ i = Size(f) - 1
    <2>1. i \in 1..(Len(b) - 1) /\ b[i] = LF /\ b[i + 1] = LF
      BY DEF Pairs
    <2>2. i \in Feeds(f) /\ i + 1 \in Feeds(f)
      BY <1>1, <1>2, <1>3, <1>4, <2>1
    <2>3. QED
      BY <1>1, <2>1, <2>2
  <1>5. ASSUME NEW i \in Quads(b), i <= Size(f) PROVE w = 2 /\ i >= Size(f) - 3
    <2>1. i \in 1..(Len(b) - 3) /\ b[i] = CR /\ b[i + 3] = LF
      BY DEF Quads
    <2>2. i + 1 \in Feeds(f) /\ w = 2
      BY <1>1, <1>2, <1>3, <1>5, <2>1
    <2>3. i + 3 <= Size(f) => i + 3 \in Feeds(f)
      BY <1>1, <1>2, <1>3, <2>1
    <2>4. QED
      BY <1>1, <2>1, <2>2, <2>3
  <1>6. ASSUME Len(b) >= Size(f), w = 1 PROVE Size(f) - 1 \in Pairs(b)
    <2>1. PICK n \in Nat :
            n = Size(f) /\ n - 1 \in 1..(Len(b) - 1) /\ n - 1 \in Feeds(f) /\ n \in Feeds(f)
      BY <1>1, <1>2, <1>6
    <2>2. b[n - 1] = LF /\ b[(n - 1) + 1] = LF
      BY <1>2, <1>3, <1>6, <2>1
    <2>3. QED
      BY <2>1, <2>2 DEF Pairs
  <1>7. ASSUME Len(b) >= Size(f), w = 2 PROVE Size(f) - 3 \in Quads(b)
    <2>1. PICK n \in Nat :
            n = Size(f) /\ n - 3 \in 1..(Len(b) - 3) /\ n - 2 \in Feeds(f) /\ n \in Feeds(f)
      BY <1>1, <1>2, <1>7
    <2>2. b[n - 3] = CR /\ b[n - 2] = LF /\ b[n - 1] = CR /\ b[n] = LF
      BY <1>2, <1>3, <1>7, <2>1
    <2>3. (n - 3) + 1 = n - 2 /\ (n - 3) + 2 = n - 1 /\ (n - 3) + 3 = n
      BY <2>1
    <2>4. QED
      BY <2>1, <2>2, <2>3 DEF Quads
  <1>8. QED
    BY <1>1, <1>4, <1>5, <1>6, <1>7

\* Less than a frame has no blank line.
LEMMA NoBlankLine ==
  ASSUME NEW f \in Frames, NEW b, Agrees(b, f), Len(b) < Size(f)
  PROVE  Boundaries(b) = {}
  <1>1. b \in Seq(Bytes) /\ Len(b) \in Nat /\ Size(f) \in Nat
    BY Places DEF Agrees
  <1>2. Pairs(b) = {}
    <2>1. \A i \in Pairs(b) : i \in 1..(Len(b) - 1)
      BY DEF Pairs
    <2>2. QED
      BY <1>1, <2>1, BlankLines
  <1>3. Quads(b) = {}
    <2>1. \A i \in Quads(b) : i \in 1..(Len(b) - 3)
      BY DEF Quads
    <2>2. QED
      BY <1>1, <2>1, BlankLines
  <1>4. QED
    BY <1>1, <1>2, <1>3, BoundariesAre

\* After a whole frame, the first blank line is the one that ends it.
LEMMA FirstBlankLine ==
  ASSUME NEW f \in Frames, NEW b, Agrees(b, f), Len(b) >= Size(f)
  PROVE  /\ Boundaries(b) # {}
         /\ FrameBoundary(b).end = Size(f) - 2 * Len(f.ending)
         /\ FrameBoundary(b).next = Size(f) + 1
  <1>1. PICK w \in {1, 2} : Len(f.ending) = w
    BY Places
  <1>2. PICK n \in Nat : n = Size(f)
    BY Places
  <1>3. b \in Seq(Bytes) /\ Len(b) \in Nat
    BY DEF Agrees
  <1>4. PICK x : x = [end |-> n - 2 * w, next |-> n + 1]
    OBVIOUS
  <1>5. x \in Boundaries(b)
    <2>1. CASE w = 1
      <3>1. n - 1 \in Pairs(b)
        BY <1>1, <1>2, <2>1, BlankLines
      <3>2. x = [end |-> (n - 1) - 1, next |-> (n - 1) + 2]
        BY <1>4, <2>1
      <3>3. QED
        BY <1>3, <3>1, <3>2, BoundariesAre
    <2>2. CASE w = 2
      <3>1. n - 3 \in Quads(b)
        BY <1>1, <1>2, <2>2, BlankLines
      <3>2. x = [end |-> (n - 3) - 1, next |-> (n - 3) + 4]
        BY <1>4, <2>2
      <3>3. QED
        BY <1>3, <3>1, <3>2, BoundariesAre
    <2>3. QED
      BY <2>1, <2>2
  <1>6. \A y \in Boundaries(b) : x.end <= y.end /\ (y.end <= x.end => y = x)
    <2>1. TAKE y \in Boundaries(b)
    <2>2. CASE \E i \in Pairs(b) : y = [end |-> i - 1, next |-> i + 2]
      <3>1. PICK i \in Pairs(b) : y = [end |-> i - 1, next |-> i + 2]
        BY <2>2
      <3>2. i \in Nat
        BY DEF Pairs
      <3>3. i + 1 <= n => w = 1 /\ i = n - 1
        BY <1>1, <1>2, BlankLines
      <3>4. QED
        BY <1>4, <3>1, <3>2, <3>3
    <2>3. CASE \E i \in Quads(b) : y = [end |-> i - 1, next |-> i + 4]
      <3>1. PICK i \in Quads(b) : y = [end |-> i - 1, next |-> i + 4]
        BY <2>3
      <3>2. i \in Nat
        BY DEF Quads
      <3>3. i <= n => w = 2 /\ i >= n - 3
        BY <1>1, <1>2, BlankLines
      <3>4. QED
        BY <1>4, <3>1, <3>2, <3>3
    <2>4. QED
      BY <1>3, <2>2, <2>3, BoundariesAre
  <1>7. FrameBoundary(b) = x
    <2>1. /\ FrameBoundary(b) \in Boundaries(b)
          /\ \A y \in Boundaries(b) : FrameBoundary(b).end <= y.end
      BY <1>5, <1>6 DEF FrameBoundary
    <2>2. QED
      BY <1>5, <1>6, <2>1
  <1>8. QED
    BY <1>1, <1>2, <1>4, <1>5, <1>7

-----------------------------------------------------------------------------
(* Sequences joined into one. *)

\* h[i] is the first i elements of q, joined.
Joins(h, q, n) == h = [i \in 1..n |-> IF i = 1 THEN q[i] ELSE h[i - 1] \o q[i]]

\* What the sequence of joined beginnings is.
LEMMA JoinsAt ==
  ASSUME NEW n \in Nat, NEW h, NEW q, Joins(h, q, n)
  PROVE  \A i \in 1..n : h[i] = IF i = 1 THEN q[i] ELSE h[i - 1] \o q[i]
  <1>1. PICK f : f = [i \in 1..n |-> IF i = 1 THEN q[i] ELSE h[i - 1] \o q[i]]
    OBVIOUS
  <1>2. h = f
    BY <1>1 DEF Joins
  <1>3. QED
    BY <1>1, <1>2

\* There is such a sequence, of any length.
LEMMA JoinsExist ==
  ASSUME NEW n \in Nat, NEW q
  PROVE  \E h : Joins(h, q, n)
  <1> DEFINE Has == {m \in Nat : \E h : Joins(h, q, m)}
  <1>1. ASSUME NEW m \in Nat, \A l \in 0..(m - 1) : l \in Has PROVE m \in Has
    <2> SUFFICES \E h : Joins(h, q, m)
      OBVIOUS
    <2>1. CASE m = 0
      <3> DEFINE h == [i \in 1..m |-> q[i]]
      <3>1. 1..m = {}
        BY <2>1
      <3>2. h = [i \in 1..m |-> IF i = 1 THEN q[i] ELSE h[i - 1] \o q[i]]
        BY <3>1
      <3>3. QED
        BY <3>2 DEF Joins
    <2>2. CASE m # 0
      <3>1. m - 1 \in 0..(m - 1) /\ m - 1 \in Nat
        BY <2>2
      <3>2. PICK g : Joins(g, q, m - 1)
        BY <1>1, <3>1
      <3>3. \A i \in 1..(m - 1) : g[i] = IF i = 1 THEN q[i] ELSE g[i - 1] \o q[i]
        BY <3>1, <3>2, JoinsAt
      <3> DEFINE h == [i \in 1..m |-> IF i = m THEN IF i = 1 THEN q[i] ELSE g[i - 1] \o q[i] ELSE g[i]]
      <3>4. ASSUME NEW i \in 1..m
            PROVE  h[i] = IF i = 1 THEN q[i] ELSE h[i - 1] \o q[i]
        <4>1. i # 1 => i - 1 \in 1..m /\ i - 1 # m
          OBVIOUS
        <4>2. i # 1 => h[i - 1] = g[i - 1]
          BY <4>1
        <4>3. CASE i = m
          BY <4>2, <4>3
        <4>4. CASE i # m
          <5>1. i \in 1..(m - 1) /\ h[i] = g[i]
            BY <4>4
          <5> HIDE DEF h
          <5>2. QED
            BY <3>3, <4>2, <5>1
        <4>5. QED
          BY <4>3, <4>4
      <3>5. h = [i \in 1..m |-> IF i = 1 THEN q[i] ELSE h[i - 1] \o q[i]]
        BY <3>4
      <3>6. QED
        BY <3>5 DEF Joins
    <2>3. QED
      BY <2>1, <2>2
  <1> HIDE DEF Has
  <1>2. n \in Has
    BY <1>1, CountUp
  <1>3. QED
    BY <1>2 DEF Has

\* FlattenSeq takes the last of them.
LEMMA FlattenJoins ==
  ASSUME NEW n \in Nat \ {0}, NEW q, DOMAIN q = 1..n, Len(q) = n
  PROVE  \E h : Joins(h, q, n) /\ FlattenSeq(q) = h[n]
  <1> DEFINE Flattens(h) == h = [i \in 1..n |-> IF i = 1 THEN q[i] ELSE h[i - 1] \o q[i]]
  <1>1. FlattenSeq(q) = (CHOOSE h : Flattens(h))[n]
    BY DEF FlattenSeq
  <1>2. PICK g : Flattens(g)
    BY JoinsExist DEF Joins
  <1>3. PICK h : h = CHOOSE f : Flattens(f)
    OBVIOUS
  <1>4. Flattens(h)
    BY <1>2, <1>3
  <1>5. Joins(h, q, n)
    BY <1>4 DEF Joins
  <1>6. FlattenSeq(q) = h[n]
    BY <1>1, <1>3
  <1>7. QED
    BY <1>5, <1>6

\* Flattening a beginning of a sequence goes through the same steps.
LEMMA JoinsAgree ==
  ASSUME NEW n \in Nat, NEW m \in 0..n, NEW h, NEW g, NEW q, NEW r,
         Joins(h, q, n), Joins(g, r, m), \A i \in 1..m : r[i] = q[i]
  PROVE  \A i \in 1..m : g[i] = h[i]
  <1> DEFINE Same == {i \in Nat : i \in 1..m => g[i] = h[i]}
  <1>1. \A i \in 1..n : h[i] = IF i = 1 THEN q[i] ELSE h[i - 1] \o q[i]
    BY JoinsAt
  <1>2. \A i \in 1..m : g[i] = IF i = 1 THEN r[i] ELSE g[i - 1] \o r[i]
    BY JoinsAt
  <1>3. ASSUME NEW i \in Nat, \A j \in 0..(i - 1) : j \in Same PROVE i \in Same
    <2> SUFFICES ASSUME i \in 1..m PROVE g[i] = h[i]
      OBVIOUS
    <2>1. i \in 1..n /\ r[i] = q[i]
      OBVIOUS
    <2>2. CASE i = 1
      BY <1>1, <1>2, <2>1, <2>2
    <2>3. CASE i # 1
      <3>1. g[i - 1] = h[i - 1]
        BY <1>3, <2>3
      <3>2. h[i] = h[i - 1] \o q[i] /\ g[i] = g[i - 1] \o r[i]
        BY <1>1, <1>2, <2>1, <2>3
      <3>3. QED
        BY <2>1, <3>1, <3>2
    <2>4. QED
      BY <2>2, <2>3
  <1> HIDE DEF Same
  <1>4. \A i \in Nat : i \in Same
    BY <1>3, CountUp
  <1>5. QED
    BY <1>4 DEF Same

-----------------------------------------------------------------------------
(* The bytes of a response. *)

\* The bytes of the first k frames.
FirstBytes(fs, k) == BytesOf(SubSeq(fs, 1, k))

\* The first k frames of a response make the k-th of them.
LEMMA BytesJoined ==
  ASSUME NEW fs \in Seq(Frames), NEW h, Joins(h, [i \in 1..Len(fs) |-> Encoded(fs[i])], Len(fs)),
         NEW k \in 1..Len(fs)
  PROVE  FirstBytes(fs, k) = h[k]
  <1>1. PICK p : p = SubSeq(fs, 1, k)
    OBVIOUS
  <1>2. p \in Seq(Frames) /\ Len(p) = k /\ \A i \in 1..k : p[i] = fs[i]
    BY <1>1, Part
  <1>3. PICK q : q = [i \in 1..k |-> Encoded(p[i])]
    OBVIOUS
  <1>4. DOMAIN q = 1..k /\ Len(q) = k /\ \A i \in 1..k : q[i] = Encoded(fs[i])
    BY <1>2, <1>3
  <1>5. BytesOf(p) = FlattenSeq(q)
    BY <1>2, <1>3 DEF BytesOf
  <1>6. PICK g : Joins(g, q, k) /\ FlattenSeq(q) = g[k]
    BY <1>4, FlattenJoins
  <1>7. PICK r : r = [i \in 1..Len(fs) |-> Encoded(fs[i])]
    OBVIOUS
  <1>8. Joins(h, r, Len(fs)) /\ Len(fs) \in Nat /\ k \in 0..Len(fs) /\ \A i \in 1..k : q[i] = r[i]
    BY <1>4, <1>7
  <1>9. \A i \in 1..k : g[i] = h[i]
    BY <1>6, <1>8, JoinsAgree
  <1>10. QED
    BY <1>1, <1>5, <1>6, <1>9 DEF FirstBytes

\* No frame: no byte.
LEMMA NoBytes ==
  ASSUME NEW fs \in Seq(Frames)
  PROVE  FirstBytes(fs, 0) = <<>>
  <1>1. SubSeq(fs, 1, 0) = <<>>
    OBVIOUS
  <1>2. [i \in DOMAIN <<>> |-> Encoded(<<>>[i])] = <<>>
    OBVIOUS
  <1>3. BytesOf(<<>>) = <<>>
    BY <1>2 DEF BytesOf, FlattenSeq
  <1>4. QED
    BY <1>1, <1>3 DEF FirstBytes

\* All frames of a response: its bytes.
LEMMA AllBytes ==
  ASSUME NEW fs \in Seq(Frames)
  PROVE  FirstBytes(fs, Len(fs)) = BytesOf(fs)
  <1>1. SubSeq(fs, 1, Len(fs)) = fs
    OBVIOUS
  <1>2. QED
    BY <1>1 DEF FirstBytes

\* One more frame: its bytes are added.
LEMMA MoreBytes ==
  ASSUME NEW fs \in Seq(Frames), NEW k \in 0..(Len(fs) - 1)
  PROVE  FirstBytes(fs, k + 1) = FirstBytes(fs, k) \o Encoded(fs[k + 1])
  <1>1. PICK q : q = [i \in 1..Len(fs) |-> Encoded(fs[i])]
    OBVIOUS
  <1>2. PICK h : Joins(h, q, Len(fs))
    BY JoinsExist
  <1>3. \A i \in 1..Len(fs) : h[i] = IF i = 1 THEN q[i] ELSE h[i - 1] \o q[i]
    BY <1>2, JoinsAt
  <1>4. \A i \in 1..Len(fs) : FirstBytes(fs, i) = h[i]
    BY <1>1, <1>2, BytesJoined
  <1>5. k + 1 \in 1..Len(fs) /\ q[k + 1] = Encoded(fs[k + 1])
    BY <1>1
  <1>6. CASE k = 0
    <2>1. fs[k + 1] \in Frames
      BY <1>5
    <2>2. PICK e : e = Encoded(fs[k + 1]) /\ e \in Seq(Bytes)
      BY <2>1, EncodedTyped
    <2>3. FirstBytes(fs, k + 1) = e
      BY <1>3, <1>4, <1>5, <1>6, <2>2
    <2>4. FirstBytes(fs, k) = <<>>
      BY <1>6, NoBytes
    <2>5. <<>> \o e = e
      BY <2>2
    <2>6. QED
      BY <2>2, <2>3, <2>4, <2>5, Zenon
  <1>7. CASE k # 0
    <2>1. k \in 1..Len(fs) /\ (k + 1) - 1 = k /\ k + 1 # 1
      BY <1>7
    <2>2. h[k + 1] = h[k] \o q[k + 1]
      BY <1>3, <1>5, <2>1
    <2>3. QED
      BY <1>4, <1>5, <2>1, <2>2
  <1>8. QED
    BY <1>6, <1>7

\* The length of a frame.
LEMMA FrameSize ==
  ASSUME NEW f \in Frames
  PROVE  Size(f) \in Nat \ {0} /\ Encoded(f) \in Seq(Bytes) /\ Len(Encoded(f)) = Size(f)
  <1>1. Size(f) \in Nat \ {0}
    BY Places
  <1>2. IsLaidOut(Encoded(f), f)
    BY EncodedIs
  <1>3. QED
    BY <1>1, <1>2 DEF IsLaidOut

\* How many bytes the first k frames take.
Off(fs, k) == Len(FirstBytes(fs, k))

\* A response is bytes.
LEMMA BytesTyped ==
  ASSUME NEW fs \in Seq(Frames), NEW k \in 0..Len(fs)
  PROVE  FirstBytes(fs, k) \in Seq(Bytes) /\ Off(fs, k) \in Nat
  <1> DEFINE Typed == {i \in Nat : i <= Len(fs) => FirstBytes(fs, i) \in Seq(Bytes)}
  <1>1. ASSUME NEW i \in Nat, \A j \in 0..(i - 1) : j \in Typed PROVE i \in Typed
    <2> SUFFICES ASSUME i <= Len(fs) PROVE FirstBytes(fs, i) \in Seq(Bytes)
      OBVIOUS
    <2>1. CASE i = 0
      <3>1. FirstBytes(fs, i) = <<>>
        BY <2>1, NoBytes
      <3>2. <<>> \in Seq(Bytes)
        OBVIOUS
      <3>3. QED
        BY <3>1, <3>2, Zenon
    <2>2. CASE i # 0
      <3>1. PICK j \in 0..(Len(fs) - 1) : i = j + 1 /\ j \in 0..(i - 1)
        BY <2>2
      <3>2. FirstBytes(fs, j) \in Seq(Bytes)
        BY <1>1, <3>1
      <3>3. fs[j + 1] \in Frames /\ Encoded(fs[j + 1]) \in Seq(Bytes)
        BY <3>1, EncodedTyped
      <3>4. FirstBytes(fs, j) \o Encoded(fs[j + 1]) \in Seq(Bytes)
        BY <3>2, <3>3, ConcatProperties
      <3>5. QED
        BY <3>1, <3>4, MoreBytes
    <2>3. QED
      BY <2>1, <2>2
  <1> HIDE DEF Typed
  <1>2. k \in Typed
    BY <1>1, CountUp
  <1>3. FirstBytes(fs, k) \in Seq(Bytes)
    BY <1>2 DEF Typed
  <1>4. QED
    BY <1>3, LenProperties DEF Off

\* Each frame is laid after the ones before it.
LEMMA NextBytes ==
  ASSUME NEW fs \in Seq(Frames), NEW k \in 0..(Len(fs) - 1)
  PROVE  /\ fs[k + 1] \in Frames
         /\ Off(fs, k + 1) = Off(fs, k) + Size(fs[k + 1])
         /\ \A i \in 1..Off(fs, k) : FirstBytes(fs, k + 1)[i] = FirstBytes(fs, k)[i]
         /\ \A i \in 1..Size(fs[k + 1]) :
              FirstBytes(fs, k + 1)[Off(fs, k) + i] = Encoded(fs[k + 1])[i]
  <1>1. fs[k + 1] \in Frames /\ k \in 0..Len(fs)
    OBVIOUS
  <1>2. PICK x \in Seq(Bytes) : x = FirstBytes(fs, k) /\ Len(x) = Off(fs, k)
    BY <1>1, BytesTyped DEF Off
  <1>3. PICK e \in Seq(Bytes) : e = Encoded(fs[k + 1]) /\ Len(e) = Size(fs[k + 1])
    BY <1>1, FrameSize
  <1>4. PICK y : y = x \o e /\ y = FirstBytes(fs, k + 1)
    BY <1>2, <1>3, MoreBytes
  <1>5. Len(y) = Off(fs, k + 1)
    BY <1>4 DEF Off
  <1>6. /\ Len(y) = Len(x) + Len(e)
        /\ \A i \in 1..Len(x) : y[i] = x[i]
        /\ \A i \in 1..Len(e) : y[Len(x) + i] = e[i]
    <2>1. PICK z : z = x \o e
      OBVIOUS
    <2>2. Len(x) \in Nat /\ Len(e) \in Nat
      OBVIOUS
    <2>3. Len(z) = Len(x) + Len(e) /\ \A i \in 1..(Len(x) + Len(e)) :
            z[i] = IF i <= Len(x) THEN x[i] ELSE e[i - Len(x)]
      BY <2>1, ConcatProperties
    <2>4. \A i \in 1..Len(e) : z[Len(x) + i] = e[i]
      BY <2>2, <2>3
    <2>5. \A i \in 1..Len(x) : z[i] = x[i]
      BY <2>2, <2>3
    <2>6. y = z
      BY <1>4, <2>1, Zenon
    <2>7. QED
      BY <2>3, <2>4, <2>5, <2>6
  <1>7. QED
    BY <1>1, <1>2, <1>3, <1>4, <1>5, <1>6

\* Later frames leave earlier bytes where they are.
LEMMA EarlierBytes ==
  ASSUME NEW fs \in Seq(Frames), NEW k \in 0..Len(fs), NEW l \in k..Len(fs)
  PROVE  /\ Off(fs, k) <= Off(fs, l)
         /\ \A i \in 1..Off(fs, k) : FirstBytes(fs, l)[i] = FirstBytes(fs, k)[i]
  <1> DEFINE Keeps == {n \in Nat : n \in k..Len(fs) =>
                         /\ Off(fs, k) <= Off(fs, n)
                         /\ \A i \in 1..Off(fs, k) : FirstBytes(fs, n)[i] = FirstBytes(fs, k)[i]}
  <1>1. \A n \in 0..Len(fs) : Off(fs, n) \in Nat
    BY BytesTyped
  <1>2. ASSUME NEW n \in Nat, \A j \in 0..(n - 1) : j \in Keeps PROVE n \in Keeps
    <2> SUFFICES ASSUME n \in k..Len(fs)
                 PROVE  /\ Off(fs, k) <= Off(fs, n)
                        /\ \A i \in 1..Off(fs, k) : FirstBytes(fs, n)[i] = FirstBytes(fs, k)[i]
      OBVIOUS
    <2>1. CASE n = k
      BY <1>1, <2>1
    <2>2. CASE n # k
      <3>1. PICK j \in 0..(Len(fs) - 1) : n = j + 1 /\ j \in 0..(n - 1) /\ j \in k..Len(fs)
        BY <2>2
      <3>2. /\ Off(fs, k) <= Off(fs, j)
            /\ \A i \in 1..Off(fs, k) : FirstBytes(fs, j)[i] = FirstBytes(fs, k)[i]
        BY <1>2, <3>1
      <3>3. /\ fs[j + 1] \in Frames
            /\ Off(fs, n) = Off(fs, j) + Size(fs[j + 1])
            /\ \A i \in 1..Off(fs, j) : FirstBytes(fs, n)[i] = FirstBytes(fs, j)[i]
        BY <3>1, NextBytes
      <3>4. Size(fs[j + 1]) \in Nat /\ Off(fs, j) \in Nat /\ Off(fs, k) \in Nat
        BY <1>1, <3>1, <3>3, FrameSize
      <3>5. QED
        BY <3>2, <3>3, <3>4
    <2>3. QED
      BY <2>1, <2>2
  <1> HIDE DEF Keeps
  <1>3. l \in Keeps
    BY <1>2, CountUp
  <1>4. QED
    BY <1>3 DEF Keeps

\* Where the bytes of a frame are among those of the whole response.
LEMMA FrameBytes ==
  ASSUME NEW fs \in Seq(Frames), NEW k \in 0..(Len(fs) - 1)
  PROVE  /\ Off(fs, k) + Size(fs[k + 1]) <= Len(BytesOf(fs))
         /\ \A i \in 1..Size(fs[k + 1]) : BytesOf(fs)[Off(fs, k) + i] = Encoded(fs[k + 1])[i]
  <1>1. PICK n \in 0..Len(fs) : n = k + 1 /\ Len(fs) \in n..Len(fs)
    OBVIOUS
  <1>2. /\ fs[k + 1] \in Frames
        /\ Off(fs, n) = Off(fs, k) + Size(fs[k + 1])
        /\ \A i \in 1..Size(fs[k + 1]) : FirstBytes(fs, n)[Off(fs, k) + i] = Encoded(fs[k + 1])[i]
    BY <1>1, NextBytes
  <1>3. /\ Off(fs, n) <= Off(fs, Len(fs))
        /\ \A i \in 1..Off(fs, n) : FirstBytes(fs, Len(fs))[i] = FirstBytes(fs, n)[i]
    BY <1>1, EarlierBytes
  <1>4. FirstBytes(fs, Len(fs)) = BytesOf(fs) /\ Off(fs, Len(fs)) = Len(BytesOf(fs))
    BY AllBytes DEF Off
  <1>5. Off(fs, k) \in Nat /\ Size(fs[k + 1]) \in Nat
    BY <1>2, BytesTyped, FrameSize
  <1>6. QED
    BY <1>2, <1>3, <1>4, <1>5

-----------------------------------------------------------------------------
(* The invariant. *)

\* What was given is a beginning of what was sent, and the buffer is what has
\* arrived after it.
StreamInv ==
  /\ frames \in Seq(Frames)
  /\ given = SubSeq(Sent, 1, Len(given)) /\ Len(given) \in 0..Len(frames)
  /\ arrived \in 0..Len(BytesOf(frames))
  /\ open \in BOOLEAN
  /\ open => /\ Off(frames, Len(given)) <= arrived
             /\ buffer = SubSeq(BytesOf(frames), Off(frames, Len(given)) + 1, arrived)

\* A frame carries one of the messages.
LEMMA FrameFields ==
  ASSUME NEW f \in Frames
  PROVE  f.message \in Messages
  BY DEF Frames

\* What the invariant says of types.
LEMMA InvTypes ==
  ASSUME StreamInv
  PROVE  /\ frames \in Seq(Frames) /\ Len(frames) \in Nat
         /\ Len(given) \in Nat /\ Len(given) \in 0..Len(frames)
         /\ \A i \in 1..Len(frames) : frames[i] \in Frames /\ frames[i].message \in Messages
  <1>1. frames \in Seq(Frames) /\ Len(given) \in 0..Len(frames)
    BY DEF StreamInv
  <1>2. Len(frames) \in Nat /\ \A i \in 1..Len(frames) : frames[i] \in Frames
    BY <1>1
  <1>3. \A i \in 1..Len(frames) : frames[i].message \in Messages
    BY <1>2, FrameFields
  <1>4. QED
    BY <1>1, <1>2, <1>3

\* Pairs of messages are sent, and pairs of messages are given.
LEMMA SentTyped ==
  ASSUME StreamInv
  PROVE  /\ Sent \in Seq(Messages \X Messages) /\ Len(Sent) = Len(frames)
         /\ given \in Seq(Messages \X Messages)
         /\ \A i \in 1..Len(given) : given[i] = Sent[i]
  <1>1. frames \in Seq(Frames) /\ Len(given) \in 0..Len(frames)
    BY DEF StreamInv
  <1>2. \A i \in 1..Len(frames) : frames[i].message \in Messages
    BY InvTypes
  <1>3. Sent \in Seq(Messages \X Messages) /\ Len(Sent) = Len(frames)
    BY <1>1, <1>2 DEF Sent
  <1>4. PICK n \in 0..Len(Sent) : n = Len(given)
    BY <1>1, <1>3
  <1>5. PICK g : g = SubSeq(Sent, 1, n)
    OBVIOUS
  <1>6. g \in Seq(Messages \X Messages) /\ \A i \in 1..n : g[i] = Sent[i]
    <2>1. 1 \in 1..(Len(Sent) + 1) /\ n \in 0..Len(Sent) /\ 1 <= n + 1
      BY <1>3, <1>4
    <2>2. QED
      BY <1>3, <1>5, <2>1, Part
  <1>7. given = g
    BY <1>4, <1>5, Zenon DEF StreamInv
  <1>8. QED
    BY <1>3, <1>4, <1>6, <1>7

\* One more event of the sequence sent is a longer beginning of it.
LEMMA GivenMore ==
  ASSUME StreamInv, Len(given) < Len(frames)
  PROVE  LET m == frames[Len(given) + 1].message IN
           given \o << <<m, m>> >> = SubSeq(Sent, 1, Len(given) + 1)
  <1>1. PICK n \in Nat : n = Len(given) /\ n + 1 \in 1..Len(frames)
    BY InvTypes
  <1>2. PICK m : m = frames[n + 1].message
    OBVIOUS
  <1>3. frames \in Seq(Frames) /\ m \in Messages
    BY <1>1, <1>2, InvTypes
  <1>4. Sent[n + 1] = <<m, m>> /\ <<m, m>> \in Messages \X Messages
    <2>1. n + 1 \in DOMAIN frames
      BY <1>1, <1>3
    <2>2. Sent[n + 1] = <<frames[n + 1].message, frames[n + 1].message>>
      BY <2>1 DEF Sent
    <2>3. QED
      BY <1>2, <1>3, <2>2
  <1>5. PICK S : S = Messages \X Messages
    OBVIOUS
  <1>6. PICK x : x = <<m, m>> /\ x \in S
    BY <1>4, <1>5, Zenon
  <1>7. PICK s : s = Sent /\ s \in Seq(S) /\ Len(s) = Len(frames) /\ s[n + 1] = x
    BY <1>4, <1>5, <1>6, SentTyped
  <1>8. PICK g : g = given /\ g \in Seq(S) /\ Len(g) = n /\ \A i \in 1..n : g[i] = s[i]
    BY <1>1, <1>5, <1>7, SentTyped
  <1>9. g \o <<x>> = SubSeq(s, 1, Len(g) + 1)
    BY <1>1, <1>7, <1>8, OneMore
  <1>10. QED
    BY <1>1, <1>2, <1>6, <1>7, <1>8, <1>9, Zenon

\* The bytes in the buffer, by their place in the response.
LEMMA BufferIs ==
  ASSUME StreamInv, open
  PROVE  /\ buffer \in Seq(Bytes) /\ Len(buffer) = arrived - Off(frames, Len(given))
         /\ Off(frames, Len(given)) \in Nat
         /\ \A i \in 1..Len(buffer) : buffer[i] = BytesOf(frames)[Off(frames, Len(given)) + i]
  <1>1. frames \in Seq(Frames) /\ Len(given) \in 0..Len(frames)
    BY DEF StreamInv
  <1>2. BytesOf(frames) \in Seq(Bytes)
    <2>1. Len(frames) \in 0..Len(frames)
      BY <1>1
    <2>2. QED
      BY <1>1, <2>1, BytesTyped, AllBytes
  <1>3. PICK o \in Nat : o = Off(frames, Len(given))
    BY <1>1, BytesTyped
  <1>4. o <= arrived /\ arrived \in 0..Len(BytesOf(frames))
    BY <1>3 DEF StreamInv
  <1>5. PICK b : b = SubSeq(BytesOf(frames), o + 1, arrived) /\ b = buffer
    BY <1>3 DEF StreamInv
  <1>6. o \in 0..Len(BytesOf(frames)) /\ arrived \in o..Len(BytesOf(frames))
    BY <1>3, <1>4
  <1>7. /\ b \in Seq(Bytes) /\ Len(b) = arrived - o
        /\ \A i \in 1..(arrived - o) : b[i] = BytesOf(frames)[o + i]
    BY <1>2, <1>5, <1>6, Slice
  <1>8. QED
    BY <1>3, <1>5, <1>7

\* What the buffer begins with, while frames are still to be given.
LEMMA BufferAgrees ==
  ASSUME StreamInv, open, Len(given) < Len(frames)
  PROVE  /\ frames[Len(given) + 1] \in Frames
         /\ Agrees(buffer, frames[Len(given) + 1])
  <1>1. PICK n \in 0..(Len(frames) - 1) : n = Len(given)
    BY InvTypes
  <1>2. frames \in Seq(Frames)
    BY DEF StreamInv
  <1>3. PICK f : f = frames[n + 1] /\ f \in Frames
    BY <1>1, <1>2
  <1>4. PICK o : o = Off(frames, n)
    OBVIOUS
  <1>5. \A i \in 1..Size(f) : BytesOf(frames)[o + i] = Encoded(f)[i]
    BY <1>1, <1>2, <1>3, <1>4, FrameBytes
  <1>6. buffer \in Seq(Bytes) /\ \A i \in 1..Len(buffer) : buffer[i] = BytesOf(frames)[o + i]
    BY <1>1, <1>4, BufferIs
  <1>7. Size(f) \in Nat
    BY <1>3, FrameSize
  <1>8. \A i \in 1..Len(buffer) : i <= Size(f) => buffer[i] = Encoded(f)[i]
    BY <1>5, <1>6, <1>7
  <1>9. QED
    BY <1>1, <1>3, <1>6, <1>8 DEF Agrees

\* Nothing is left when every frame has been given.
LEMMA BufferEmpty ==
  ASSUME StreamInv, open, Len(given) >= Len(frames)
  PROVE  buffer = <<>> /\ Boundaries(buffer) = {}
  <1>1. frames \in Seq(Frames) /\ Len(given) = Len(frames) /\ arrived \in 0..Len(BytesOf(frames))
    BY DEF StreamInv
  <1>2. Off(frames, Len(given)) = Len(BytesOf(frames))
    BY <1>1, AllBytes DEF Off
  <1>3. buffer \in Seq(Bytes) /\ Len(buffer) = 0
    BY <1>1, <1>2, BufferIs DEF StreamInv
  <1>4. Pairs(buffer) = {} /\ Quads(buffer) = {}
    BY <1>3 DEF Pairs, Quads
  <1>5. Boundaries(buffer) = {}
    <2>1. buffer \in Seq(Bytes)
      BY <1>3
    <2>2. QED
      BY <1>4, <2>1, BoundariesAre
  <1>6. buffer = <<>>
    BY <1>3
  <1>7. QED
    BY <1>5, <1>6

\* The invariant holds before the first byte is read.
LEMMA StreamInit == Init => StreamInv
  <1> SUFFICES ASSUME Init PROVE StreamInv
    OBVIOUS
  <1>1. frames \in Seq(Frames)
    BY FramesAssumption DEF Init, BoundedSeq, SeqOf
  <1>2. given = <<>> /\ arrived = 0 /\ buffer = <<>> /\ open = TRUE
    BY DEF Init
  <1>3. given = SubSeq(Sent, 1, Len(given)) /\ Len(given) = 0
    BY <1>2
  <1>4. PICK b \in Seq(Bytes) : b = BytesOf(frames)
    <2>1. Len(frames) \in 0..Len(frames)
      BY <1>1
    <2>2. QED
      BY <1>1, <2>1, BytesTyped, AllBytes
  <1>5. Off(frames, 0) = 0
    BY <1>1, NoBytes DEF Off
  <1>6. SubSeq(b, 0 + 1, 0) = <<>>
    OBVIOUS
  <1>7. QED
    BY <1>1, <1>2, <1>3, <1>4, <1>5, <1>6 DEF StreamInv

\* While the page waits for more, the buffer is the beginning of the next
\* frame, and shorter than it.
LEMMA Waiting ==
  ASSUME StreamInv, open, Boundaries(buffer) = {}, Len(given) < Len(frames)
  PROVE  /\ Len(buffer) \in 0..Size(frames[Len(given) + 1])
         /\ Len(buffer) < Size(frames[Len(given) + 1])
         /\ buffer = SubSeq(Encoded(frames[Len(given) + 1]), 1, Len(buffer))
  <1>1. PICK f \in Frames : f = frames[Len(given) + 1] /\ Agrees(buffer, f)
    BY BufferAgrees
  <1>2. /\ Size(f) \in Nat /\ Encoded(f) \in Seq(Bytes) /\ Len(Encoded(f)) = Size(f)
    BY FrameSize
  <1>3. buffer \in Seq(Bytes) /\ Len(buffer) \in Nat
    BY <1>1 DEF Agrees
  <1>4. Len(buffer) < Size(f)
    BY <1>1, <1>2, <1>3, FirstBlankLine
  <1>5. \A i \in 1..Len(buffer) : buffer[i] = Encoded(f)[i]
    BY <1>1, <1>2, <1>3, <1>4 DEF Agrees
  <1>6. PICK s : s = SubSeq(Encoded(f), 1, Len(buffer))
    OBVIOUS
  <1>7. s \in Seq(Bytes) /\ Len(s) = Len(buffer) /\ \A i \in 1..Len(buffer) : s[i] = Encoded(f)[i]
    BY <1>2, <1>3, <1>4, <1>6, Part
  <1>8. buffer = s
    BY <1>3, <1>5, <1>7, SeqEqual
  <1>9. QED
    BY <1>1, <1>2, <1>3, <1>4, <1>6, <1>8

\* What is made of the first p bytes of a frame: its event, or nothing.
LEMMA EventsOfBeginning ==
  ASSUME NEW f \in Frames, NEW p \in 0..Size(f)
  PROVE  EventsOf(SubSeq(Encoded(f), 1, p)) =
           IF p < DataAt(f) + 2 THEN {} ELSE {<<f.message, f.message>>}
  <1>1. PICK s : s = SubSeq(Encoded(f), 1, p) /\ Begins(s, f, p)
    BY Beginning
  <1>2. DataAt(f) \in Nat /\ p \in Nat
    BY Places
  <1>3. CASE p < DataAt(f)
    <2>1. EventsOf(s) = {}
      BY <1>1, <1>3, DataNotThere
    <2>2. p < DataAt(f) + 2
      BY <1>2, <1>3
    <2>3. QED
      BY <1>1, <2>1, <2>2
  <1>4. CASE DataAt(f) <= p /\ p < DataAt(f) + 2
    <2>1. EventsOf(s) = {}
      BY <1>1, <1>4, DataCut
    <2>2. QED
      BY <1>1, <1>4, <2>1
  <1>5. CASE DataAt(f) + 2 <= p
    <2>1. EventsOf(s) = {<<f.message, f.message>>}
      BY <1>1, <1>5, DataThere
    <2>2. ~(p < DataAt(f) + 2)
      BY <1>2, <1>5
    <2>3. QED
      BY <1>1, <2>1, <2>2
  <1>6. QED
    BY <1>2, <1>3, <1>4, <1>5

\* Nothing is made of no bytes.
LEMMA EventsOfNothing == EventsOf(<<>>) = {}
  <1>1. <<>> \in Seq(Bytes) /\ \A i \in 1..Len(<<>>) : <<>>[i] # Data
    OBVIOUS
  <1>2. Values(<<>>, Data) = <<>>
    BY <1>1, NoField
  <1>3. QED
    BY <1>2, NoData

\* A chunk of any length is added to what is left over.
LEMMA ReadKeeps ==
  ASSUME StreamInv, Read
  PROVE  StreamInv'
  <1>1. /\ open /\ arrived < Len(BytesOf(frames))
        /\ arrived' \in (arrived + 1)..Len(BytesOf(frames))
        /\ buffer' = buffer \o SubSeq(BytesOf(frames), arrived + 1, arrived')
        /\ frames' = frames /\ given' = given /\ open' = open
    BY DEF Read
  <1>2. frames \in Seq(Frames) /\ Len(given) \in 0..Len(frames) /\ arrived \in 0..Len(BytesOf(frames))
    BY DEF StreamInv
  <1>3. PICK bs \in Seq(Bytes) : bs = BytesOf(frames)
    <2>1. Len(frames) \in 0..Len(frames)
      BY <1>2
    <2>2. QED
      BY <1>2, <2>1, BytesTyped, AllBytes
  <1>4. PICK o \in Nat : o = Off(frames, Len(given)) /\ o <= arrived
    BY <1>1, <1>2, BytesTyped DEF StreamInv
  <1>5. buffer = SubSeq(bs, o + 1, arrived)
    BY <1>1, <1>3, <1>4 DEF StreamInv
  <1>6. PICK n \in Nat : /\ n = arrived' /\ n \in arrived..Len(bs) /\ o <= n
                         /\ o \in 0..Len(bs) /\ arrived \in o..Len(bs)
    BY <1>1, <1>2, <1>3, <1>4
  <1>7. SubSeq(bs, o + 1, arrived) \o SubSeq(bs, arrived + 1, n) = SubSeq(bs, o + 1, n)
    BY <1>6, SlicesJoin
  <1>8. buffer' = SubSeq(bs, o + 1, n)
    BY <1>1, <1>3, <1>5, <1>6, <1>7, Zenon
  <1>9. given = SubSeq(Sent, 1, Len(given)) /\ Sent' = Sent /\ open \in BOOLEAN
    BY <1>1 DEF StreamInv, Sent
  <1>10. BytesOf(frames)' = bs /\ Off(frames, Len(given))' = o
    BY <1>1, <1>3, <1>4 DEF Off, FirstBytes, BytesOf
  <1>11. arrived' \in 0..Len(bs)
    BY <1>6
  <1>12. QED
    BY <1>1, <1>2, <1>6, <1>8, <1>9, <1>10, <1>11 DEF StreamInv

\* Giving the next message keeps what was given a beginning of what was sent.
LEMMA GivenNext ==
  ASSUME StreamInv, Len(given) < Len(frames), frames' = frames,
         given' = given \o SetToSeq({<<frames[Len(given) + 1].message,
                                       frames[Len(given) + 1].message>>})
  PROVE  /\ given' = SubSeq(Sent, 1, Len(given'))
         /\ Len(given') = Len(given) + 1 /\ Len(given') \in 0..Len(frames)
  <1>1. PICK n \in Nat : n = Len(given) /\ n + 1 \in 0..Len(frames) /\ Len(frames) \in Nat
    BY InvTypes
  <1>2. given' = SubSeq(Sent, 1, n + 1)
    BY <1>1, GivenMore, SetToSeqOne, Zenon
  <1>3. PICK g : g = SubSeq(Sent, 1, n + 1)
    OBVIOUS
  <1>4. Len(g) = n + 1
    <2>1. PICK S : Sent \in Seq(S) /\ Len(Sent) = Len(frames)
      BY SentTyped
    <2>2. 1 \in 1..(Len(Sent) + 1) /\ n + 1 \in 0..Len(Sent) /\ 1 <= (n + 1) + 1
      BY <1>1, <2>1
    <2>3. Len(g) = (n + 1) - 1 + 1
      BY <1>3, <2>1, <2>2, Part
    <2>4. QED
      BY <1>1, <2>3
  <1>5. Len(given') = n + 1
    BY <1>2, <1>3, <1>4, Zenon
  <1>6. QED
    BY <1>1, <1>2, <1>5, Zenon

\* The frame that is taken is the next one sent, and the rest starts after it.
LEMMA TakeFrameKeeps ==
  ASSUME StreamInv, TakeFrame
  PROVE  StreamInv'
  <1>1. /\ open /\ Boundaries(buffer) # {}
        /\ given' = given \o SetToSeq(EventsOf(SubSeq(buffer, 1, FrameBoundary(buffer).end)))
        /\ buffer' = SubSeq(buffer, FrameBoundary(buffer).next, Len(buffer))
        /\ frames' = frames /\ arrived' = arrived /\ open' = open
    BY DEF TakeFrame, Give
  <1>2. PICK n \in Nat : n = Len(given) /\ n \in 0..(Len(frames) - 1) /\ n < Len(frames)
    <2>1. Len(given) \in Nat /\ Len(frames) \in Nat
      BY InvTypes
    <2>2. ~(Len(given) >= Len(frames))
      BY <1>1, BufferEmpty
    <2>3. QED
      BY <2>1, <2>2
  <1>3. PICK f : f = frames[n + 1] /\ f \in Frames /\ Agrees(buffer, f)
    BY <1>1, <1>2, BufferAgrees
  <1>4. PICK w \in {1, 2} : Len(f.ending) = w /\ Size(f) = DataAt(f) + 2 + 2 * w /\ DataAt(f) \in Nat
    BY <1>3, Places
  <1>5. PICK l \in Nat : l = Size(f)
    BY <1>4
  <1>6. /\ buffer \in Seq(Bytes) /\ Len(buffer) \in Nat
        /\ \A i \in 1..Len(buffer) : i <= l => buffer[i] = Encoded(f)[i]
    BY <1>3, <1>5 DEF Agrees
  <1>7. Len(buffer) >= l
    <2>1. ~(Len(buffer) < Size(f))
      BY <1>1, <1>3, NoBlankLine
    <2>2. Len(buffer) \in Nat
      BY <1>6
    <2>3. QED
      BY <1>5, <2>1, <2>2
  <1>8. PICK p \in Nat : /\ p = l - 2 * w /\ p \in 0..Size(f) /\ ~(p < DataAt(f) + 2)
                         /\ FrameBoundary(buffer).end = p /\ FrameBoundary(buffer).next = l + 1
    <2>1. FrameBoundary(buffer).end = l - 2 * w /\ FrameBoundary(buffer).next = l + 1
      BY <1>3, <1>4, <1>5, <1>7, FirstBlankLine
    <2>2. l - 2 * w \in Nat /\ l - 2 * w \in 0..Size(f) /\ ~(l - 2 * w < DataAt(f) + 2)
      BY <1>4, <1>5
    <2>3. QED
      BY <2>1, <2>2
  <1>9. SubSeq(buffer, 1, p) = SubSeq(Encoded(f), 1, p)
    <2>1. Encoded(f) \in Seq(Bytes) /\ Len(Encoded(f)) = l
      BY <1>3, <1>5, FrameSize
    <2>2. PICK x : x = SubSeq(buffer, 1, p)
      OBVIOUS
    <2>3. PICK y : y = SubSeq(Encoded(f), 1, p)
      OBVIOUS
    <2>4. x \in Seq(Bytes) /\ Len(x) = p /\ \A i \in 1..p : x[i] = buffer[i]
      <3>1. 1 \in 1..(Len(buffer) + 1) /\ p \in 0..Len(buffer) /\ 1 <= p + 1
        BY <1>5, <1>6, <1>7, <1>8
      <3>2. buffer \in Seq(Bytes)
        BY <1>6
      <3>3. QED
        BY <2>2, <3>1, <3>2, Part
    <2>5. y \in Seq(Bytes) /\ Len(y) = p /\ \A i \in 1..p : y[i] = Encoded(f)[i]
      <3>1. 1 \in 1..(Len(Encoded(f)) + 1) /\ p \in 0..Len(Encoded(f)) /\ 1 <= p + 1
        BY <1>5, <1>8, <2>1
      <3>2. QED
        BY <2>1, <2>3, <3>1, Part
    <2>6. \A i \in 1..p : i \in 1..Len(buffer) /\ i <= l
      BY <1>5, <1>6, <1>7, <1>8
    <2>7. x = y
      BY <1>6, <2>4, <2>5, <2>6, SeqEqual
    <2>8. QED
      BY <2>2, <2>3, <2>7
  <1>10. EventsOf(SubSeq(buffer, 1, p)) = {<<f.message, f.message>>}
    <2>1. EventsOf(SubSeq(Encoded(f), 1, p)) = {<<f.message, f.message>>}
      BY <1>3, <1>8, EventsOfBeginning
    <2>2. QED
      BY <1>9, <2>1, Zenon
  <1>11. /\ given' = SubSeq(Sent, 1, Len(given'))
         /\ Len(given') = n + 1 /\ Len(given') \in 0..Len(frames)
    <2>1. given' = given \o SetToSeq({<<frames[Len(given) + 1].message,
                                        frames[Len(given) + 1].message>>})
      BY <1>1, <1>2, <1>3, <1>8, <1>10, Zenon
    <2>2. Len(given) < Len(frames)
      BY <1>2
    <2>3. QED
      BY <1>1, <1>2, <2>1, <2>2, GivenNext
  <1>12. PICK bs : bs = BytesOf(frames)
    OBVIOUS
  <1>13. frames \in Seq(Frames) /\ arrived \in 0..Len(bs) /\ open \in BOOLEAN
    BY <1>12 DEF StreamInv
  <1>14. bs \in Seq(Bytes)
    <2>1. Len(frames) \in 0..Len(frames)
      BY <1>13
    <2>2. QED
      BY <1>12, <1>13, <2>1, BytesTyped, AllBytes
  <1>15. PICK o \in Nat : /\ o = Off(frames, n) /\ o <= arrived /\ Len(buffer) = arrived - o
                          /\ buffer = SubSeq(bs, o + 1, arrived)
    <2>1. Off(frames, n) \in Nat /\ Len(buffer) = arrived - Off(frames, n)
      BY <1>1, <1>2, BufferIs
    <2>2. Off(frames, n) <= arrived /\ buffer = SubSeq(bs, Off(frames, n) + 1, arrived)
      BY <1>1, <1>2, <1>12 DEF StreamInv
    <2>3. QED
      BY <2>1, <2>2
  <1>16. Off(frames, n + 1) = o + l
    BY <1>2, <1>3, <1>5, <1>13, <1>15, NextBytes
  <1>17. o + l <= arrived
    BY <1>7, <1>13, <1>15
  <1>18. buffer' = SubSeq(bs, o + l + 1, arrived)
    <2>1. o \in 0..Len(bs) /\ arrived \in o..Len(bs) /\ l \in 0..(arrived - o)
      BY <1>13, <1>15, <1>17
    <2>2. \A b : b = SubSeq(bs, o + 1, arrived) =>
                  SubSeq(b, l + 1, Len(b)) = SubSeq(bs, o + l + 1, arrived)
      BY <1>14, <2>1, SliceOfSlice
    <2>3. SubSeq(buffer, l + 1, Len(buffer)) = SubSeq(bs, o + l + 1, arrived)
      BY <1>15, <2>2, Zenon
    <2>4. QED
      BY <1>1, <1>8, <2>3, Zenon
  <1>19. Sent' = Sent /\ BytesOf(frames)' = bs
    BY <1>1, <1>12 DEF Sent, BytesOf
  <1>20. Off(frames, Len(given))' = o + l
    BY <1>1, <1>11, <1>16 DEF Off, FirstBytes, BytesOf
  <1>21. QED
    BY <1>1, <1>11, <1>13, <1>17, <1>18, <1>19, <1>20 DEF StreamInv

\* What is left at the end makes the event of the next frame, or nothing.
LEMMA EndOfBodyKeeps ==
  ASSUME StreamInv, EndOfBody
  PROVE  StreamInv'
  <1>1. /\ open /\ Boundaries(buffer) = {}
        /\ given' = given \o SetToSeq(EventsOf(buffer))
        /\ frames' = frames /\ arrived' = arrived /\ open' = FALSE
    BY DEF EndOfBody, Give
  <1>2. Sent' = Sent /\ BytesOf(frames)' = BytesOf(frames)
    BY <1>1 DEF Sent, BytesOf
  <1>3. /\ frames \in Seq(Frames) /\ arrived \in 0..Len(BytesOf(frames))
        /\ given = SubSeq(Sent, 1, Len(given)) /\ Len(given) \in 0..Len(frames)
    BY DEF StreamInv
  <1>4. ASSUME EventsOf(buffer) = {}
        PROVE  given' = given
    <2>1. PICK S : given \in Seq(S)
      BY SentTyped
    <2>2. given \o <<>> = given
      BY <2>1, ConcatEmptySeq
    <2>3. QED
      BY <1>1, <1>4, <2>2, SetToSeqNone, Zenon
  <1>5. given' = SubSeq(Sent, 1, Len(given')) /\ Len(given') \in 0..Len(frames)
    <2>1. CASE Len(given) >= Len(frames)
      <3>1. buffer = <<>>
        BY <1>1, <2>1, BufferEmpty
      <3>2. given' = given
        BY <1>4, <3>1, EventsOfNothing, Zenon
      <3>3. QED
        BY <1>3, <3>2, Zenon
    <2>2. CASE Len(given) < Len(frames)
      <3>1. PICK f \in Frames : f = frames[Len(given) + 1]
        BY <1>1, <2>2, BufferAgrees
      <3>2. PICK p : p = Len(buffer) /\ p \in 0..Size(f) /\ buffer = SubSeq(Encoded(f), 1, p)
        BY <1>1, <2>2, <3>1, Waiting
      <3>3. EventsOf(buffer) = IF p < DataAt(f) + 2 THEN {} ELSE {<<f.message, f.message>>}
        BY <3>1, <3>2, EventsOfBeginning
      <3>4. CASE EventsOf(buffer) = {}
        BY <1>3, <1>4, <3>4, Zenon
      <3>5. CASE EventsOf(buffer) = {<<f.message, f.message>>}
        <4>1. given' = given \o SetToSeq({<<frames[Len(given) + 1].message,
                                            frames[Len(given) + 1].message>>})
          BY <1>1, <3>1, <3>5, Zenon
        <4>2. QED
          BY <1>1, <2>2, <4>1, GivenNext
      <3>6. QED
        BY <3>3, <3>4, <3>5, Zenon
    <2>3. QED
      BY <2>1, <2>2, InvTypes
  <1>6. QED
    BY <1>1, <1>2, <1>3, <1>5 DEF StreamInv

\* Every step keeps the invariant.
LEMMA StreamNext ==
  ASSUME StreamInv, [Next]_vars
  PROVE  StreamInv'
  <1>1. CASE Read
    BY <1>1, ReadKeeps
  <1>2. CASE TakeFrame
    BY <1>2, TakeFrameKeeps
  <1>3. CASE EndOfBody
    BY <1>3, EndOfBodyKeeps
  <1>4. CASE ConnectionBreaks
    <2>1. frames' = frames /\ given' = given /\ arrived' = arrived /\ open' = FALSE
      BY <1>4 DEF ConnectionBreaks
    <2>2. Sent' = Sent /\ BytesOf(frames)' = BytesOf(frames)
      BY <2>1 DEF Sent, BytesOf
    <2>3. QED
      BY <2>1, <2>2 DEF StreamInv
  <1>5. CASE UNCHANGED vars
    <2>1. frames' = frames /\ given' = given /\ arrived' = arrived /\ open' = open /\ buffer' = buffer
      BY <1>5 DEF vars
    <2>2. /\ Sent' = Sent /\ BytesOf(frames)' = BytesOf(frames)
          /\ Off(frames, Len(given))' = Off(frames, Len(given))
      BY <2>1 DEF Sent, BytesOf, Off, FirstBytes
    <2>3. QED
      BY <2>1, <2>2 DEF StreamInv
  <1>6. QED
    BY <1>1, <1>2, <1>3, <1>4, <1>5 DEF Next

\* While the page reads, it has been given the first frames sent, and the
\* buffer is what has arrived after them; this is kept by every chunk, every
\* frame taken and every end of the response (parseSseStream, lib/sse.ts).
THEOREM StreamInvariant == Spec => []StreamInv
  <1>1. Init => StreamInv
    BY StreamInit
  <1>2. StreamInv /\ [Next]_vars => StreamInv'
    BY StreamNext
  <1>3. QED
    BY <1>1, <1>2, PTL DEF Spec

\* However the response is cut, and wherever it ends, the page is given what
\* the server sent, in its order, without a gap, and nothing is made of half a
\* frame (parseSseStream and parseFrame, lib/sse.ts).
THEOREM GivenAsSentHolds == Spec => []GivenAsSent
  <1>1. StreamInv => GivenAsSent
    <2> SUFFICES ASSUME StreamInv PROVE GivenAsSent
      OBVIOUS
    <2>1. PICK n \in Nat : n = Len(given) /\ n <= Len(frames)
      BY InvTypes
    <2>2. PICK S : /\ given \in Seq(S) /\ Sent \in Seq(S) /\ Len(Sent) = Len(frames)
      BY SentTyped
    <2>3. SubSeq(given, 1, n) = given
      BY <2>1, <2>2
    <2>4. given = SubSeq(Sent, 1, n)
      BY <2>1, Zenon DEF StreamInv
    <2>5. QED
      BY <2>1, <2>2, <2>3, <2>4, Zenon DEF GivenAsSent, IsPrefix
  <1>2. QED
    BY <1>1, StreamInvariant, PTL

\* While parseSseStream waits for more, the page has been given every frame
\* that has arrived to its end.
THEOREM NothingHeldBackHolds == Spec => []NothingHeldBack
  <1>1. StreamInv => NothingHeldBack
    <2> SUFFICES ASSUME StreamInv, open, Boundaries(buffer) = {}, NEW k \in DOMAIN frames,
                        Len(BytesOf(SubSeq(frames, 1, k))) <= arrived, ~(Len(given) >= k)
                 PROVE  FALSE
      BY DEF NothingHeldBack
    <2>1. frames \in Seq(Frames) /\ k \in 0..Len(frames) /\ arrived \in Nat
      BY DEF StreamInv
    <2>2. PICK n \in Nat : /\ n = Len(given) /\ n \in 0..(Len(frames) - 1)
                           /\ n + 1 \in 0..Len(frames) /\ k \in (n + 1)..Len(frames)
      BY <2>1, InvTypes
    <2>3. Off(frames, n + 1) <= Off(frames, k)
      BY <2>1, <2>2, EarlierBytes
    <2>4. Off(frames, k) <= arrived
      BY DEF Off, FirstBytes
    <2>5. Off(frames, n + 1) = Off(frames, n) + Size(frames[n + 1]) /\ frames[n + 1] \in Frames
      BY <2>1, <2>2, NextBytes
    <2>6. Len(buffer) = arrived - Off(frames, n) /\ Off(frames, n) \in Nat
      BY <2>2, BufferIs
    <2>7. Len(buffer) < Size(frames[n + 1])
      <3>1. Len(given) < Len(frames)
        BY <2>1, <2>2
      <3>2. QED
        BY <2>2, <3>1, Waiting
    <2>8. Off(frames, n + 1) \in Nat /\ Off(frames, k) \in Nat /\ Size(frames[n + 1]) \in Nat
      BY <2>1, <2>2, <2>5, BytesTyped, FrameSize
    <2>9. QED
      BY <2>1, <2>3, <2>4, <2>5, <2>6, <2>7, <2>8
  <1>2. QED
    BY <1>1, StreamInvariant, PTL

\* A response that arrives to its end is given to its end, and nothing more.
WholeResponseGiven ==
  EndOfBody /\ arrived = Len(BytesOf(frames)) => given' = Sent

\* When the body ends after its last byte, the page has been given exactly what
\* the server sent: what parseSseStream makes of the rest of its buffer adds
\* nothing, and no frame is left in it.
THEOREM WholeResponseGivenHolds == Spec => [][WholeResponseGiven]_vars
  <1>1. ASSUME StreamInv, EndOfBody, arrived = Len(BytesOf(frames))
        PROVE  given' = Sent
    <2>1. open /\ Boundaries(buffer) = {} /\ given' = given \o SetToSeq(EventsOf(buffer))
      BY <1>1 DEF EndOfBody, Give
    <2>2. PICK n \in Nat : n = Len(given) /\ n <= Len(frames) /\ Len(frames) \in Nat
      BY <1>1, InvTypes
    <2>3. n = Len(frames)
      <3>1. SUFFICES ASSUME n < Len(frames) PROVE FALSE
        BY <2>2
      <3>2. n \in 0..(Len(frames) - 1) /\ frames \in Seq(Frames)
        BY <1>1, <2>2, <3>1, InvTypes
      <3>3. PICK f \in Frames : f = frames[n + 1]
        BY <3>2, NextBytes
      <3>4. Len(buffer) < Size(f)
        BY <1>1, <2>1, <2>2, <3>1, <3>3, Waiting
      <3>5. Len(buffer) = arrived - Off(frames, n) /\ Off(frames, n) \in Nat
        BY <1>1, <2>1, <2>2, BufferIs
      <3>6. Off(frames, n) + Size(f) <= arrived
        BY <1>1, <3>2, <3>3, FrameBytes
      <3>7. Size(f) \in Nat /\ arrived \in Nat
        BY <1>1, FrameSize DEF StreamInv
      <3>8. QED
        BY <3>4, <3>5, <3>6, <3>7
    <2>4. buffer = <<>>
      BY <1>1, <2>1, <2>2, <2>3, BufferEmpty
    <2>5. PICK S : given \in Seq(S) /\ Sent \in Seq(S) /\ Len(Sent) = Len(frames)
      BY <1>1, SentTyped
    <2>6. given' = given
      <3>1. given \o <<>> = given
        BY <2>5, ConcatEmptySeq
      <3>2. QED
        BY <2>1, <2>4, <3>1, EventsOfNothing, SetToSeqNone, Zenon
    <2>7. SubSeq(Sent, 1, Len(Sent)) = Sent
      BY <2>5
    <2>8. given = Sent
      BY <1>1, <2>2, <2>3, <2>5, <2>7, Zenon DEF StreamInv
    <2>9. QED
      BY <2>6, <2>8
  <1>2. StreamInv /\ [Next]_vars => [WholeResponseGiven]_vars
    BY <1>1 DEF WholeResponseGiven
  <1>3. QED
    BY <1>2, StreamInvariant, PTL DEF Spec

=============================================================================
