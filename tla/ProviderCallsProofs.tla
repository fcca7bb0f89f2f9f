-------------------------- MODULE ProviderCallsProofs --------------------------
(***************************************************************************)
(* Permits, retries and recordings of tool calls, for every finite set of  *)
(* calls, whatever they ask, and every number of providers, permits and    *)
(* tries. No property is inductive.                                        *)
(*                                                                         *)
(* PermitsConserved rests on the waiters of a provider being calls that    *)
(* wait for it, each once (Queued): the permit a release passes on is then *)
(* counted again exactly once. GivesUpOnlyAtLimit rests on the count of    *)
(* tries and of retries never drifting apart (Counted), and on no try      *)
(* lying outside the range. ReplayFaithful rests on every file telling of  *)
(* a call that is over (FilesGenuine) and on no two calls having begun at  *)
(* once (CallsInOrder).                                                    *)
(***************************************************************************)
EXTENDS ProviderCalls, FiniteSetTheorems, SequenceTheorems, TLAPS

CallRecords ==
  [stage : Stages, attempt : Nat, retries : Nat, began : Nat,
   ends : Seq(Outcomes), result : Results]

CallsType ==
  /\ tools \in [Calls -> Invocations]
  /\ calls \in [Calls -> CallRecords]
  /\ begun \in Nat

PermitsType ==
  /\ permits \in [Providers -> Nat]
  /\ waiting \in [Providers -> Seq(Calls)]

\* An idle call has asked nothing yet, and one that runs asks a provider.
Places ==
  \A c \in Calls : /\ calls[c].stage = "idle" => calls[c] = Idle
                   /\ Running(c) => At(c) \in Providers

Holders(p) == {c \in Calls : Holds(c) /\ At(c) = p}

Waits(d, p) == calls[d].stage = "waiting" /\ At(d) = p

Distinct(s) == \A i, j \in 1..Len(s) : s[i] = s[j] => i = j

Queued(p) == Distinct(waiting[p]) /\ \A i \in 1..Len(waiting[p]) : Waits(waiting[p][i], p)

Counts(p) == permits[p] + Cardinality(Holders(p)) = Concurrency

Watched(p) == permits[p] > 0 /\ waiting[p] # <<>> => Granted(p) # {}

PermitsInv ==
  /\ CallsType /\ PermitsType /\ Places
  /\ \A p \in Providers : Queued(p) /\ Counts(p) /\ Watched(p)

-----------------------------------------------------------------------------
(* Sequences of waiters, and the calls that hold a permit.                 *)

LEMMA AppendDistinct ==
  ASSUME NEW s \in Seq(Calls), Distinct(s), NEW c \in Calls, \A i \in 1..Len(s) : s[i] # c
  PROVE  /\ Append(s, c) \in Seq(Calls) /\ Distinct(Append(s, c))
         /\ Len(Append(s, c)) = Len(s) + 1
         /\ \A i \in 1..Len(s) + 1 : Append(s, c)[i] = IF i <= Len(s) THEN s[i] ELSE c
  <1>1. /\ Append(s, c) \in Seq(Calls) /\ Len(Append(s, c)) = Len(s) + 1 /\ Len(s) \in Nat
        /\ \A i \in 1..Len(s) + 1 : Append(s, c)[i] = IF i <= Len(s) THEN s[i] ELSE c
    OBVIOUS
  <1>2. ASSUME NEW i \in 1..Len(s) + 1, NEW j \in 1..Len(s) + 1, Append(s, c)[i] = Append(s, c)[j]
        PROVE  i = j
    <2>1. CASE i <= Len(s) /\ j <= Len(s)
      BY <1>1, <1>2, <2>1 DEF Distinct
    <2>2. CASE ~(i <= Len(s)) \/ ~(j <= Len(s))
      BY <1>1, <1>2, <2>2
    <2>3. QED
      BY <2>1, <2>2
  <1>3. QED
    BY <1>1, <1>2 DEF Distinct

LEMMA WithoutDistinct ==
  ASSUME NEW s \in Seq(Calls), Distinct(s), NEW k \in 1..Len(s)
  PROVE  /\ Without(s, k) \in Seq(Calls) /\ Distinct(Without(s, k))
         /\ Len(Without(s, k)) = Len(s) - 1
         /\ \A i \in 1..Len(s) - 1 : \E m \in 1..Len(s) : m # k /\ Without(s, k)[i] = s[m]
  <1>1. Len(s) \in Nat /\ Len(s) - 1 \in Nat
    OBVIOUS
  <1> DEFINE from(i) == IF i < k THEN i ELSE i + 1
  <1>2. \A i \in 1..Len(s) - 1 : from(i) \in 1..Len(s) /\ from(i) # k
    BY <1>1
  <1>3. \A i, j \in 1..Len(s) - 1 : from(i) = from(j) => i = j
    BY <1>1
  <1>4. Without(s, k) = [i \in 1..Len(s) - 1 |-> s[from(i)]]
    BY DEF Without
  <1> HIDE DEF from
  <1>5. Without(s, k) \in Seq(Calls) /\ Len(Without(s, k)) = Len(s) - 1
    BY <1>1, <1>2, <1>4
  <1>6. \A i \in 1..Len(s) - 1 : Without(s, k)[i] = s[from(i)]
    BY <1>4
  <1>7. ASSUME NEW i \in 1..Len(s) - 1, NEW j \in 1..Len(s) - 1, Without(s, k)[i] = Without(s, k)[j]
        PROVE  i = j
    <2>1. s[from(i)] = s[from(j)]
      BY <1>6, <1>7
    <2>2. from(i) = from(j)
      BY <1>2, <2>1 DEF Distinct
    <2>3. QED
      BY <1>3, <2>2
  <1>8. QED
    BY <1>2, <1>5, <1>6, <1>7 DEF Distinct

\* The first n waiters are n calls, none of whom holds a permit; those behind
\* them are others.
LEMMA FirstWaiters ==
  ASSUME CallsType, PermitsType, NEW p \in Providers, Queued(p), NEW n \in 0..Len(waiting[p])
  PROVE  /\ First(p, n) \subseteq Calls /\ IsFiniteSet(First(p, n))
         /\ Cardinality(First(p, n)) = n
         /\ \A d \in First(p, n) : Waits(d, p)
         /\ Behind(p, n) \in Seq(Calls) /\ Distinct(Behind(p, n))
         /\ Len(Behind(p, n)) = Len(waiting[p]) - n
         /\ \A i \in 1..Len(Behind(p, n)) :
              /\ Behind(p, n)[i] \in Calls /\ Waits(Behind(p, n)[i], p)
              /\ Behind(p, n)[i] \notin First(p, n)
  <1> DEFINE s == waiting[p]
             b == Behind(p, n)
  <1>1. /\ s \in Seq(Calls) /\ Len(s) \in Nat /\ n \in Nat /\ n <= Len(s)
        /\ \A i \in 1..Len(s) : s[i] \in Calls /\ Waits(s[i], p)
        /\ \A i, j \in 1..Len(s) : s[i] = s[j] => i = j
    BY DEF PermitsType, Queued, Distinct
  <1>2. First(p, n) = {s[i] : i \in 1..n} /\ 1..n \subseteq 1..Len(s)
    BY <1>1 DEF First
  <1>3. First(p, n) \subseteq Calls /\ \A d \in First(p, n) : Waits(d, p)
    BY <1>1, <1>2
  <1>4. Cardinality(First(p, n)) = n
    <2> DEFINE f == [i \in 1..n |-> s[i]]
    <2>1. f \in [1..n -> First(p, n)] /\ \A d \in First(p, n) : \E i \in 1..n : f[i] = d
      BY <1>2
    <2>2. \A i, j \in 1..n : f[i] = f[j] => i = j
      BY <1>1, <1>2
    <2>3. f \in Bijection(1..n, First(p, n))
      BY <2>1, <2>2 DEF Bijection, Injection, Surjection, IsInjective
    <2>4. ExistsBijection(1..n, First(p, n))
      BY <2>3 DEF ExistsBijection
    <2>5. QED
      BY <1>1, <2>4, FS_CountingElements
  <1>5. IsFiniteSet(First(p, n))
    BY <1>3, CallsAssumption, FS_Subset
  <1>6. /\ b \in Seq(Calls) /\ Len(b) = Len(s) - n
        /\ \A i \in 1..Len(s) - n : b[i] = s[n + i] /\ n + i \in 1..Len(s)
    <2>1. /\ n + 1 \in Int /\ Len(s) \in Int
          /\ \A i \in (n + 1)..Len(s) : s[i] \in Calls
      BY <1>1
    <2>2. /\ SubSeq(s, n + 1, Len(s)) \in Seq(Calls)
          /\ Len(SubSeq(s, n + 1, Len(s))) = IF n + 1 <= Len(s) THEN Len(s) - (n + 1) + 1 ELSE 0
          /\ \A i \in 1..Len(s) - (n + 1) + 1 : SubSeq(s, n + 1, Len(s))[i] = s[n + 1 + i - 1]
      BY <2>1, SubSeqProperties
    <2>3. /\ Len(s) - (n + 1) + 1 = Len(s) - n
          /\ (IF n + 1 <= Len(s) THEN Len(s) - (n + 1) + 1 ELSE 0) = Len(s) - n
          /\ \A i \in 1..Len(s) - n : n + 1 + i - 1 = n + i /\ n + i \in 1..Len(s)
      BY <1>1
    <2>4. b = SubSeq(s, n + 1, Len(s))
      BY DEF Behind
    <2>5. QED
      BY <2>2, <2>3, <2>4
  <1>7. \A i \in 1..Len(b) : b[i] \in Calls /\ Waits(b[i], p)
    BY <1>1, <1>6
  <1>8. ASSUME NEW i \in 1..Len(b) PROVE b[i] \notin First(p, n)
    <2> SUFFICES ASSUME NEW j \in 1..n, b[i] = s[j] PROVE FALSE
      BY <1>2
    <2>1. s[n + i] = s[j] /\ n + i \in 1..Len(s) /\ j \in 1..Len(s)
      BY <1>2, <1>6
    <2>2. n + i = j
      BY <1>1, <2>1
    <2>3. QED
      BY <1>1, <1>6, <2>2
  <1>9. Distinct(b)
    <2> SUFFICES ASSUME NEW i \in 1..Len(b), NEW j \in 1..Len(b), b[i] = b[j] PROVE i = j
      BY DEF Distinct
    <2>1. s[n + i] = s[n + j] /\ n + i \in 1..Len(s) /\ n + j \in 1..Len(s)
      BY <1>6
    <2>2. n + i = n + j
      BY <1>1, <2>1
    <2>3. QED
      BY <1>1, <1>6, <2>2
  <1>10. QED
    BY <1>3, <1>4, <1>5, <1>6, <1>7, <1>8, <1>9

LEMMA HoldersFinite ==
  \A p : IsFiniteSet(Holders(p)) /\ Cardinality(Holders(p)) \in Nat
  BY CallsAssumption, FS_Subset, FS_CardinalityType DEF Holders

LEMMA IdleType == Idle \in CallRecords
  <1>1. <<>> \in Seq(Outcomes)
    OBVIOUS
  <1>2. QED
    BY <1>1 DEF Idle, CallRecords, Stages, Results

-----------------------------------------------------------------------------
(* What a step is to one provider.                                         *)

\* A step that moves call c and wakes the first n waiters of p.
LEMMA Woken ==
  ASSUME CallsType, PermitsType, NEW p \in Providers, Queued(p), NEW n \in 0..Len(waiting[p]),
         NEW c \in Calls, calls[c].stage # "waiting", NEW r \in CallRecords,
         Becomes(c, r, First(p, n)), tools' = tools, begun' \in Nat
  PROVE  /\ CallsType' /\ calls'[c] = r /\ c \notin First(p, n)
         /\ \A d \in Calls \ {c} :
              /\ At(d)' = At(d)
              /\ d \in First(p, n) => calls'[d].stage = "granted"
              /\ d \notin First(p, n) => calls'[d] = calls[d]
  <1>1. \A d \in First(p, n) : d \in Calls /\ calls[d].stage = "waiting" /\ At(d) = p
    BY FirstWaiters DEF Waits
  <1>2. calls' = [d \in Calls |-> IF d = c THEN r
                                  ELSE IF d \in First(p, n) THEN [calls[d] EXCEPT !.stage = "granted"]
                                  ELSE calls[d]]
    BY DEF Becomes
  <1>3. \A d \in Calls : calls[d] \in CallRecords
    BY DEF CallsType
  <1>4. \A d \in Calls : /\ [calls[d] EXCEPT !.stage = "granted"] \in CallRecords
                         /\ [calls[d] EXCEPT !.stage = "granted"].stage = "granted"
                         /\ [calls[d] EXCEPT !.stage = "granted"].ends = calls[d].ends
    BY <1>3 DEF CallRecords, Stages
  <1>5. CallsType'
    BY <1>2, <1>3, <1>4 DEF CallsType
  <1>6. calls'[c] = r /\ c \notin First(p, n)
    BY <1>1, <1>2
  <1>7. ASSUME NEW d \in Calls \ {c}
        PROVE  /\ At(d)' = At(d)
               /\ d \in First(p, n) => calls'[d].stage = "granted"
               /\ d \notin First(p, n) => calls'[d] = calls[d]
    <2>1. /\ calls'[d].ends = calls[d].ends
          /\ d \in First(p, n) => calls'[d].stage = "granted"
          /\ d \notin First(p, n) => calls'[d] = calls[d]
      BY <1>2, <1>4
    <2>2. QED
      BY <2>1 DEF At
  <1>8. QED
    BY <1>5, <1>6, <1>7

\* Nothing happens to the waiters, the holders and the permits of u.
LEMMA Untouched ==
  ASSUME PermitsType, NEW u \in Providers, Queued(u), Counts(u), Watched(u),
         permits'[u] = permits[u], waiting'[u] = waiting[u],
         \A d \in Calls : (Holds(d) /\ At(d) = u <=> Holds(d)' /\ At(d)' = u)
                          /\ (Waits(d, u) => Waits(d, u)')
                          /\ (d \in Granted(u) => d \in Granted(u)')
  PROVE  Queued(u)' /\ Counts(u)' /\ Watched(u)'
  <1>1. Holders(u)' = Holders(u)
    BY DEF Holders
  <1>2. Granted(u) # {} => Granted(u)' # {}
    BY DEF Granted
  <1>3. \A i \in 1..Len(waiting[u]) : waiting[u][i] \in Calls
    BY DEF PermitsType
  <1>4. QED
    BY <1>1, <1>2, <1>3 DEF Queued, Counts, Watched

\* The first n waiters of p get permits that are free; kept are the other calls
\* that hold one afterwards.
LEMMA PassedOn ==
  ASSUME CallsType, PermitsType, NEW p \in Providers, Queued(p), NEW n \in 0..Len(waiting[p]),
         NEW kept \in SUBSET Calls, kept \cap First(p, n) = {}, Holders(p)' = kept \cup First(p, n),
         NEW free \in Nat, free + Cardinality(kept) = Concurrency, n <= free,
         permits'[p] = free - n
  PROVE  Counts(p)' /\ permits'[p] \in Nat
  <1>1. IsFiniteSet(kept) /\ IsFiniteSet(First(p, n)) /\ Cardinality(First(p, n)) = n
    BY FirstWaiters, CallsAssumption, FS_Subset
  <1>2. Cardinality(kept) \in Nat /\ n \in Nat
    BY <1>1, FS_CardinalityType
  <1>3. Cardinality(Holders(p)') = Cardinality(kept) + n
    <2>1. Cardinality(kept \cup First(p, n))
            = Cardinality(kept) + Cardinality(First(p, n)) - Cardinality(kept \cap First(p, n))
      BY <1>1, FS_Union
    <2>2. Cardinality(kept \cap First(p, n)) = 0
      BY FS_EmptySet
    <2>3. QED
      BY <1>1, <1>2, <2>1, <2>2
  <1>4. QED
    BY <1>2, <1>3 DEF Counts

\* Those behind the first n waiters of p still wait for it.
LEMMA StillQueued ==
  ASSUME CallsType, PermitsType, NEW p \in Providers, Queued(p), NEW n \in 0..Len(waiting[p]),
         NEW c \in Calls, calls[c].stage # "waiting", waiting'[p] = Behind(p, n),
         \A d \in Calls \ {c} : At(d)' = At(d) /\ (d \notin First(p, n) => calls'[d] = calls[d])
  PROVE  Queued(p)' /\ waiting'[p] \in Seq(Calls)
  <1>1. /\ Behind(p, n) \in Seq(Calls) /\ Distinct(Behind(p, n))
        /\ \A i \in 1..Len(Behind(p, n)) :
             /\ Behind(p, n)[i] \in Calls /\ Waits(Behind(p, n)[i], p)
             /\ Behind(p, n)[i] \notin First(p, n)
    BY FirstWaiters
  <1>2. \A d \in Calls : Waits(d, p) /\ d \notin First(p, n) => Waits(d, p)'
    BY DEF Waits
  <1>3. QED
    BY <1>1, <1>2 DEF Queued

\* Call c, which runs but does not wait, lets a permit of its provider go or
\* leaves the queue of the woken; the first n waiters go on.
LEMMA Passing ==
  ASSUME PermitsInv, NEW c \in Calls, calls[c].stage \in {"granted", "leaving", "calling", "sleeping"},
         NEW r \in CallRecords, NEW p, p = At(c), NEW free \in Nat, NEW n \in 0..Len(waiting[p]),
         Passes(c, r, p, free, n), UNCHANGED <<tools, begun>>,
         r.stage = "done" \/ (r.stage = "calling" /\ r.ends = calls[c].ends),
         free = permits[p] + (IF Holds(c) THEN 1 ELSE 0) - (IF r.stage = "calling" THEN 1 ELSE 0),
         n <= free, n = free \/ n = Len(waiting[p]) \/ n # 0
  PROVE  PermitsInv'
  <1>1. /\ CallsType /\ PermitsType /\ Places /\ p \in Providers
        /\ \A q \in Providers : Queued(q) /\ Counts(q) /\ Watched(q)
    BY DEF PermitsInv, Places, Running
  <1>2. /\ Becomes(c, r, First(p, n)) /\ permits' = [permits EXCEPT ![p] = free - n]
        /\ waiting' = [waiting EXCEPT ![p] = Behind(p, n)]
    BY DEF Passes
  <1>3. /\ CallsType' /\ calls'[c] = r /\ c \notin First(p, n)
        /\ \A d \in Calls \ {c} :
             /\ At(d)' = At(d)
             /\ d \in First(p, n) => calls'[d].stage = "granted"
             /\ d \notin First(p, n) => calls'[d] = calls[d]
    BY <1>1, <1>2, Woken DEF CallsType
  <1>4. \A d \in First(p, n) : d \in Calls /\ Waits(d, p)
    BY <1>1, FirstWaiters
  <1>5. r.stage = "calling" => At(c)' = p
    BY <1>3 DEF At
  <1>6. Places'
    <2>1. \A d \in Calls \ {c} : (calls'[d].stage = "idle" => calls[d].stage = "idle" /\ calls'[d] = calls[d])
                                 /\ (Running(d)' => Running(d))
      BY <1>3, <1>4 DEF Running, Waits
    <2>2. calls'[c].stage # "idle" /\ (Running(c)' => At(c)' \in Providers)
      BY <1>1, <1>3, <1>5 DEF Running
    <2>3. QED
      BY <1>1, <1>3, <2>1, <2>2 DEF Places
  <1>7. Queued(p)' /\ waiting'[p] \in Seq(Calls)
    BY <1>1, <1>2, <1>3, StillQueued DEF PermitsType
  <1> DEFINE kept == IF r.stage = "calling" THEN Holders(p) \cup {c} ELSE Holders(p) \ {c}
  <1>8. Counts(p)' /\ permits'[p] \in Nat
    <2>1. Holders(p)' = kept \cup First(p, n) /\ kept \in SUBSET Calls /\ kept \cap First(p, n) = {}
      <3>1. \A d \in Calls \ {c} : Holds(d)' /\ At(d)' = p
                                   <=> (Holds(d) /\ At(d) = p) \/ d \in First(p, n)
        BY <1>3, <1>4 DEF Holds, Waits
      <3>2. Holds(c)' /\ At(c)' = p <=> r.stage = "calling"
        BY <1>3, <1>5 DEF Holds
      <3>3. \A d \in First(p, n) : ~Holds(d)
        BY <1>4 DEF Waits, Holds
      <3>4. QED
        BY <1>3, <1>4, <3>1, <3>2, <3>3 DEF Holders
    <2>2. free + Cardinality(kept) = Concurrency
      <3>1. c \in Holders(p) <=> Holds(c)
        BY DEF Holders
      <3>2. /\ IsFiniteSet(Holders(p)) /\ Cardinality(Holders(p)) \in Nat /\ permits[p] \in Nat
            /\ permits[p] + Cardinality(Holders(p)) = Concurrency
        BY <1>1, HoldersFinite DEF Counts, PermitsType
      <3>3. /\ Cardinality(Holders(p) \cup {c}) = IF Holds(c) THEN Cardinality(Holders(p))
                                                  ELSE Cardinality(Holders(p)) + 1
            /\ Cardinality(Holders(p) \ {c}) = IF Holds(c) THEN Cardinality(Holders(p)) - 1
                                               ELSE Cardinality(Holders(p))
        BY <3>1, <3>2, FS_AddElement, FS_RemoveElement
      <3>4. QED
        BY <3>2, <3>3, LimitsAssumption
    <2>3. permits'[p] = free - n
      BY <1>1, <1>2 DEF PermitsType
    <2> HIDE DEF kept
    <2>4. QED
      BY <1>1, <2>1, <2>2, <2>3, PassedOn
  <1>9. Watched(p)'
    <2>1. permits'[p] = free - n /\ waiting'[p] = Behind(p, n)
      BY <1>1, <1>2 DEF PermitsType
    <2>2. CASE n = free
      BY <2>1, <2>2 DEF Watched
    <2>3. CASE n = Len(waiting[p])
      <3>1. Behind(p, n) \in Seq(Calls) /\ Len(Behind(p, n)) = Len(waiting[p]) - n /\ Len(waiting[p]) \in Nat
        BY <1>1, FirstWaiters DEF PermitsType
      <3>2. Behind(p, n) = <<>>
        BY <2>3, <3>1
      <3>3. QED
        BY <2>1, <3>2 DEF Watched
    <2>4. CASE n # 0
      <3>1. waiting[p][1] \in First(p, n)
        BY <2>4 DEF First
      <3>2. waiting[p][1] \in Granted(p)'
        BY <1>3, <1>4, <3>1 DEF Granted, Waits
      <3>3. QED
        BY <3>2 DEF Watched
    <2>5. QED
      BY <2>2, <2>3, <2>4
  <1>10. ASSUME NEW u \in Providers, u # p PROVE Queued(u)' /\ Counts(u)' /\ Watched(u)'
    <2>1. permits'[u] = permits[u] /\ waiting'[u] = waiting[u]
      BY <1>1, <1>2, <1>10 DEF PermitsType
    <2>2. ~(Holds(c)' /\ At(c)' = u) /\ ~(Holds(c) /\ At(c) = u) /\ ~Waits(c, u) /\ c \notin Granted(u)
      BY <1>3, <1>5, <1>10 DEF Holds, Waits, Granted
    <2>3. ASSUME NEW d \in Calls
          PROVE  /\ (Holds(d) /\ At(d) = u <=> Holds(d)' /\ At(d)' = u)
                 /\ (Waits(d, u) => Waits(d, u)')
                 /\ (d \in Granted(u) => d \in Granted(u)')
      <3>1. CASE d = c
        BY <2>2, <3>1
      <3>2. CASE d # c /\ d \in First(p, n)
        BY <1>3, <1>4, <1>10, <3>2 DEF Waits, Granted
      <3>3. CASE d # c /\ d \notin First(p, n)
        BY <1>3, <3>3 DEF Holds, Waits, Granted
      <3>4. QED
        BY <3>1, <3>2, <3>3
    <2>4. QED
      BY <1>1, <2>1, <2>3, Untouched
  <1>11. PermitsType'
    BY <1>1, <1>2, <1>7, <1>8 DEF PermitsType
  <1>12. QED
    BY <1>3, <1>6, <1>7, <1>8, <1>9, <1>10, <1>11 DEF PermitsInv

\* Call c takes a free permit of q.
LEMMA Takes ==
  ASSUME PermitsType, NEW q \in Providers, Counts(q), NEW c \in Calls,
         waiting[q] = <<>>, waiting'[q] = <<>>, permits[q] # 0, permits'[q] = permits[q] - 1,
         ~(Holds(c) /\ At(c) = q), Holds(c)' /\ At(c)' = q,
         \A d \in Calls \ {c} : Holds(d) /\ At(d) = q <=> Holds(d)' /\ At(d)' = q
  PROVE  Queued(q)' /\ Counts(q)' /\ Watched(q)' /\ permits'[q] \in Nat /\ waiting'[q] \in Seq(Calls)
  <1>1. Holders(q)' = Holders(q) \cup {c} /\ c \notin Holders(q)
    BY DEF Holders
  <1>2. Cardinality(Holders(q)') = Cardinality(Holders(q)) + 1
    BY <1>1, HoldersFinite, FS_AddElement
  <1>3. permits[q] \in Nat /\ Cardinality(Holders(q)) \in Nat
    BY HoldersFinite DEF PermitsType
  <1>4. Counts(q)' /\ permits'[q] \in Nat
    BY <1>2, <1>3 DEF Counts
  <1>5. <<>> \in Seq(Calls) /\ Len(<<>>) = 0 /\ \A i \in 1..0 : FALSE
    OBVIOUS
  <1>6. Queued(q)'
    BY <1>5, Zenon DEF Queued, Distinct
  <1>7. QED
    BY <1>4, <1>5, <1>6 DEF Watched

\* Call c queues behind the waiters of q.
LEMMA Joins ==
  ASSUME PermitsType, NEW q \in Providers, Queued(q), Counts(q), NEW c \in Calls,
         waiting'[q] = Append(waiting[q], c), permits'[q] = permits[q],
         permits[q] = 0 \/ Granted(q) # {},
         calls[c].stage # "waiting", Waits(c, q)',
         ~(Holds(c) /\ At(c) = q), ~Holds(c)',
         \A d \in Calls \ {c} : (Holds(d) /\ At(d) = q <=> Holds(d)' /\ At(d)' = q)
                                /\ (Waits(d, q) => Waits(d, q)')
                                /\ (d \in Granted(q) => d \in Granted(q)')
  PROVE  Queued(q)' /\ Counts(q)' /\ Watched(q)' /\ waiting'[q] \in Seq(Calls)
  <1>1. Holders(q)' = Holders(q)
    BY DEF Holders
  <1>2. Granted(q) # {} => Granted(q)' # {}
    BY DEF Granted, Holds
  <1>3. /\ waiting[q] \in Seq(Calls) /\ Len(waiting[q]) \in Nat /\ Distinct(waiting[q])
        /\ \A i \in 1..Len(waiting[q]) : waiting[q][i] \in Calls /\ Waits(waiting[q][i], q)
    BY DEF PermitsType, Queued
  <1>4. \A i \in 1..Len(waiting[q]) : waiting[q][i] # c
    BY <1>3 DEF Waits
  <1>5. /\ Append(waiting[q], c) \in Seq(Calls) /\ Distinct(Append(waiting[q], c))
        /\ Len(Append(waiting[q], c)) = Len(waiting[q]) + 1
        /\ \A i \in 1..Len(waiting[q]) + 1 :
             Append(waiting[q], c)[i] = IF i <= Len(waiting[q]) THEN waiting[q][i] ELSE c
    BY <1>3, <1>4, AppendDistinct
  <1>6. ASSUME NEW i \in 1..Len(waiting'[q]), NEW d, d = waiting'[q][i] PROVE Waits(d, q)'
    <2>1. i \in 1..Len(waiting[q]) + 1 /\ d = (IF i <= Len(waiting[q]) THEN waiting[q][i] ELSE c)
      BY <1>5, <1>6
    <2>2. CASE i <= Len(waiting[q])
      <3>1. i \in 1..Len(waiting[q]) /\ d = waiting[q][i]
        BY <1>3, <2>1, <2>2
      <3>2. PICK k \in 1..Len(waiting[q]) : k = i
        BY <3>1
      <3>3. d = waiting[q][k] /\ waiting[q][k] \in Calls \ {c} /\ Waits(waiting[q][k], q)
        BY <1>3, <1>4, <3>1, <3>2
      <3>4. d \in Calls \ {c} /\ Waits(d, q)
        BY <3>3
      <3>5. QED
        BY <3>4
    <2>3. CASE ~(i <= Len(waiting[q]))
      BY <2>1, <2>3
    <2>4. QED
      BY <2>2, <2>3
  <1>7. Queued(q)'
    <2>1. Distinct(waiting'[q])
      BY <1>5
    <2>2. \A i \in 1..Len(waiting'[q]) : \A d : d = waiting'[q][i] => Waits(d, q)'
      BY <1>6
    <2>3. QED
      BY <2>1, <2>2, Zenon DEF Queued
  <1>8. QED
    BY <1>1, <1>2, <1>5, <1>7 DEF Counts, Watched, PermitsType

\* A call moves without letting its permit go, taking one or entering the queue.
LEMMA MovesAlone ==
  ASSUME PermitsInv, NEW c \in Calls, NEW r \in CallRecords,
         calls' = [calls EXCEPT ![c] = r], UNCHANGED <<tools, permits, waiting>>, begun' \in Nat,
         calls[c].stage \notin {"waiting", "granted"}, r.stage # "idle",
         r.stage # "done" => Running(c) /\ r.ends = calls[c].ends,
         Holds(c) <=> r.stage \in {"granted", "calling", "sleeping"}
  PROVE  PermitsInv'
  <1>1. /\ CallsType /\ PermitsType /\ Places
        /\ \A q \in Providers : Queued(q) /\ Counts(q) /\ Watched(q)
    BY DEF PermitsInv
  <1>2. calls'[c] = r /\ \A d \in Calls \ {c} : calls'[d] = calls[d] /\ At(d)' = At(d)
    BY <1>1 DEF CallsType, At
  <1>3. Holds(c) => At(c)' = At(c)
    BY <1>1, <1>2 DEF At, Holds
  <1>4. CallsType' /\ PermitsType'
    BY <1>1 DEF CallsType, PermitsType
  <1>5. Places'
    <2>1. \A d \in Calls \ {c} : Running(d)' <=> Running(d)
      BY <1>2 DEF Running
    <2>2. calls'[c].stage # "idle" /\ (Running(c)' => At(c)' \in Providers)
      BY <1>1, <1>2 DEF Running, Places, At
    <2>3. QED
      BY <1>1, <1>2, <2>1, <2>2 DEF Places
  <1>6. ASSUME NEW u \in Providers PROVE Queued(u)' /\ Counts(u)' /\ Watched(u)'
    <2>1. \A d \in Calls : /\ (Holds(d) /\ At(d) = u <=> Holds(d)' /\ At(d)' = u)
                           /\ (Waits(d, u) => Waits(d, u)')
                           /\ (d \in Granted(u) => d \in Granted(u)')
      BY <1>2, <1>3 DEF Holds, Waits, Granted
    <2>2. QED
      BY <1>1, <2>1, Untouched
  <1>7. QED
    BY <1>4, <1>5, <1>6 DEF PermitsInv

LEMMA InvokePermits ==
  ASSUME PermitsInv, NEW c \in Calls, Invoke(c)
  PROVE  PermitsInv'
  <1>0. PICK p : p = At(c)
    OBVIOUS
  <1>1. /\ CallsType /\ PermitsType /\ Places
        /\ \A q \in Providers : Queued(q) /\ Counts(q) /\ Watched(q)
    BY DEF PermitsInv
  <1>2. /\ calls[c].stage = "idle" /\ begun' = begun + 1 /\ tools' = tools
        /\ tools[c].providers # <<>>
    BY DEF Invoke
  <1>3. calls[c] = Idle /\ calls[c].ends = <<>>
    BY <1>1, <1>2 DEF Places, Idle
  <1>4. p \in Providers
    <2>1. tools[c].providers \in Seq(Providers) /\ Len(calls[c].ends) = 0
      BY <1>1, <1>3 DEF CallsType, Invocations
    <2>2. 1 \in 1..Len(tools[c].providers)
      BY <1>2, <2>1
    <2>3. QED
      BY <1>0, <2>1, <2>2 DEF At
  <1>5. PICK s \in {"waiting", "calling"} :
          /\ calls' = [calls EXCEPT ![c] = Started(c, s)]
          /\ s = "calling" => ~Locked(p, permits[p])
                              /\ permits' = [permits EXCEPT ![p] = @ - 1] /\ waiting' = waiting
          /\ s = "waiting" => Locked(p, permits[p])
                              /\ waiting' = [waiting EXCEPT ![p] = Append(@, c)] /\ permits' = permits
    BY <1>0 DEF Invoke
  <1> DEFINE r == Started(c, s)
  <1>6. r \in CallRecords /\ r.stage = s /\ r.ends = <<>>
    <2>1. s \in Stages /\ begun + 1 \in Nat /\ (IF s = "calling" THEN 1 ELSE 0) \in Nat
      BY <1>1 DEF Stages, CallsType
    <2>2. <<>> \in Seq(Outcomes)
      OBVIOUS
    <2>3. QED
      BY <2>1, <2>2, IdleType DEF Started, CallRecords, Idle
  <1>7. calls' = [calls EXCEPT ![c] = r]
    BY <1>5
  <1> HIDE DEF r
  <1>8. calls'[c] = r /\ \A d \in Calls \ {c} : calls'[d] = calls[d] /\ At(d)' = At(d)
    BY <1>1, <1>2, <1>7 DEF CallsType, At
  <1>9. At(c)' = p
    BY <1>0, <1>2, <1>3, <1>6, <1>8 DEF At
  <1>10. CallsType'
    BY <1>1, <1>2, <1>6, <1>7 DEF CallsType
  <1>11. Places'
    <2>1. \A d \in Calls \ {c} : Running(d)' <=> Running(d)
      BY <1>8 DEF Running
    <2>2. calls'[c].stage # "idle" /\ At(c)' \in Providers
      BY <1>4, <1>6, <1>8, <1>9
    <2>3. QED
      BY <1>1, <1>8, <2>1, <2>2 DEF Places
  <1>12. \A u : \A d \in Calls \ {c} : /\ (Holds(d) /\ At(d) = u <=> Holds(d)' /\ At(d)' = u)
                                       /\ (Waits(d, u) => Waits(d, u)')
                                       /\ (d \in Granted(u) => d \in Granted(u)')
    BY <1>8 DEF Holds, Waits, Granted
  <1>13. ~Holds(c) /\ calls[c].stage # "waiting" /\ \A u : c \notin Granted(u) /\ ~Waits(c, u)
    BY <1>2 DEF Holds, Granted, Waits
  <1>14. /\ Queued(p)' /\ Counts(p)' /\ Watched(p)'
         /\ permits'[p] \in Nat /\ waiting'[p] \in Seq(Calls)
    <2>1. CASE s = "calling"
      <3>1. waiting[p] = <<>> /\ permits[p] # 0
        BY <1>5, <2>1 DEF Locked
      <3>2. permits'[p] = permits[p] - 1 /\ waiting'[p] = <<>>
        BY <1>1, <1>4, <1>5, <2>1, <3>1 DEF PermitsType
      <3>3. Holds(c)'
        BY <1>6, <1>8, <2>1 DEF Holds
      <3>4. QED
        BY <1>1, <1>4, <1>9, <1>12, <1>13, <3>1, <3>2, <3>3, Takes
    <2>2. CASE s = "waiting"
      <3>1. waiting'[p] = Append(waiting[p], c) /\ permits'[p] = permits[p] /\ permits[p] \in Nat
        BY <1>1, <1>4, <1>5, <2>2 DEF PermitsType
      <3>2. permits[p] = 0 \/ Granted(p) # {}
        BY <1>1, <1>4, <1>5, <2>2, <3>1 DEF Locked, Watched
      <3>3. Waits(c, p)' /\ ~Holds(c)'
        BY <1>6, <1>8, <1>9, <2>2 DEF Waits, Holds
      <3>4. QED
        BY <1>1, <1>4, <1>12, <1>13, <3>1, <3>2, <3>3, Joins
    <2>3. QED
      BY <2>1, <2>2
  <1>15. ASSUME NEW u \in Providers, u # p PROVE Queued(u)' /\ Counts(u)' /\ Watched(u)'
    <2>1. permits'[u] = permits[u] /\ waiting'[u] = waiting[u]
      BY <1>1, <1>4, <1>5, <1>15 DEF PermitsType
    <2>2. ~(Holds(c)' /\ At(c)' = u)
      BY <1>9, <1>15
    <2>3. QED
      BY <1>1, <1>12, <1>13, <2>1, <2>2, Untouched
  <1>16. PermitsType'
    BY <1>1, <1>4, <1>5, <1>14 DEF PermitsType
  <1>17. QED
    BY <1>10, <1>11, <1>14, <1>15, <1>16 DEF PermitsInv

LEMMA CancelWaitingPermits ==
  ASSUME PermitsInv, NEW c \in Calls, CancelWaiting(c)
  PROVE  PermitsInv'
  <1>0. PICK p : p = At(c)
    OBVIOUS
  <1>1. /\ CallsType /\ PermitsType /\ Places
        /\ \A q \in Providers : Queued(q) /\ Counts(q) /\ Watched(q)
    BY DEF PermitsInv
  <1>2. calls[c].stage = "waiting" /\ p \in Providers /\ UNCHANGED <<tools, permits, begun>>
    BY <1>0, <1>1 DEF CancelWaiting, Places, Running
  <1>3. PICK k \in 1..Len(waiting[p]) :
          waiting[p][k] = c /\ waiting' = [waiting EXCEPT ![p] = Without(@, k)]
    <2>1. DOMAIN waiting[p] = 1..Len(waiting[p])
      BY <1>1, <1>2 DEF PermitsType
    <2>2. QED
      BY <1>0, <2>1 DEF CancelWaiting
  <1>4. /\ calls[c] \in CallRecords /\ calls' = [calls EXCEPT ![c].stage = "leaving"]
        /\ [calls[c] EXCEPT !.stage = "leaving"] \in CallRecords
    BY <1>1 DEF CancelWaiting, CallsType, CallRecords, Stages
  <1>5. /\ calls'[c].stage = "leaving" /\ calls'[c].ends = calls[c].ends
        /\ \A d \in Calls \ {c} : calls'[d] = calls[d]
        /\ \A d \in Calls : At(d)' = At(d)
    BY <1>1, <1>2, <1>4 DEF CallsType, CallRecords, At
  <1>6. CallsType'
    BY <1>1, <1>2, <1>4 DEF CallsType
  <1>7. Places'
    <2>1. \A d \in Calls : (Running(d)' => Running(d)) /\ (calls'[d].stage = "idle" => calls'[d] = calls[d])
      BY <1>2, <1>5 DEF Running
    <2>2. QED
      BY <1>1, <1>2, <1>5, <2>1 DEF Places
  <1>8. /\ Without(waiting[p], k) \in Seq(Calls) /\ Distinct(Without(waiting[p], k))
        /\ Len(Without(waiting[p], k)) = Len(waiting[p]) - 1
        /\ \A i \in 1..Len(waiting[p]) - 1 :
             \E m \in 1..Len(waiting[p]) : m # k /\ Without(waiting[p], k)[i] = waiting[p][m]
    BY <1>1, <1>2, WithoutDistinct DEF PermitsType, Queued
  <1>9. waiting'[p] = Without(waiting[p], k) /\ \A u \in Providers \ {p} : waiting'[u] = waiting[u]
    BY <1>1, <1>2, <1>3 DEF PermitsType
  <1>10. PermitsType'
    BY <1>1, <1>2, <1>3, <1>8 DEF PermitsType
  <1>11. \A u : /\ \A d \in Calls : Holds(d) /\ At(d) = u <=> Holds(d)' /\ At(d)' = u
                /\ \A d \in Calls : d \in Granted(u) <=> d \in Granted(u)'
                /\ \A d \in Calls \ {c} : Waits(d, u) => Waits(d, u)'
    BY <1>2, <1>5 DEF Holds, Granted, Waits
  <1>12. Queued(p)' /\ Counts(p)' /\ Watched(p)'
    <2>1. \A m \in 1..Len(waiting[p]) : m # k => waiting[p][m] \in Calls \ {c} /\ Waits(waiting[p][m], p)
      BY <1>1, <1>2, <1>3 DEF PermitsType, Queued, Distinct
    <2>2. ASSUME NEW i \in 1..Len(waiting'[p]), NEW d, d = waiting'[p][i] PROVE Waits(d, p)'
      <3>1. PICK m \in 1..Len(waiting[p]) : m # k /\ d = waiting[p][m]
        BY <1>8, <1>9, <2>2
      <3>2. d \in Calls \ {c} /\ Waits(d, p)
        BY <2>1, <3>1
      <3>3. QED
        BY <1>11, <3>2
    <2>3. Queued(p)'
      <3>1. Distinct(waiting'[p])
        BY <1>8, <1>9
      <3>2. \A i \in 1..Len(waiting'[p]) : \A d : d = waiting'[p][i] => Waits(d, p)'
        BY <2>2
      <3>3. QED
        BY <3>1, <3>2, Zenon DEF Queued
    <2>4. Holders(p)' = Holders(p)
      BY <1>11 DEF Holders
    <2>5. Counts(p)'
      BY <1>1, <1>2, <2>4 DEF Counts
    <2>6. waiting[p] # <<>>
      <3>1. waiting[p] \in Seq(Calls) /\ k \in 1..Len(waiting[p])
        BY <1>1, <1>2 DEF PermitsType
      <3>2. QED
        BY <3>1
    <2>7. Granted(p) # {} => Granted(p)' # {}
      <3>1. \A d \in Granted(p) : d \in Calls /\ d \in Granted(p)'
        BY <1>11 DEF Granted
      <3>2. QED
        BY <3>1
    <2>8. QED
      BY <1>1, <1>2, <2>3, <2>5, <2>6, <2>7 DEF Watched
  <1>13. ASSUME NEW u \in Providers, u # p PROVE Queued(u)' /\ Counts(u)' /\ Watched(u)'
    <2>1. permits'[u] = permits[u] /\ waiting'[u] = waiting[u]
      BY <1>2, <1>9, <1>13
    <2>2. ~Waits(c, u)
      BY <1>0, <1>13 DEF Waits
    <2>3. QED
      BY <1>1, <1>11, <2>1, <2>2, Untouched
  <1>14. QED
    BY <1>6, <1>7, <1>10, <1>12, <1>13 DEF PermitsInv

\* The next request of a tool: a permit of p is let go, one of q, perhaps the
\* same provider, taken or waited for.
LEMMA AsksNextPermits ==
  ASSUME PermitsInv, NEW c \in Calls, calls[c].stage \in {"calling", "sleeping"},
         NEW ends \in Seq(Outcomes), Len(ends) < Len(tools[c].providers), AsksNext(c, ends)
  PROVE  PermitsInv'
  <1>0. PICK p, q : p = At(c) /\ q = tools[c].providers[Len(ends) + 1]
    OBVIOUS
  <1>1. /\ CallsType /\ PermitsType /\ Places
        /\ \A u \in Providers : Queued(u) /\ Counts(u) /\ Watched(u)
    BY DEF PermitsInv
  <1>2. /\ p \in Providers /\ q \in Providers /\ Holds(c)
        /\ UNCHANGED <<tools, begun>>
    <2>1. tools[c].providers \in Seq(Providers) /\ Len(ends) \in Nat
      BY <1>1 DEF CallsType, Invocations
    <2>2. Len(ends) + 1 \in 1..Len(tools[c].providers)
      BY <2>1
    <2>3. QED
      BY <1>0, <1>1, <2>1, <2>2 DEF Places, Running, Holds, AsksNext
  <1>3. PICK n \in 0..Len(waiting[p]) : n = ReleaseWakes(p)
    BY <1>1, <1>2 DEF ReleaseWakes, PermitsType
  <1>4. (n = 0 <=> waiting[p] = <<>>) /\ n <= 1 /\ n \in Nat
    BY <1>1, <1>2, <1>3 DEF ReleaseWakes, PermitsType
  <1>5. PICK free : free = IF q = p THEN permits[q] + 1 ELSE permits[q]
    OBVIOUS
  <1>5a. PICK passed, behind : /\ passed = [permits EXCEPT ![p] = @ + 1 - n]
                               /\ behind = [waiting EXCEPT ![p] = Behind(p, n)]
    OBVIOUS
  <1> DEFINE Asks(s, r) ==
               /\ r = [calls[c] EXCEPT !.ends = ends, !.retries = 0, !.stage = s,
                                       !.attempt = IF s = "calling" THEN 1 ELSE 0]
               /\ Becomes(c, r, First(p, n))
               /\ s = "calling" => /\ ~Locked(q, free) /\ waiting' = behind
                                   /\ permits' = [passed EXCEPT ![q] = @ - 1]
               /\ s = "waiting" => /\ Locked(q, free) /\ permits' = passed
                                   /\ waiting' = [behind EXCEPT ![q] = Append(@, c)]
  <1>5b. PICK s \in {"calling", "waiting"} : \E r : Asks(s, r)
    BY <1>0, <1>3, <1>5, <1>5a DEF AsksNext
  <1>6. PICK r : Asks(s, r)
    BY <1>5b
  <1>6a. /\ passed \in [Providers -> Int] /\ passed[p] = permits[p] + 1 - n
         /\ behind \in [Providers -> Seq(Calls)] /\ behind[p] = Behind(p, n)
         /\ \A u \in Providers \ {p} : passed[u] = permits[u] /\ behind[u] = waiting[u]
    <2>1. Behind(p, n) \in Seq(Calls) /\ permits[p] + 1 - n \in Int
      BY <1>1, <1>2, <1>4, FirstWaiters DEF PermitsType
    <2>2. QED
      BY <1>1, <1>2, <1>5a, <2>1 DEF PermitsType
  <1>7. r \in CallRecords /\ r.stage = s /\ r.ends = ends
    BY <1>1, <1>6 DEF CallsType, CallRecords, Stages
  <1>8. /\ CallsType' /\ calls'[c] = r /\ c \notin First(p, n)
        /\ \A d \in Calls \ {c} :
             /\ At(d)' = At(d)
             /\ d \in First(p, n) => calls'[d].stage = "granted"
             /\ d \notin First(p, n) => calls'[d] = calls[d]
    BY <1>1, <1>2, <1>6, <1>7, Woken DEF CallsType
  <1>9. At(c)' = q /\ (Holds(c)' <=> s = "calling")
    BY <1>0, <1>2, <1>7, <1>8 DEF At, Holds
  <1>10. \A d \in First(p, n) : d \in Calls /\ Waits(d, p)
    BY <1>1, <1>2, FirstWaiters
  <1>11. Places'
    <2>1. \A d \in Calls \ {c} : (calls'[d].stage = "idle" => calls[d].stage = "idle" /\ calls'[d] = calls[d])
                                 /\ (Running(d)' => Running(d))
      BY <1>8, <1>10 DEF Running, Waits
    <2>2. calls'[c].stage # "idle" /\ At(c)' \in Providers
      BY <1>2, <1>7, <1>8, <1>9
    <2>3. QED
      BY <1>1, <1>8, <2>1, <2>2 DEF Places
  <1>12. \A u \in Providers \ {p} : \A d \in Calls \ {c} :
           /\ Holds(d) /\ At(d) = u <=> Holds(d)' /\ At(d)' = u
           /\ Waits(d, u) => Waits(d, u)'
           /\ d \in Granted(u) => d \in Granted(u)'
    BY <1>8, <1>10 DEF Holds, Waits, Granted
  <1>13. \A u \in Providers \ {p} : ~(Holds(c) /\ At(c) = u) /\ c \notin Granted(u) /\ ~Waits(c, u)
    BY <1>0 DEF Granted, Waits
  <1>14. ASSUME NEW u \in Providers, u # p, u # q PROVE Queued(u)' /\ Counts(u)' /\ Watched(u)'
    <2>1. permits'[u] = permits[u] /\ waiting'[u] = waiting[u]
      BY <1>1, <1>2, <1>6, <1>6a, <1>14 DEF PermitsType
    <2>2. QED
      BY <1>1, <1>9, <1>12, <1>13, <1>14, <2>1, Untouched
  \* The others that hold a permit of p afterwards.
  <1>15. PICK rest \in SUBSET Calls : rest = Holders(p) \ {c}
    BY DEF Holders
  <1>16. /\ permits[p] + 1 + Cardinality(rest) = Concurrency /\ permits[p] \in Nat
         /\ Cardinality(rest) \in Nat
         /\ rest \cap First(p, n) = {}
         /\ \A d \in Calls \ {c} : Holds(d)' /\ At(d)' = p <=> d \in rest \cup First(p, n)
    <2>1. c \in Holders(p) /\ IsFiniteSet(Holders(p)) /\ Cardinality(Holders(p)) \in Nat
      BY <1>0, <1>2, HoldersFinite DEF Holders
    <2>2. Cardinality(rest) = Cardinality(Holders(p)) - 1 /\ Cardinality(rest) \in Nat
      BY <1>15, <2>1, FS_RemoveElement, FS_CardinalityType
    <2>3. permits[p] + Cardinality(Holders(p)) = Concurrency /\ permits[p] \in Nat
      BY <1>1, <1>2 DEF Counts, PermitsType
    <2>4. rest \cap First(p, n) = {}
      BY <1>10, <1>15 DEF Holders, Holds, Waits
    <2>5. \A d \in Calls \ {c} : Holds(d)' /\ At(d)' = p <=> d \in rest \cup First(p, n)
      BY <1>8, <1>10, <1>15 DEF Holders, Holds, Waits
    <2>6. permits[p] + 1 + Cardinality(rest) = Concurrency
      BY <2>1, <2>2, <2>3, LimitsAssumption
    <2>7. QED
      BY <2>2, <2>3, <2>4, <2>5, <2>6
  <1>17. n # 0 => Granted(p)' # {}
    <2>1. CASE n # 0
      <3>1. waiting[p][1] \in First(p, n)
        BY <1>4, <2>1 DEF First
      <3>2. waiting[p][1] \in Granted(p)'
        BY <1>8, <1>10, <3>1 DEF Granted, Waits
      <3>3. QED
        BY <3>2
    <2>2. QED
      BY <2>1
  <1>18. CASE q # p
    <2>1. /\ waiting'[p] = Behind(p, n) /\ permits'[p] = permits[p] + 1 - n
          /\ s = "calling" => waiting'[q] = waiting[q] /\ permits'[q] = permits[q] - 1
          /\ s = "waiting" => waiting'[q] = Append(waiting[q], c) /\ permits'[q] = permits[q]
      BY <1>1, <1>2, <1>6, <1>6a, <1>18 DEF PermitsType
    <2>2. Queued(p)' /\ waiting'[p] \in Seq(Calls)
      BY <1>1, <1>2, <1>8, <2>1, StillQueued DEF Holds
    <2>3. Counts(p)' /\ permits'[p] \in Nat
      <3>1. Holders(p)' = rest \cup First(p, n)
        <4>1. ~(Holds(c)' /\ At(c)' = p) /\ c \notin rest /\ rest \subseteq Calls /\ First(p, n) \subseteq Calls
          BY <1>9, <1>10, <1>15, <1>18
        <4>2. QED
          BY <1>8, <1>16, <4>1 DEF Holders
      <3>2. QED
        BY <1>1, <1>2, <1>4, <1>16, <2>1, <3>1, PassedOn
    <2>4. Watched(p)'
      <3>1. CASE n = 0
        <4>1. waiting[p] = <<>> /\ Behind(p, n) \in Seq(Calls) /\ Len(Behind(p, n)) = 0
          BY <1>1, <1>2, <1>4, <3>1, FirstWaiters
        <4>2. Behind(p, n) = <<>>
          BY <4>1
        <4>3. QED
          BY <2>1, <4>2 DEF Watched
      <3>2. QED
        BY <1>17, <3>1 DEF Watched
    <2>5. /\ Queued(q)' /\ Counts(q)' /\ Watched(q)'
          /\ permits'[q] \in Nat /\ waiting'[q] \in Seq(Calls)
      <3>1. CASE s = "calling"
        <4>1. waiting[q] = <<>> /\ permits[q] # 0
          BY <1>5, <1>6, <1>18, <3>1 DEF Locked
        <4>2. QED
          BY <1>1, <1>2, <1>9, <1>12, <1>13, <1>18, <2>1, <3>1, <4>1, Takes
      <3>2. CASE s = "waiting"
        <4>0. permits[q] \in Nat /\ Watched(q)
          BY <1>1, <1>2 DEF PermitsType
        <4>1. permits[q] = 0 \/ Granted(q) # {}
          <5>1. free = permits[q] /\ Locked(q, free)
            BY <1>5, <1>6, <1>18, <3>2
          <5>2. permits[q] = 0 \/ waiting[q] # <<>> \/ Granted(q) # {}
            BY <5>1 DEF Locked
          <5>3. permits[q] # 0 => permits[q] > 0
            BY <4>0
          <5>4. QED
            BY <4>0, <5>2, <5>3 DEF Watched
        <4>2. Waits(c, q)' /\ ~Holds(c)' /\ calls[c].stage # "waiting"
          BY <1>7, <1>8, <1>9, <3>2 DEF Waits
        <4>3. QED
          BY <1>1, <1>2, <1>12, <1>13, <1>18, <2>1, <3>2, <4>0, <4>1, <4>2, Joins
      <3>3. QED
        BY <3>1, <3>2
    <2>6. PermitsType'
      BY <1>1, <1>2, <1>6, <1>6a, <2>2, <2>3, <2>5 DEF PermitsType
    <2>7. QED
      BY <1>8, <1>11, <1>14, <2>2, <2>3, <2>4, <2>5, <2>6 DEF PermitsInv
  <1>19. CASE q = p /\ s = "calling"
    <2>1. waiting[p] = <<>> /\ n = 0
      BY <1>4, <1>6, <1>19 DEF Locked
    <2>2. Behind(p, n) = <<>> /\ First(p, n) = {}
      <3>1. Behind(p, n) \in Seq(Calls) /\ Len(Behind(p, n)) = 0
        BY <1>1, <1>2, <2>1, FirstWaiters
      <3>2. QED
        BY <2>1, <3>1 DEF First
    <2>3. permits'[p] = permits[p] /\ waiting'[p] = waiting[p]
      BY <1>1, <1>2, <1>6, <1>6a, <1>16, <1>19, <2>1, <2>2 DEF PermitsType
    <2>4. calls[c].stage # "granted" /\ calls[c].stage # "waiting"
      OBVIOUS
    <2>5. Queued(p)' /\ Counts(p)' /\ Watched(p)'
      <3>1. \A d \in Calls : /\ (Holds(d) /\ At(d) = p <=> Holds(d)' /\ At(d)' = p)
                             /\ (Waits(d, p) => Waits(d, p)')
                             /\ (d \in Granted(p) => d \in Granted(p)')
        BY <1>0, <1>2, <1>8, <1>9, <1>19, <2>2, <2>4 DEF Holds, Waits, Granted
      <3>2. QED
        BY <1>1, <1>2, <2>3, <3>1, Untouched
    <2>6. PermitsType'
      BY <1>1, <1>2, <1>6, <1>6a, <1>19, <2>3 DEF PermitsType
    <2>7. QED
      BY <1>8, <1>11, <1>14, <1>19, <2>5, <2>6 DEF PermitsInv
  <1>20. CASE q = p /\ s = "waiting"
    <2> DEFINE b == Behind(p, n)
    <2>1. /\ b \in Seq(Calls) /\ Distinct(b)
          /\ \A i \in 1..Len(b) : b[i] \in Calls /\ Waits(b[i], p) /\ b[i] \notin First(p, n)
      BY <1>1, <1>2, FirstWaiters
    <2>2. waiting'[p] = Append(b, c) /\ permits'[p] = permits[p] + 1 - n
      <3> HIDE DEF b
      <3>1. waiting'[q] = Append(Behind(p, n), c)
        BY <1>2, <1>6, <1>6a, <1>20
      <3>2. QED
        BY <1>6, <1>6a, <1>20, <3>1 DEF b
    <2>3. \A i \in 1..Len(b) : b[i] # c
      BY <2>1 DEF Waits
    <2>4. /\ Append(b, c) \in Seq(Calls) /\ Distinct(Append(b, c)) /\ Len(Append(b, c)) = Len(b) + 1
          /\ \A i \in 1..Len(b) + 1 : Append(b, c)[i] = IF i <= Len(b) THEN b[i] ELSE c
      <3> HIDE DEF b
      <3>1. QED
        BY <2>1, <2>3, AppendDistinct
    <2>5. Waits(c, p)'
      BY <1>7, <1>8, <1>9, <1>20 DEF Waits
    <2>6. ASSUME NEW i \in 1..Len(waiting'[p]), NEW d, d = waiting'[p][i] PROVE Waits(d, p)'
      <3>1. i \in 1..Len(b) + 1 /\ d = (IF i <= Len(b) THEN b[i] ELSE c) /\ Len(b) \in Nat
        BY <2>1, <2>2, <2>4, <2>6
      <3> HIDE DEF b
      <3>2. CASE i <= Len(b)
        <4>1. PICK k \in 1..Len(b) : d = b[k]
          BY <3>1, <3>2
        <4>2. d \in Calls \ {c} /\ Waits(d, p) /\ d \notin First(p, n)
          BY <2>1, <2>3, <4>1
        <4>3. QED
          BY <1>8, <4>2 DEF Waits
      <3>3. CASE ~(i <= Len(b))
        BY <2>5, <3>1, <3>3
      <3>4. QED
        BY <3>2, <3>3
    <2>7. Queued(p)'
      <3>1. Distinct(waiting'[p])
        BY <2>2, <2>4
      <3>2. \A i \in 1..Len(waiting'[p]) : \A d : d = waiting'[p][i] => Waits(d, p)'
        BY <2>6
      <3>3. QED
        BY <3>1, <3>2, Zenon DEF Queued
    <2>8. Counts(p)' /\ permits'[p] \in Nat
      <3>1. Holders(p)' = rest \cup First(p, n)
        <4>1. ~Holds(c)' /\ c \notin rest /\ rest \subseteq Calls /\ First(p, n) \subseteq Calls
          BY <1>9, <1>10, <1>15, <1>20
        <4>2. QED
          BY <1>8, <1>16, <4>1 DEF Holders
      <3>2. PICK k \in Nat : k = permits[p] + 1
        BY <1>16
      <3>3. n <= k /\ k + Cardinality(rest) = Concurrency /\ permits'[p] = k - n
        BY <1>4, <1>16, <2>2, <3>2
      <3>4. CallsType /\ PermitsType /\ Queued(p) /\ p \in Providers /\ rest \cap First(p, n) = {}
        BY <1>1, <1>2, <1>16
      <3> HIDE DEF b
      <3>5. QED
        BY <3>1, <3>3, <3>4, PassedOn
    <2>9. Watched(p)'
      <3>1. CASE n = 0
        <4>1. Granted(p) # {}
          BY <1>4, <1>5, <1>6, <1>16, <1>20, <3>1 DEF Locked
        <4>2. First(p, n) = {}
          BY <3>1 DEF First
        <4>3. Granted(p)' # {}
          BY <1>8, <4>1, <4>2 DEF Granted
        <4>4. QED
          BY <4>3 DEF Watched
      <3>2. QED
        BY <1>17, <3>1 DEF Watched
    <2>10. PermitsType'
      <3>1. waiting'[p] \in Seq(Calls) /\ permits'[p] \in Nat
        BY <2>2, <2>4, <2>8
      <3>2. permits' = passed /\ waiting' = [behind EXCEPT ![p] = Append(@, c)]
        BY <1>6, <1>20
      <3>3. \A u \in Providers \ {p} : permits'[u] \in Nat /\ waiting'[u] \in Seq(Calls)
        BY <1>1, <1>6a, <3>2 DEF PermitsType
      <3>4. QED
        BY <1>2, <1>6a, <3>1, <3>2, <3>3 DEF PermitsType
    <2>11. QED
      BY <1>8, <1>11, <1>14, <1>20, <2>7, <2>8, <2>9, <2>10 DEF PermitsInv
  <1>21. QED
    BY <1>18, <1>19, <1>20

LEMMA CrashPermits ==
  ASSUME PermitsInv, Crash
  PROVE  PermitsInv'
  <1>1. /\ calls' = [c \in Calls |->
                       IF Running(c) THEN [calls[c] EXCEPT !.stage = "done", !.result = "crashed"]
                                     ELSE calls[c]]
        /\ permits' = [p \in Providers |-> Concurrency]
        /\ waiting' = [p \in Providers |-> <<>>]
        /\ UNCHANGED <<tools, begun>>
    BY DEF Crash
  <1>2. CallsType /\ Places
    BY DEF PermitsInv
  <1>3. \A c \in Calls : /\ [calls[c] EXCEPT !.stage = "done", !.result = "crashed"] \in CallRecords
                         /\ [calls[c] EXCEPT !.stage = "done", !.result = "crashed"].stage = "done"
    BY <1>2 DEF CallsType, CallRecords, Stages, Results
  <1>4. ASSUME NEW c \in Calls
        PROVE  /\ calls'[c] \in CallRecords /\ ~Running(c)' /\ ~Holds(c)'
               /\ calls'[c].stage = "idle" => calls'[c] = Idle
    <2>1. CASE Running(c)
      <3>1. calls'[c] \in CallRecords /\ calls'[c].stage = "done"
        BY <1>1, <1>3, <2>1
      <3>2. QED
        BY <3>1 DEF Running, Holds
    <2>2. CASE ~Running(c)
      <3>1. calls'[c] = calls[c]
        BY <1>1, <2>2
      <3>2. QED
        BY <1>2, <2>2, <3>1 DEF CallsType, Places, Running, Holds
    <2>3. QED
      BY <2>1, <2>2
  <1>5. CallsType' /\ PermitsType'
    <2>1. CallsType'
      BY <1>1, <1>2, <1>4 DEF CallsType
    <2>2. permits' \in [Providers -> Nat]
      BY <1>1, LimitsAssumption
    <2>3. waiting' \in [Providers -> Seq(Calls)]
      <3>1. <<>> \in Seq(Calls)
        OBVIOUS
      <3>2. QED
        BY <1>1, <3>1
    <2>4. QED
      BY <2>1, <2>2, <2>3 DEF PermitsType
  <1>6. Places'
    BY <1>4 DEF Places
  <1>7. ASSUME NEW p \in Providers PROVE Queued(p)' /\ Counts(p)' /\ Watched(p)'
    <2>1. permits'[p] = Concurrency /\ waiting'[p] = <<>>
      BY <1>1
    <2>2. Holders(p)' = {}
      BY <1>4 DEF Holders
    <2>3. Cardinality(Holders(p)') = 0
      BY <2>2, FS_EmptySet
    <2>4. Len(<<>>) = 0 /\ \A i \in 1..0 : FALSE
      OBVIOUS
    <2>5. Queued(p)'
      BY <2>1, <2>4, Zenon DEF Queued, Distinct
    <2>6. QED
      BY <2>1, <2>3, <2>5, LimitsAssumption DEF Counts, Watched
  <1>8. QED
    BY <1>5, <1>6, <1>7 DEF PermitsInv

LEMMA PermitsInit == Init => PermitsInv
  <1> SUFFICES ASSUME Init PROVE PermitsInv
    OBVIOUS
  <1>1. /\ tools \in [Calls -> Invocations] /\ calls = [c \in Calls |-> Idle] /\ begun = 0
        /\ permits = [p \in Providers |-> Concurrency] /\ waiting = [p \in Providers |-> <<>>]
    BY ScenariosAssumption DEF Init
  <1>2. CallsType
    BY <1>1, IdleType DEF CallsType
  <1>3. PermitsType
    <2>1. <<>> \in Seq(Calls)
      OBVIOUS
    <2>2. QED
      BY <1>1, <2>1, LimitsAssumption DEF PermitsType
  <1>4. \A c \in Calls : calls[c] = Idle /\ ~Running(c) /\ ~Holds(c)
    BY <1>1 DEF Running, Holds, Idle
  <1>5. ASSUME NEW p \in Providers PROVE Queued(p) /\ Counts(p) /\ Watched(p)
    <2>1. permits[p] = Concurrency /\ waiting[p] = <<>>
      BY <1>1
    <2>2. Holders(p) = {}
      BY <1>4 DEF Holders
    <2>3. Cardinality(Holders(p)) = 0
      BY <2>2, FS_EmptySet
    <2>4. Len(<<>>) = 0 /\ \A i \in 1..0 : FALSE
      OBVIOUS
    <2>5. Queued(p)
      BY <2>1, <2>4, Zenon DEF Queued, Distinct
    <2>6. QED
      BY <2>1, <2>3, <2>5, LimitsAssumption DEF Counts, Watched
  <1>6. QED
    BY <1>2, <1>3, <1>4, <1>5 DEF PermitsInv, Places

-----------------------------------------------------------------------------
(* What the steps of a call are to the calls.                              *)

\* Call c becomes r, and waiters go on.
Moves(c, r) ==
  \E woken \in SUBSET Calls :
    /\ Becomes(c, r, woken)
    /\ c \notin woken /\ \A d \in woken : calls[d].stage = "waiting"

LEMMA MovesOne ==
  ASSUME CallsType, NEW c \in Calls, NEW r, calls' = [calls EXCEPT ![c] = r]
  PROVE  Moves(c, r)
  <1>1. calls' = [d \in Calls |-> IF d = c THEN r
                                  ELSE IF d \in {} THEN [calls[d] EXCEPT !.stage = "granted"]
                                  ELSE calls[d]]
    BY DEF CallsType
  <1>2. Becomes(c, r, {}) /\ {} \in SUBSET Calls /\ c \notin {} /\ \A d \in {} : FALSE
    BY <1>1 DEF Becomes
  <1>3. QED
    BY <1>2, Zenon DEF Moves

LEMMA MovesFirst ==
  ASSUME PermitsInv, NEW p \in Providers, NEW n \in 0..Len(waiting[p]),
         NEW c \in Calls, calls[c].stage # "waiting", NEW r, Becomes(c, r, First(p, n))
  PROVE  Moves(c, r)
  <1>1. First(p, n) \in SUBSET Calls /\ \A d \in First(p, n) : calls[d].stage = "waiting"
    BY FirstWaiters DEF PermitsInv, Waits
  <1>2. QED
    BY <1>1 DEF Moves

\* Every step that lets a permit go or leaves the queue.
LEMMA Passed ==
  ASSUME PermitsInv, NEW c \in Calls, calls[c].stage \in {"granted", "leaving", "calling", "sleeping"},
         NEW r \in CallRecords, r.stage = "done" \/ (r.stage = "calling" /\ r.ends = calls[c].ends),
         \/ Holds(c) /\ r.stage = "done" /\ Release(c, r)
         \/ LeaveAcquire(c, r, permits[At(c)] + (IF Holds(c) THEN 1 ELSE 0)
                                              - (IF r.stage = "calling" THEN 1 ELSE 0)),
         r.stage = "calling" => Holds(c),
         UNCHANGED <<tools, begun>>
  PROVE  PermitsInv' /\ Moves(c, r)
  <1>1. PICK p : p = At(c)
    OBVIOUS
  <1>2. p \in Providers /\ PermitsType
    BY <1>1 DEF PermitsInv, Places, Running
  <1>3. PICK free \in Nat : free = permits[p] + (IF Holds(c) THEN 1 ELSE 0)
                                              - (IF r.stage = "calling" THEN 1 ELSE 0)
    BY <1>2 DEF PermitsType
  <1>4. Len(waiting[p]) \in Nat /\ (waiting[p] = <<>> <=> Len(waiting[p]) = 0)
    BY <1>2 DEF PermitsType
  <1>5. PICK n \in 0..Len(waiting[p]) :
          /\ Passes(c, r, p, free, n)
          /\ n <= free /\ (n = free \/ n = Len(waiting[p]) \/ n # 0)
    <2>1. CASE Holds(c) /\ r.stage = "done" /\ Release(c, r)
      <3>1. free = permits[p] + 1 /\ permits[p] \in Nat
        BY <1>2, <1>3, <2>1 DEF PermitsType
      <3>2. Passes(c, r, p, free, ReleaseWakes(p))
        BY <1>1, <2>1, <3>1 DEF Release
      <3>3. /\ ReleaseWakes(p) \in 0..Len(waiting[p]) /\ ReleaseWakes(p) <= free
            /\ ReleaseWakes(p) = Len(waiting[p]) \/ ReleaseWakes(p) # 0
        BY <1>4, <3>1 DEF ReleaseWakes
      <3>4. QED
        BY <3>2, <3>3
    <2>2. CASE LeaveAcquire(c, r, permits[At(c)] + (IF Holds(c) THEN 1 ELSE 0)
                                                 - (IF r.stage = "calling" THEN 1 ELSE 0))
      <3>1. Passes(c, r, p, free, AcquireWakes(p, free))
        BY <1>1, <1>3, <2>2 DEF LeaveAcquire
      <3>2. /\ AcquireWakes(p, free) \in 0..Len(waiting[p]) /\ AcquireWakes(p, free) <= free
            /\ AcquireWakes(p, free) = free \/ AcquireWakes(p, free) = Len(waiting[p])
        BY <1>4 DEF AcquireWakes
      <3>3. QED
        BY <3>1, <3>2
    <2>3. QED
      BY <2>1, <2>2
  <1>6. PermitsInv'
    BY <1>1, <1>3, <1>5, Passing
  <1>7. Moves(c, r)
    BY <1>2, <1>5, MovesFirst DEF Passes
  <1>8. QED
    BY <1>6, <1>7

Goes(c, r) == Moves(c, r) /\ UNCHANGED <<tools, files, begun>>

Tried(c, attempt) == [calls[c] EXCEPT !.stage = "calling", !.attempt = attempt]

Slept(c) == [calls[c] EXCEPT !.stage = "sleeping", !.retries = @ + 1]

Asking(c, ends, s) ==
  [calls[c] EXCEPT !.ends = ends, !.retries = 0, !.stage = s,
                   !.attempt = IF s = "calling" THEN 1 ELSE 0]

Concluded(c, ends, result) ==
  /\ Moves(c, [calls[c] EXCEPT !.stage = "done", !.ends = ends, !.result = result])
  /\ result \in {StatusOf(c, ends[Len(ends)]), "unrecorded"}
  /\ IF result = "unrecorded" THEN NotWritten ELSE Written(c, result, calls[c].began)
  /\ UNCHANGED <<tools, begun>>

\* A request ends: the tool asks on, or is through.
EndsWith(c, outcome) ==
  \E ends \in Seq(Outcomes) :
    /\ ends = Append(calls[c].ends, outcome)
    /\ \/ \E s \in {"calling", "waiting"} : Goes(c, Asking(c, ends, s))
       \/ \E result : Concluded(c, ends, result)

LEMMA RequestEnds ==
  ASSUME PermitsInv, NEW c \in Calls, calls[c].stage \in {"calling", "sleeping"},
         NEW outcome \in Outcomes, EndsRequest(c, outcome)
  PROVE  PermitsInv' /\ EndsWith(c, outcome)
  <1>1. PICK ends : ends = Append(calls[c].ends, outcome)
    OBVIOUS
  <1>2. CallsType /\ PermitsType /\ calls[c] \in CallRecords /\ Holds(c)
    BY DEF PermitsInv, CallsType, Holds
  <1>3. ends \in Seq(Outcomes) /\ ends # <<>> /\ Len(ends) \in Nat
    BY <1>1, <1>2 DEF CallRecords
  <1>4. CASE outcome # "raises" /\ Len(ends) < Len(tools[c].providers)
    <2>1. AsksNext(c, ends)
      BY <1>1, <1>4 DEF EndsRequest
    <2>2. PermitsInv'
      BY <1>3, <1>4, <2>1, AsksNextPermits
    <2>3. UNCHANGED <<tools, files, begun>>
      BY <2>1 DEF AsksNext
    <2>4. PICK p : p = At(c)
      OBVIOUS
    <2>5. p \in Providers /\ ReleaseWakes(p) \in 0..Len(waiting[p])
      <3>1. p \in Providers
        BY <2>4 DEF PermitsInv, Places, Running
      <3>2. QED
        BY <1>2, <3>1 DEF ReleaseWakes, PermitsType
    <2>6. PICK s \in {"calling", "waiting"} : Becomes(c, Asking(c, ends, s), First(p, ReleaseWakes(p)))
      BY <2>1, <2>4 DEF AsksNext, Asking
    <2>7. Moves(c, Asking(c, ends, s))
      BY <2>5, <2>6, MovesFirst
    <2>8. QED
      BY <1>1, <1>3, <2>2, <2>3, <2>7 DEF EndsWith, Goes
  <1>5. CASE ~(outcome # "raises" /\ Len(ends) < Len(tools[c].providers))
    <2>1. Concludes(c, ends)
      BY <1>1, <1>5 DEF EndsRequest
    <2>2. PICK result \in {StatusOf(c, ends[Len(ends)]), "unrecorded"} :
            /\ Release(c, [calls[c] EXCEPT !.stage = "done", !.ends = ends, !.result = result])
            /\ IF result = "unrecorded" THEN NotWritten ELSE Written(c, result, calls[c].began)
            /\ UNCHANGED <<tools, begun>>
      BY <2>1 DEF Concludes
    <2>3. PICK r : r = [calls[c] EXCEPT !.stage = "done", !.ends = ends, !.result = result]
      OBVIOUS
    <2>4. result \in Results
      BY <2>2 DEF StatusOf, Results
    <2>5. r \in CallRecords /\ r.stage = "done"
      BY <1>2, <1>3, <2>3, <2>4 DEF CallRecords, Stages
    <2>6. Release(c, r)
      BY <2>2, <2>3
    <2>7. PermitsInv' /\ Moves(c, r)
      BY <1>2, <2>2, <2>5, <2>6, Passed
    <2>8. Concluded(c, ends, result)
      BY <2>2, <2>3, <2>7 DEF Concluded
    <2>9. QED
      BY <1>1, <1>3, <2>7, <2>8 DEF EndsWith
  <1>6. QED
    BY <1>4, <1>5

LEMMA Waited ==
  ASSUME PermitsInv, NEW c \in Calls, calls[c].stage = "calling", WaitBeforeRetry(c)
  PROVE  PermitsInv' /\ Goes(c, Slept(c))
  <1>1. CallsType /\ calls[c] \in CallRecords
    BY DEF PermitsInv, CallsType
  <1>2. Slept(c) \in CallRecords /\ Slept(c).stage = "sleeping" /\ Slept(c).ends = calls[c].ends
    <2>1. calls[c].retries + 1 \in Nat
      BY <1>1 DEF CallRecords
    <2>2. QED
      BY <1>1, <2>1 DEF Slept, CallRecords, Stages
  <1>3. /\ calls' = [calls EXCEPT ![c] = Slept(c)]
        /\ UNCHANGED <<tools, files, begun>> /\ UNCHANGED <<permits, waiting>>
    BY <1>1 DEF WaitBeforeRetry, Slept, CallsType, CallRecords
  <1>4. Moves(c, Slept(c))
    BY <1>1, <1>3, MovesOne
  <1>5. begun' \in Nat
    BY <1>1, <1>3 DEF CallsType
  <1>6. PermitsInv'
    BY <1>2, <1>3, <1>5, MovesAlone DEF Running, Holds
  <1>7. QED
    BY <1>3, <1>4, <1>6 DEF Goes

LEMMA WokeUp ==
  ASSUME PermitsInv, NEW c \in Calls, WakeUp(c), calls[c].attempt + 1 \in Tries
  PROVE  PermitsInv' /\ Goes(c, Tried(c, calls[c].attempt + 1))
  <1>1. CallsType /\ calls[c] \in CallRecords /\ calls[c].stage = "sleeping"
    BY DEF PermitsInv, CallsType, WakeUp
  <1>2. PICK r : r = Tried(c, calls[c].attempt + 1)
    OBVIOUS
  <1>3. r \in CallRecords /\ r.stage = "calling" /\ r.ends = calls[c].ends
    <2>1. calls[c].attempt + 1 \in Nat
      BY <1>1 DEF CallRecords
    <2>2. QED
      BY <1>1, <1>2, <2>1 DEF Tried, CallRecords, Stages
  <1>4. /\ calls' = [calls EXCEPT ![c] = r]
        /\ UNCHANGED <<tools, files, begun>> /\ UNCHANGED <<permits, waiting>>
    BY <1>1, <1>2 DEF WakeUp, Tried, CallsType, CallRecords
  <1>5. Moves(c, r)
    BY <1>1, <1>4, MovesOne
  <1>6. begun' \in Nat
    BY <1>1, <1>4 DEF CallsType
  <1>7. PermitsInv'
    BY <1>1, <1>3, <1>4, <1>6, MovesAlone DEF Running, Holds
  <1>8. QED
    BY <1>2, <1>4, <1>5, <1>7 DEF Goes

LEMMA Resumed ==
  ASSUME PermitsInv, NEW c \in Calls, Resume(c)
  PROVE  PermitsInv' /\ Goes(c, Tried(c, 1))
  <1>1. calls[c] \in CallRecords /\ calls[c].stage = "granted" /\ UNCHANGED <<tools, files, begun>>
    BY DEF PermitsInv, CallsType, Resume
  <1>2. PICK r : r = Tried(c, 1)
    OBVIOUS
  <1>3. r \in CallRecords /\ r.stage = "calling" /\ r.ends = calls[c].ends
    BY <1>1, <1>2 DEF Tried, CallRecords, Stages
  <1>4. LeaveAcquire(c, r, permits[At(c)] + 1 - 1)
    <2>1. permits[At(c)] \in Nat
      BY <1>1 DEF PermitsInv, PermitsType, Places, Running
    <2>2. permits[At(c)] + 1 - 1 = permits[At(c)]
      BY <2>1
    <2>3. LeaveAcquire(c, r, permits[At(c)])
      BY <1>2 DEF Resume, Tried
    <2>4. QED
      BY <2>2, <2>3
  <1>5. PermitsInv' /\ Moves(c, r)
    BY <1>1, <1>3, <1>4, Passed DEF Holds
  <1>6. QED
    BY <1>1, <1>2, <1>5 DEF Goes

LEMMA CancelledType ==
  ASSUME CallsType, NEW c \in Calls
  PROVE  Cancelled(c) \in CallRecords /\ Cancelled(c).stage = "done"
  BY DEF CallsType, CallRecords, Cancelled, Stages, Results

LEMMA CancelLeaves ==
  ASSUME PermitsInv, NEW c \in Calls, CancelGranted(c) \/ CancelHolding(c) \/ Leave(c)
  PROVE  PermitsInv' /\ Goes(c, Cancelled(c)) /\ Running(c)
  <1>1. UNCHANGED <<tools, files, begun>> /\ CallsType /\ Running(c)
    BY DEF PermitsInv, CancelGranted, CancelHolding, Leave, Running
  <1>2. Cancelled(c) \in CallRecords /\ Cancelled(c).stage = "done"
    BY <1>1, CancelledType
  <1>3. CASE CancelHolding(c)
    <2>1. Holds(c) /\ Release(c, Cancelled(c)) /\ calls[c].stage \in {"calling", "sleeping"}
      BY <1>3 DEF CancelHolding, Holds
    <2>2. QED
      BY <1>1, <1>2, <2>1, Passed DEF Goes
  <1>4. CASE CancelGranted(c) \/ Leave(c)
    <2>1. calls[c].stage \in {"granted", "leaving"} /\ permits[At(c)] \in Nat
      BY <1>1, <1>4 DEF CancelGranted, Leave, PermitsInv, PermitsType, Places
    <2>2. LeaveAcquire(c, Cancelled(c), permits[At(c)] + (IF Holds(c) THEN 1 ELSE 0) - 0)
      <3>1. CASE CancelGranted(c)
        <4>1. Holds(c) /\ permits[At(c)] + 1 - 0 = permits[At(c)] + 1
          BY <2>1, <3>1 DEF CancelGranted, Holds
        <4>2. QED
          BY <3>1, <4>1 DEF CancelGranted
      <3>2. CASE Leave(c)
        <4>1. ~Holds(c) /\ permits[At(c)] + 0 - 0 = permits[At(c)]
          BY <2>1, <3>2 DEF Leave, Holds
        <4>2. QED
          BY <3>2, <4>1 DEF Leave
      <3>3. QED
        BY <1>4, <3>1, <3>2
    <2>3. PermitsInv' /\ Moves(c, Cancelled(c))
      BY <1>1, <1>2, <2>1, <2>2, Passed
    <2>4. QED
      BY <1>1, <2>3 DEF Goes
  <1>5. QED
    BY <1>3, <1>4

LEMMA Leaving ==
  ASSUME PermitsInv, NEW c \in Calls, CancelWaiting(c)
  PROVE  PermitsInv' /\ Goes(c, [calls[c] EXCEPT !.stage = "leaving"])
  <1>1. CallsType /\ UNCHANGED <<tools, files, begun>>
    BY DEF PermitsInv, CancelWaiting
  <1>2. calls' = [calls EXCEPT ![c] = [calls[c] EXCEPT !.stage = "leaving"]]
    BY <1>1 DEF CancelWaiting, CallsType, CallRecords
  <1>3. QED
    BY <1>1, <1>2, CancelWaitingPermits, MovesOne DEF Goes

LEMMA Unasked ==
  ASSUME PermitsInv, NEW c \in Calls, InvokeUnasked(c)
  PROVE  PermitsInv'
  <1>1. CallsType /\ calls[c].stage = "idle" /\ begun' = begun + 1 /\ UNCHANGED <<tools, permits, waiting>>
    BY DEF InvokeUnasked, PermitsInv
  <1>1a. PICK result \in {"success", "error", "unrecorded"} :
           calls' = [calls EXCEPT ![c] = [Started(c, "done") EXCEPT !.result = result]]
    BY DEF InvokeUnasked
  <1>2. PICK r : r = [Started(c, "done") EXCEPT !.result = result] /\ calls' = [calls EXCEPT ![c] = r]
    BY <1>1a
  <1>3. Started(c, "done") \in CallRecords
    <2>1. begun + 1 \in Nat /\ "done" \in Stages
      BY <1>1 DEF CallsType, Stages
    <2>2. QED
      BY <2>1, IdleType DEF Started, CallRecords
  <1>4. r \in CallRecords /\ r.stage = "done"
    BY <1>2, <1>3 DEF Started, CallRecords, Results, Stages
  <1>5. begun' \in Nat /\ ~Holds(c)
    BY <1>1 DEF CallsType, Holds
  <1>6. QED
    BY <1>1, <1>2, <1>4, <1>5, MovesAlone

\* A try that is not waited for ends its request; one that was is made again, or
\* the loop is left behind.
LEMMA TryEnds ==
  ASSUME PermitsInv, NEW c \in Calls,
         TransportError(c) \/ WakeUp(c) \/ \E answer \in Answers : Answer(c, answer) \/ StatusError(c, answer)
  PROVE  /\ PermitsInv'
         /\ \/ calls[c].stage = "calling" /\ calls[c].attempt <= MaxRetries /\ Goes(c, Slept(c))
            \/ /\ calls[c].stage = "sleeping" /\ calls[c].attempt + 1 \in Tries
               /\ Goes(c, Tried(c, calls[c].attempt + 1))
            \/ calls[c].stage = "sleeping" /\ calls[c].attempt + 1 \notin Tries /\ EndsWith(c, "exhausted")
            \/ /\ calls[c].stage = "calling"
               /\ \E answer \in Answers :
                    /\ EndsWith(c, answer)
                    /\ answer \in {"busy", "unreachable"} => ~(calls[c].attempt <= MaxRetries)
  <1>0. calls[c].attempt \in Nat /\ Answers \subseteq Outcomes /\ "exhausted" \in Outcomes
    BY DEF PermitsInv, CallsType, CallRecords, Outcomes
  <1>1. CASE TransportError(c)
    <2>1. calls[c].stage = "calling"
      BY <1>1 DEF TransportError
    <2>2. CASE LastTry(calls[c].attempt)
      <3>1. EndsRequest(c, "unreachable") /\ "unreachable" \in Answers
        BY <1>1, <2>2 DEF TransportError, Answers
      <3>2. ~(calls[c].attempt <= MaxRetries)
        BY <1>0, <2>2, LimitsAssumption DEF LastTry
      <3>3. QED
        BY <1>0, <2>1, <3>1, <3>2, RequestEnds
    <2>3. CASE ~LastTry(calls[c].attempt)
      <3>1. WaitBeforeRetry(c)
        BY <1>1, <2>3 DEF TransportError
      <3>2. calls[c].attempt <= MaxRetries
        BY <1>0, <2>3, LimitsAssumption DEF LastTry
      <3>3. QED
        BY <2>1, <3>1, <3>2, Waited
    <2>4. QED
      BY <2>2, <2>3
  <1>2. CASE WakeUp(c)
    <2>1. calls[c].stage = "sleeping"
      BY <1>2 DEF WakeUp
    <2>2. CASE calls[c].attempt + 1 \in Tries
      BY <1>2, <2>1, <2>2, WokeUp
    <2>3. CASE calls[c].attempt + 1 \notin Tries
      <3>1. EndsRequest(c, "exhausted")
        BY <1>2, <2>3 DEF WakeUp
      <3>2. QED
        BY <1>0, <2>1, <2>3, <3>1, RequestEnds
    <2>4. QED
      BY <2>2, <2>3
  <1>3. ASSUME NEW answer \in Answers, Answer(c, answer)
        PROVE  /\ PermitsInv' /\ calls[c].stage = "calling"
               /\ EndsWith(c, answer) /\ answer \notin {"busy", "unreachable"}
    <2>1. calls[c].stage = "calling" /\ EndsRequest(c, answer) /\ answer \in {"success", "raises"}
      BY <1>3 DEF Answer
    <2>2. QED
      BY <1>0, <2>1, RequestEnds
  <1>4. ASSUME NEW answer \in Answers, StatusError(c, answer)
        PROVE  /\ PermitsInv' /\ calls[c].stage = "calling"
               /\ \/ calls[c].attempt <= MaxRetries /\ Goes(c, Slept(c))
                  \/ /\ EndsWith(c, answer)
                     /\ answer \in {"busy", "unreachable"} => ~(calls[c].attempt <= MaxRetries)
    <2>1. calls[c].stage = "calling" /\ answer \in {"busy", "refused"}
      BY <1>4 DEF StatusError
    <2>2. CASE IsRetryableStatus(answer, calls[c].attempt)
      <3>1. WaitBeforeRetry(c) /\ calls[c].attempt <= MaxRetries
        BY <1>4, <2>2 DEF StatusError, IsRetryableStatus
      <3>2. QED
        BY <2>1, <3>1, Waited
    <2>3. CASE ~IsRetryableStatus(answer, calls[c].attempt)
      <3>1. EndsRequest(c, answer)
        BY <1>4, <2>3 DEF StatusError
      <3>2. answer \in {"busy", "unreachable"} => ~(calls[c].attempt <= MaxRetries)
        BY <2>1, <2>3 DEF IsRetryableStatus
      <3>3. PermitsInv' /\ EndsWith(c, answer)
        BY <1>0, <2>1, <3>1, RequestEnds
      <3>4. QED
        BY <2>1, <3>2, <3>3
    <2>4. QED
      BY <2>2, <2>3
  <1>5. QED
    BY <1>1, <1>2, <1>3, <1>4

LEMMA PermitsStep ==
  ASSUME PermitsInv, [Next]_vars
  PROVE  PermitsInv'
  <1>1. ASSUME NEW c \in Calls,
               \/ Invoke(c) \/ InvokeUnasked(c) \/ Resume(c) \/ TransportError(c) \/ WakeUp(c)
               \/ \E answer \in Answers : Answer(c, answer) \/ StatusError(c, answer)
               \/ CancelGranted(c) \/ CancelHolding(c) \/ CancelWaiting(c) \/ Leave(c)
        PROVE  PermitsInv'
    BY <1>1, InvokePermits, Unasked, Resumed, TryEnds, CancelLeaves, Leaving
  <1>2. CASE NextDay \/ UNCHANGED vars
    <2>1. UNCHANGED <<tools, calls, permits, waiting, begun>>
      BY <1>2 DEF NextDay, vars
    <2>2. CallsType' /\ PermitsType' /\ Places'
      BY <2>1 DEF PermitsInv, CallsType, PermitsType, Places, Running, At
    <2>3. ASSUME NEW u \in Providers PROVE Queued(u)' /\ Counts(u)' /\ Watched(u)'
      <3>1. \A d \in Calls : /\ (Holds(d) /\ At(d) = u <=> Holds(d)' /\ At(d)' = u)
                             /\ (Waits(d, u) => Waits(d, u)')
                             /\ (d \in Granted(u) => d \in Granted(u)')
        BY <2>1 DEF Waits, Holds, Granted, At
      <3>2. permits'[u] = permits[u] /\ waiting'[u] = waiting[u]
        BY <2>1
      <3>3. QED
        BY <3>1, <3>2, Untouched DEF PermitsInv
    <2>4. QED
      BY <2>2, <2>3 DEF PermitsInv
  <1>3. QED
    BY <1>1, <1>2, CrashPermits DEF Next

\* Permits are neither lost nor made up, for any number of them, however calls
\* are answered, retried and cancelled; and a permit is free while a call waits
\* only for as long as a woken waiter has not run.
THEOREM PermitsConservedHolds == Spec => []PermitsConserved
  <1>1. PermitsInv => PermitsConserved
    BY DEF PermitsInv, Counts, Watched, Holders, PermitsConserved
  <1>2. QED
    BY <1>1, PermitsInit, PermitsStep, PTL DEF Spec

-----------------------------------------------------------------------------
\* What the loop over the tries keeps, call by call: the count of tries and that
\* of retries move together, and neither is past its limit while a try is made
\* or waited for.
Counted(c) ==
  /\ calls[c].stage = "calling" =>
       calls[c].attempt = calls[c].retries + 1 /\ calls[c].attempt <= MaxRetries + 1
  /\ calls[c].stage = "sleeping" =>
       calls[c].attempt = calls[c].retries /\ calls[c].attempt <= MaxRetries
  /\ calls[c].stage \in {"idle", "waiting", "granted"} => calls[c].retries = 0

AllCounted == \A c \in Calls : Counted(c)

\* What GivesUpOnlyAtLimit says of call c.
TriedEnough(c) ==
  /\ GivesUp(c) => /\ calls[c].stage = "calling"
                   /\ calls[c].attempt = MaxRetries + 1 /\ calls[c].retries = MaxRetries
  /\ calls[c].stage = "sleeping" /\ calls'[c].stage = "calling" =>
       calls'[c].attempt = calls'[c].retries + 1

\* A call that moves as the loop counts it leaves the others' counts alone.
LEMMA MoveCounts ==
  ASSUME PermitsInv, AllCounted, NEW c \in Calls, NEW r, Moves(c, r),
         r.stage = "calling" => r.attempt = r.retries + 1 /\ r.attempt <= MaxRetries + 1,
         r.stage = "sleeping" => r.attempt = r.retries /\ r.attempt <= MaxRetries,
         r.stage \in {"idle", "waiting", "granted"} => r.retries = 0
  PROVE  AllCounted' /\ calls'[c] = r /\ \A d \in Calls \ {c} : TriedEnough(d)
  <1>1. PICK woken \in SUBSET Calls : /\ Becomes(c, r, woken) /\ c \notin woken
                                      /\ \A d \in woken : calls[d].stage = "waiting"
    BY DEF Moves
  <1>2. calls'[c] = r
    BY <1>1 DEF Becomes
  <1>3. ASSUME NEW d \in Calls \ {c} PROVE Counted(d)' /\ TriedEnough(d)
    <2>1. calls[d] \in CallRecords /\ Counted(d)
      BY DEF PermitsInv, CallsType, AllCounted
    <2>2. CASE d \in woken
      <3>1. calls'[d] = [calls[d] EXCEPT !.stage = "granted"] /\ calls[d].stage = "waiting"
        BY <1>1, <2>2 DEF Becomes
      <3>2. /\ calls'[d].stage = "granted" /\ calls'[d].retries = calls[d].retries
            /\ calls'[d].ends = calls[d].ends
        BY <2>1, <3>1 DEF CallRecords
      <3>3. ~GivesUp(d)
        BY <2>1, <3>2 DEF GivesUp, CallRecords
      <3>4. QED
        BY <2>1, <3>1, <3>2, <3>3 DEF Counted, TriedEnough
    <2>3. CASE d \notin woken
      <3>1. calls'[d] = calls[d]
        BY <1>1, <2>3 DEF Becomes
      <3>2. ~GivesUp(d)
        BY <2>1, <3>1 DEF GivesUp, CallRecords
      <3>3. QED
        BY <2>1, <3>1, <3>2 DEF Counted, TriedEnough
    <2>4. QED
      BY <2>2, <2>3
  <1>4. Counted(c)'
    BY <1>2 DEF Counted
  <1>5. QED
    BY <1>2, <1>3, <1>4 DEF AllCounted

\* The same of a step after which c has asked no more than before.
LEMMA MoveAsksNoMore ==
  ASSUME PermitsInv, AllCounted, NEW c \in Calls, NEW r, Moves(c, r),
         r.stage = "calling" => r.attempt = r.retries + 1 /\ r.attempt <= MaxRetries + 1,
         r.stage = "sleeping" => r.attempt = r.retries /\ r.attempt <= MaxRetries,
         r.stage \in {"idle", "waiting", "granted"} => r.retries = 0,
         r.ends = calls[c].ends
  PROVE  AllCounted' /\ \A d \in Calls : TriedEnough(d)
  <1>1. AllCounted' /\ calls'[c] = r /\ \A d \in Calls \ {c} : TriedEnough(d)
    BY MoveCounts
  <1>2. calls[c] \in CallRecords
    BY DEF PermitsInv, CallsType
  <1>3. ~GivesUp(c)
    BY <1>1, <1>2 DEF GivesUp, CallRecords
  <1>4. TriedEnough(c)
    BY <1>1, <1>3 DEF TriedEnough
  <1>5. QED
    BY <1>1, <1>4

\* A request that ends has had all its tries if another might have helped it.
LEMMA EndCounts ==
  ASSUME PermitsInv, AllCounted, NEW c \in Calls, NEW outcome, EndsWith(c, outcome),
         outcome \in {"busy", "unreachable", "exhausted"} =>
           /\ calls[c].stage = "calling"
           /\ calls[c].attempt = MaxRetries + 1 /\ calls[c].retries = MaxRetries,
         calls[c].stage \in {"calling", "sleeping"}
  PROVE  AllCounted' /\ \A d \in Calls : TriedEnough(d)
  <1>1. PICK ends \in Seq(Outcomes) :
          /\ ends = Append(calls[c].ends, outcome)
          /\ \/ \E s \in {"calling", "waiting"} : Goes(c, Asking(c, ends, s))
             \/ \E result : Concluded(c, ends, result)
    BY DEF EndsWith
  <1>2. calls[c] \in CallRecords
    BY DEF PermitsInv, CallsType
  <1>3. ends[Len(ends)] = outcome
    BY <1>1, <1>2 DEF CallRecords
  <1>4. PICK r : /\ Moves(c, r) /\ r.ends = ends
                 /\ r.stage = "calling" => r.attempt = 1 /\ r.retries = 0
                 /\ r.stage = "waiting" => r.retries = 0
                 /\ r.stage \in {"calling", "waiting", "done"}
    <2>1. CASE \E s \in {"calling", "waiting"} : Goes(c, Asking(c, ends, s))
      <3>1. PICK s \in {"calling", "waiting"} : Moves(c, Asking(c, ends, s))
        BY <2>1 DEF Goes
      <3>2. /\ Asking(c, ends, s).stage = s /\ Asking(c, ends, s).ends = ends
            /\ Asking(c, ends, s).retries = 0
            /\ s = "calling" => Asking(c, ends, s).attempt = 1
        BY <1>2 DEF Asking, CallRecords
      <3>3. QED
        BY <3>1, <3>2
    <2>2. CASE \E result : Concluded(c, ends, result)
      <3>1. PICK result : Moves(c, [calls[c] EXCEPT !.stage = "done", !.ends = ends, !.result = result])
        BY <2>2 DEF Concluded
      <3>2. PICK r : r = [calls[c] EXCEPT !.stage = "done", !.ends = ends, !.result = result]
        OBVIOUS
      <3>3. r.stage = "done" /\ r.ends = ends
        BY <1>2, <3>2 DEF CallRecords
      <3>4. Moves(c, r)
        BY <3>1, <3>2
      <3>5. QED
        BY <3>3, <3>4
    <2>3. QED
      BY <1>1, <2>1, <2>2
  <1>5. /\ r.stage = "calling" => r.attempt = r.retries + 1 /\ r.attempt <= MaxRetries + 1
        /\ r.stage # "sleeping"
        /\ r.stage \in {"idle", "waiting", "granted"} => r.retries = 0
    BY <1>4, LimitsAssumption
  <1>6. AllCounted' /\ calls'[c] = r /\ \A d \in Calls \ {c} : TriedEnough(d)
    BY <1>4, <1>5, MoveCounts
  <1>7. GivesUp(c) => outcome \in {"busy", "unreachable", "exhausted"}
    BY <1>3, <1>4, <1>6 DEF GivesUp, LastEnd
  <1>8. TriedEnough(c)
    BY <1>4, <1>5, <1>6, <1>7 DEF TriedEnough
  <1>9. QED
    BY <1>6, <1>8

LEMMA TryCounts ==
  ASSUME PermitsInv, AllCounted, NEW c \in Calls,
         TransportError(c) \/ WakeUp(c) \/ \E answer \in Answers : Answer(c, answer) \/ StatusError(c, answer)
  PROVE  AllCounted' /\ \A d \in Calls : TriedEnough(d)
  <1>1. /\ calls[c] \in CallRecords /\ calls[c].attempt \in Nat /\ calls[c].retries \in Nat
        /\ Counted(c)
    BY DEF PermitsInv, CallsType, CallRecords, AllCounted
  <1>2. CASE calls[c].stage = "calling" /\ calls[c].attempt <= MaxRetries /\ Goes(c, Slept(c))
    <2>1. /\ Slept(c).stage = "sleeping" /\ Slept(c).attempt = calls[c].attempt
          /\ Slept(c).retries = calls[c].retries + 1 /\ Slept(c).ends = calls[c].ends
      BY <1>1 DEF Slept, CallRecords
    <2>2. calls[c].attempt = calls[c].retries + 1
      BY <1>1, <1>2 DEF Counted
    <2>3. QED
      BY <1>2, <2>1, <2>2, MoveAsksNoMore DEF Goes
  <1>3. CASE /\ calls[c].stage = "sleeping" /\ calls[c].attempt + 1 \in Tries
             /\ Goes(c, Tried(c, calls[c].attempt + 1))
    <2>1. PICK r : r = Tried(c, calls[c].attempt + 1)
      OBVIOUS
    <2>2. /\ r.stage = "calling" /\ r.attempt = calls[c].attempt + 1
          /\ r.retries = calls[c].retries /\ r.ends = calls[c].ends
      BY <1>1, <2>1 DEF Tried, CallRecords
    <2>3. calls[c].attempt = calls[c].retries /\ calls[c].attempt <= MaxRetries
      BY <1>1, <1>3 DEF Counted
    <2>4. r.attempt = r.retries + 1 /\ r.attempt <= MaxRetries + 1
      BY <1>1, <2>2, <2>3, LimitsAssumption
    <2>5. Moves(c, r)
      BY <1>3, <2>1 DEF Goes
    <2>6. QED
      BY <2>2, <2>4, <2>5, MoveAsksNoMore
  <1>4. CASE calls[c].stage = "sleeping" /\ calls[c].attempt + 1 \notin Tries
    <2>1. calls[c].attempt <= MaxRetries
      BY <1>1, <1>4 DEF Counted
    <2>2. calls[c].attempt + 1 \in Tries
      BY <1>1, <2>1, LimitsAssumption DEF Tries
    <2>3. QED
      BY <1>4, <2>2
  <1>5. ASSUME NEW answer \in Answers, calls[c].stage = "calling", EndsWith(c, answer),
               answer \in {"busy", "unreachable"} => ~(calls[c].attempt <= MaxRetries)
        PROVE  AllCounted' /\ \A d \in Calls : TriedEnough(d)
    <2>1. calls[c].attempt = calls[c].retries + 1 /\ calls[c].attempt <= MaxRetries + 1
      BY <1>1, <1>5 DEF Counted
    <2>2. answer # "exhausted"
      BY DEF Answers
    <2>3. answer \in {"busy", "unreachable"} =>
            calls[c].attempt = MaxRetries + 1 /\ calls[c].retries = MaxRetries
      BY <1>1, <1>5, <2>1, LimitsAssumption
    <2>4. QED
      BY <1>5, <2>2, <2>3, EndCounts
  <1>6. QED
    BY <1>2, <1>3, <1>4, <1>5, TryEnds

LEMMA IdleAsksNothing ==
  ASSUME PermitsInv, NEW c \in Calls, calls[c].stage = "idle"
  PROVE  calls[c].ends = <<>>
  <1>1. calls[c] = Idle
    BY DEF PermitsInv, Places
  <1>2. QED
    BY <1>1 DEF Idle

LEMMA CountsStep ==
  ASSUME PermitsInv, AllCounted, [Next]_vars
  PROVE  AllCounted' /\ \A d \in Calls : TriedEnough(d)
  <1>1. CallsType /\ \A c \in Calls : calls[c] \in CallRecords /\ Counted(c)
    BY DEF PermitsInv, CallsType, AllCounted
  <1>2. ASSUME NEW c \in Calls, InvokeUnasked(c)
        PROVE  AllCounted' /\ \A d \in Calls : TriedEnough(d)
    <2>1. PICK result, r : /\ calls' = [calls EXCEPT ![c] = r]
                           /\ r = [Started(c, "done") EXCEPT !.result = result]
      BY <1>2 DEF InvokeUnasked
    <2>2. r.stage = "done" /\ r.ends = <<>>
      BY <2>1 DEF Started, Idle
    <2>3. Moves(c, r)
      BY <1>1, <2>1, MovesOne
    <2>4. calls[c].ends = <<>>
      BY <1>2, IdleAsksNothing DEF InvokeUnasked
    <2>5. QED
      BY <2>2, <2>3, <2>4, MoveAsksNoMore
  <1>3. ASSUME NEW c \in Calls, Invoke(c)
        PROVE  AllCounted' /\ \A d \in Calls : TriedEnough(d)
    <2>0. PICK s \in {"waiting", "calling"} : calls' = [calls EXCEPT ![c] = Started(c, s)]
      BY <1>3 DEF Invoke
    <2>1. PICK r : calls' = [calls EXCEPT ![c] = r] /\ r = Started(c, s)
      BY <2>0
    <2>2. /\ r.stage = s /\ r.ends = <<>> /\ r.retries = 0
          /\ s = "calling" => r.attempt = 1
      BY <2>1 DEF Started, Idle
    <2>3. Moves(c, r)
      BY <1>1, <2>1, MovesOne
    <2>4. calls[c].ends = <<>>
      BY <1>3, IdleAsksNothing DEF Invoke
    <2>5. r.stage = "calling" => r.attempt = r.retries + 1 /\ r.attempt <= MaxRetries + 1
      BY <2>2, LimitsAssumption
    <2>6. QED
      BY <2>2, <2>3, <2>4, <2>5, MoveAsksNoMore
  <1>4. ASSUME NEW c \in Calls, Resume(c)
        PROVE  AllCounted' /\ \A d \in Calls : TriedEnough(d)
    <2>1. calls[c].retries = 0
      BY <1>1, <1>4 DEF Resume, Counted
    <2>2. PICK r : r = Tried(c, 1)
      OBVIOUS
    <2>3. r.stage = "calling" /\ r.attempt = 1 /\ r.retries = 0 /\ r.ends = calls[c].ends
      BY <1>1, <2>1, <2>2 DEF Tried, CallRecords
    <2>4. r.attempt = r.retries + 1 /\ r.attempt <= MaxRetries + 1
      BY <2>3, LimitsAssumption
    <2>5. Moves(c, r)
      BY <1>4, <2>2, Resumed DEF Goes
    <2>6. QED
      BY <2>3, <2>4, <2>5, MoveAsksNoMore
  <1>5. ASSUME NEW c \in Calls,
               CancelGranted(c) \/ CancelHolding(c) \/ CancelWaiting(c) \/ Leave(c)
        PROVE  AllCounted' /\ \A d \in Calls : TriedEnough(d)
    <2>1. PICK r : Moves(c, r) /\ (r = Cancelled(c) \/ r = [calls[c] EXCEPT !.stage = "leaving"])
      BY <1>5, CancelLeaves, Leaving DEF Goes
    <2>2. r.stage \in {"done", "leaving"} /\ r.ends = calls[c].ends
      BY <1>1, <2>1 DEF Cancelled, CallRecords
    <2>3. QED
      BY <2>1, <2>2, MoveAsksNoMore
  <1>6. ASSUME Crash \/ NextDay \/ UNCHANGED vars, NEW d \in Calls
        PROVE  Counted(d)' /\ TriedEnough(d)
    <2>1. calls'[d] = calls[d] \/ (calls'[d].stage = "done" /\ calls'[d].ends = calls[d].ends)
      BY <1>1, <1>6 DEF Crash, NextDay, vars, CallRecords
    <2>2. ~GivesUp(d)
      BY <1>1, <2>1 DEF GivesUp, CallRecords
    <2>3. QED
      BY <1>1, <2>1, <2>2 DEF Counted, TriedEnough
  <1>7. CASE Crash \/ NextDay \/ UNCHANGED vars
    BY <1>6, <1>7 DEF AllCounted
  <1>8. CASE \E c \in Calls :
               \/ Invoke(c) \/ InvokeUnasked(c) \/ Resume(c) \/ TransportError(c) \/ WakeUp(c)
               \/ \E answer \in Answers : Answer(c, answer) \/ StatusError(c, answer)
               \/ CancelGranted(c) \/ CancelHolding(c) \/ CancelWaiting(c) \/ Leave(c)
    BY <1>2, <1>3, <1>4, <1>5, <1>8, TryCounts
  <1>9. QED
    BY <1>7, <1>8 DEF Next

\* For every limit, and however calls wait, are woken and cancelled in between:
\* a request is given up on an answer that could be retried only after the last
\* of all tries it may have, and the loop is never left without an answer.
THEOREM GivesUpOnlyAtLimitHolds == Spec => GivesUpOnlyAtLimit
  <1>1. Init => AllCounted
    BY DEF Init, AllCounted, Counted, Idle
  <1>2. PermitsInv /\ AllCounted /\ [Next]_vars => AllCounted'
    BY CountsStep
  <1>3. PermitsInv /\ AllCounted /\ [Next]_vars =>
          [\A c \in Calls :
             /\ GivesUp(c) => /\ calls[c].stage = "calling"
                              /\ calls[c].attempt = MaxRetries + 1 /\ calls[c].retries = MaxRetries
             /\ calls[c].stage = "sleeping" /\ calls'[c].stage = "calling" =>
                  calls'[c].attempt = calls'[c].retries + 1]_vars
    BY CountsStep DEF TriedEnough
  <1>4. QED
    BY <1>1, <1>2, <1>3, PermitsInit, PermitsStep, PTL DEF Spec, GivesUpOnlyAtLimit

-----------------------------------------------------------------------------
(***************************************************************************)
(* Recordings.  That what is replayed is the last thing that went well is  *)
(* not inductive: it rests on a recording being of a call that has ended   *)
(* and will not change again (Genuine), of which there is no other, and on *)
(* no two calls having begun at once (CallsInOrder).                       *)
(***************************************************************************)

Begun(c) == calls[c].stage # "idle"

CallsInOrder ==
  /\ \A c \in Calls : calls[c].began <= begun
  /\ \A c, d \in Calls : Begun(c) /\ Begun(d) /\ calls[c].began = calls[d].began => c = d

\* Call c gave its agent a success for a reason.
Deserved(c) ==
  calls[c].result = "success" =>
    tools[c].merges \/ calls[c].ends = <<>> \/ LastEnd(c) = "success"

SuccessIsLast ==
  \A c \in Calls : Deserved(c) /\ (calls[c].stage # "done" => calls[c].result = "none")

\* Recording f tells what became of its call, if it tells anything.
Genuine(f) ==
  /\ f.call \in Calls /\ f.request = tools[f.call].request /\ f.began = calls[f.call].began
  /\ calls[f.call].stage = "done"
  /\ f.complete => f.status = calls[f.call].result
  /\ ~f.complete => calls[f.call].result = "crashed"

FilesGenuine ==
  /\ \A f \in files : Genuine(f)
  /\ \A f, g \in files : f.call = g.call => f = g

RecordInv == CallsType /\ CallsInOrder /\ SuccessIsLast /\ FilesGenuine

\* A set of numbers up to n has a largest one.
LEMMA LargestUpTo ==
  ASSUME NEW n \in Nat, NEW S \in SUBSET (0..n), S # {}
  PROVE  \E k \in S : \A j \in S : j <= k
  <1> DEFINE T == {n - k : k \in S}
             Less == OpToRel(<, Nat)
  <1>0. \A k \in S : k \in Nat /\ n - k \in Nat
    OBVIOUS
  <1>1. T \subseteq Nat /\ T # {}
    BY <1>0
  <1>6. \A i, j \in Nat : i < j => <<i, j>> \in Less
    BY DEF OpToRel
  <1>7. IsWellFoundedOn(Less, Nat)
    BY NatLessThanWellFounded
  <1> HIDE DEF Less
  <1>2. PICK t \in T : \A u \in T : ~(<<u, t>> \in Less)
    BY <1>1, <1>7, WFMin
  <1>3. \A u \in T : t <= u
    <2> TAKE u \in T
    <2>1. u \in Nat /\ t \in Nat /\ ~(u < t)
      BY <1>1, <1>2, <1>6
    <2>2. QED
      BY <2>1
  <1>4. PICK k \in S : t = n - k
    BY <1>2
  <1>5. \A j \in S : j <= k
    <2> TAKE j \in S
    <2>1. n - k <= n - j
      BY <1>3, <1>4
    <2>2. QED
      BY <1>0, <2>1
  <1>8. QED
    BY <1>5

LEMMA Faithful == RecordInv => ReplayFaithful
  <1> SUFFICES ASSUME RecordInv, NEW r \in Requests
               PROVE  /\ Cardinality(FindLatestSuccess(r)) <= 1
                      /\ \A f \in FindLatestSuccess(r) :
                           /\ tools[f.call].request = r /\ calls[f.call].result = "success"
                           /\ \/ tools[f.call].merges \/ calls[f.call].ends = <<>>
                              \/ LastEnd(f.call) = "success"
                      /\ \A f \in files :
                           f.request = r /\ calls[f.call].result = "success" =>
                             \E g \in FindLatestSuccess(r) : g.began >= f.began
    BY DEF ReplayFaithful
  <1>1. CallsType /\ CallsInOrder /\ SuccessIsLast /\ FilesGenuine
    BY DEF RecordInv
  <1>2. \A f \in files : f.call \in Calls /\ Begun(f.call) /\ f.began \in 0..begun
    BY <1>1 DEF FilesGenuine, Genuine, CallsInOrder, CallsType, CallRecords, Begun
  <1>3. ASSUME NEW f \in FindLatestSuccess(r), NEW g \in FindLatestSuccess(r)
        PROVE  f = g
    <2>1. f \in files /\ g \in files /\ f.began = g.began
      BY <1>2 DEF FindLatestSuccess
    <2>2. f.call = g.call
      BY <1>1, <1>2, <2>1 DEF FilesGenuine, Genuine, CallsInOrder
    <2>3. QED
      BY <1>1, <2>1, <2>2 DEF FilesGenuine
  <1>4. Cardinality(FindLatestSuccess(r)) <= 1
    <2>1. CASE FindLatestSuccess(r) = {}
      BY <2>1, FS_EmptySet
    <2>2. CASE FindLatestSuccess(r) # {}
      <3>1. PICK f : FindLatestSuccess(r) = {f}
        BY <1>3, <2>2
      <3>2. QED
        BY <3>1, FS_Singleton
    <2>3. QED
      BY <2>1, <2>2
  <1>5. ASSUME NEW f \in FindLatestSuccess(r)
        PROVE  /\ tools[f.call].request = r /\ calls[f.call].result = "success"
               /\ tools[f.call].merges \/ calls[f.call].ends = <<>> \/ LastEnd(f.call) = "success"
    <2>1. f \in files /\ Matches(f, r)
      BY DEF FindLatestSuccess
    <2>2. Genuine(f)
      BY <1>1, <2>1 DEF FilesGenuine
    <2>3. f.request = r /\ f.status = "success" /\ calls[f.call].result = f.status
      BY <2>1, <2>2, Zenon DEF Matches, Genuine
    <2>4. QED
      BY <1>1, <2>2, <2>3 DEF Genuine, SuccessIsLast, Deserved
  <1>6. ASSUME NEW f \in files, f.request = r, calls[f.call].result = "success"
        PROVE  \E g \in FindLatestSuccess(r) : g.began >= f.began
    <2>1. Genuine(f)
      BY <1>1 DEF FilesGenuine
    <2>2. "crashed" # "success"
      OBVIOUS
    <2>3. Matches(f, r)
      BY <1>6, <2>1, <2>2, Zenon DEF Matches, Genuine
    <2> DEFINE S == {g.began : g \in {h \in files : Matches(h, r)}}
    <2>4. S \in SUBSET (0..begun) /\ f.began \in S /\ begun \in Nat
      BY <1>1, <1>2, <2>3 DEF CallsType
    <2>5. PICK k \in S : \A j \in S : j <= k
      BY <2>4, LargestUpTo
    <2>6. PICK g \in files : Matches(g, r) /\ g.began = k
      BY <2>5
    <2>7. g \in FindLatestSuccess(r)
      BY <2>5, <2>6 DEF FindLatestSuccess
    <2>8. QED
      BY <1>2, <2>4, <2>5, <2>6, <2>7
  <1>7. QED
    BY <1>4, <1>5, <1>6

\* What a step keeps of the calls: their order, and how they ended.
KeepsOrder ==
  /\ begun' = begun
  /\ \A d \in Calls : calls'[d].began = calls[d].began /\ (Begun(d)' <=> Begun(d))

KeepsEnded ==
  tools' = tools /\ \A d \in Calls : calls[d].stage = "done" => calls'[d] = calls[d]

LEMMA OrderKept ==
  ASSUME CallsInOrder, KeepsOrder
  PROVE  CallsInOrder'
  BY DEF CallsInOrder, KeepsOrder

LEMMA FilesKept ==
  ASSUME FilesGenuine, KeepsEnded, files' \subseteq files
  PROVE  FilesGenuine'
  <1>1. ASSUME NEW f \in files PROVE Genuine(f)'
    <2>1. Genuine(f)
      BY DEF FilesGenuine
    <2>2. calls'[f.call] = calls[f.call] /\ f.call \in Calls /\ tools' = tools
      BY <2>1 DEF Genuine, KeepsEnded
    <2>3. QED
      BY <2>1, <2>2, Zenon DEF Genuine
  <1>2. QED
    BY <1>1 DEF FilesGenuine

\* One recording more, of a call that has just ended.
LEMMA FilesAdded ==
  ASSUME FilesGenuine, KeepsEnded, NEW f, files' \subseteq files \cup {f},
         calls[f.call].stage # "done", Genuine(f)'
  PROVE  FilesGenuine'
  <1>1. ASSUME NEW g \in files PROVE Genuine(g)' /\ g.call # f.call
    <2>1. Genuine(g)
      BY DEF FilesGenuine
    <2>2. /\ calls'[g.call] = calls[g.call] /\ g.call \in Calls /\ tools' = tools
          /\ calls[g.call].stage = "done"
      BY <2>1 DEF Genuine, KeepsEnded
    <2>3. Genuine(g)'
      BY <2>1, <2>2, Zenon DEF Genuine
    <2>4. QED
      BY <2>2, <2>3
  <1>2. QED
    BY <1>1 DEF FilesGenuine

\* A call that runs moves on, or ends.
LEMMA MoveKeeps ==
  ASSUME CallsType, SuccessIsLast, NEW c \in Calls, calls[c].stage \notin {"idle", "done"},
         NEW r, Moves(c, r), UNCHANGED <<tools, begun>>,
         r.stage # "idle", r.began = calls[c].began, r.stage # "done" => r.result = "none",
         r.result = "success" =>
           tools[c].merges \/ r.ends = <<>> \/ r.ends[Len(r.ends)] = "success"
  PROVE  KeepsOrder /\ KeepsEnded /\ SuccessIsLast' /\ calls'[c] = r
  <1>1. PICK woken \in SUBSET Calls : /\ Becomes(c, r, woken) /\ c \notin woken
                                      /\ \A d \in woken : calls[d].stage = "waiting"
    BY DEF Moves
  <1>2. calls'[c] = r /\ tools' = tools
    BY <1>1 DEF Becomes
  <1>3. ASSUME NEW d \in Calls, d # c
        PROVE  /\ calls'[d].began = calls[d].began /\ (Begun(d)' <=> Begun(d))
               /\ calls[d].stage = "done" => calls'[d] = calls[d]
               /\ calls'[d].result = calls[d].result /\ calls'[d].ends = calls[d].ends
               /\ calls'[d].stage # "done" => calls[d].stage # "done"
    <2>1. CASE d \in woken
      <3>1. /\ calls'[d] = [calls[d] EXCEPT !.stage = "granted"] /\ calls[d] \in CallRecords
            /\ calls[d].stage = "waiting"
        BY <1>1, <1>3, <2>1 DEF Becomes, CallsType
      <3>2. QED
        BY <3>1 DEF Begun, CallRecords
    <2>2. CASE d \notin woken
      <3>1. calls'[d] = calls[d]
        BY <1>1, <1>3, <2>2 DEF Becomes
      <3>2. QED
        BY <3>1 DEF Begun
    <2>3. QED
      BY <2>1, <2>2
  <1>4. KeepsOrder
    BY <1>2, <1>3 DEF KeepsOrder, Begun
  <1>5. KeepsEnded
    BY <1>2, <1>3 DEF KeepsEnded
  <1>6. ASSUME NEW d \in Calls
        PROVE  Deserved(d)' /\ (calls'[d].stage # "done" => calls'[d].result = "none")
    <2>1. CASE d = c
      BY <1>2, <2>1 DEF Deserved, LastEnd
    <2>2. CASE d # c
      BY <1>2, <1>3, <2>2 DEF Deserved, LastEnd, SuccessIsLast
    <2>3. QED
      BY <2>1, <2>2
  <1>7. QED
    BY <1>2, <1>4, <1>5, <1>6 DEF SuccessIsLast

\* A new call begins after all others.
LEMMA BeginKeeps ==
  ASSUME CallsType, CallsInOrder, SuccessIsLast, NEW c \in Calls, NEW r,
         calls[c].stage = "idle", calls' = [calls EXCEPT ![c] = r], begun' = begun + 1,
         tools' = tools, r.stage # "idle", r.began = begun + 1, r.ends = <<>>,
         r.stage # "done" => r.result = "none"
  PROVE  CallsInOrder' /\ KeepsEnded /\ SuccessIsLast' /\ calls'[c] = r
  <1>1. \A d \in Calls : calls[d].began \in Nat /\ calls[d].began <= begun
    BY DEF CallsType, CallRecords, CallsInOrder
  <1>2. begun \in Nat /\ calls'[c] = r /\ \A d \in Calls \ {c} : calls'[d] = calls[d]
    BY DEF CallsType
  <1>3. CallsInOrder'
    BY <1>1, <1>2 DEF CallsInOrder, Begun
  <1>4. KeepsEnded
    BY <1>2 DEF KeepsEnded
  <1>5. SuccessIsLast'
    BY <1>2 DEF SuccessIsLast, Deserved, LastEnd
  <1>6. QED
    BY <1>2, <1>3, <1>4, <1>5

LEMMA KeptIsOld == Kept \subseteq files
  BY DEF Kept

Recorded == CallsInOrder /\ SuccessIsLast /\ FilesGenuine

\* A call that has just ended as it says leaves its recording, or none.
LEMMA RecordingAdded ==
  ASSUME FilesGenuine, KeepsEnded, NEW c \in Calls, calls[c].stage # "done", calls'[c].stage = "done",
         NEW result, calls'[c].result = result, NEW began, calls'[c].began = began,
         IF result = "unrecorded" THEN NotWritten ELSE Written(c, result, began)
  PROVE  FilesGenuine'
  <1>1. CASE result = "unrecorded"
    <2>1. files' \subseteq files
      BY <1>1, KeptIsOld DEF NotWritten
    <2>2. QED
      BY <2>1, FilesKept
  <1>2. CASE result # "unrecorded"
    <2>1. PICK f : f = Recording(c, result, began)
      OBVIOUS
    <2>2. files' \subseteq files \cup {f}
      BY <1>2, <2>1, KeptIsOld DEF Written
    <2>3. /\ f.call = c /\ f.request = tools[c].request /\ f.status = result
          /\ f.began = began /\ f.complete = TRUE
      BY <2>1 DEF Recording
    <2>4. tools' = tools
      BY DEF KeepsEnded
    <2>5. Genuine(f)'
      BY <2>3, <2>4, Zenon DEF Genuine
    <2>6. calls[f.call].stage # "done"
      BY <2>3
    <2>7. QED
      BY <2>2, <2>5, <2>6, FilesAdded
  <1>3. QED
    BY <1>1, <1>2

LEMMA RecordInvoke ==
  ASSUME PermitsInv, Recorded, NEW c \in Calls, Invoke(c) \/ InvokeUnasked(c)
  PROVE  Recorded'
  <1>1. /\ CallsType /\ CallsInOrder /\ SuccessIsLast /\ FilesGenuine
        /\ calls[c].stage = "idle" /\ begun' = begun + 1 /\ tools' = tools
    BY DEF PermitsInv, Recorded, Invoke, InvokeUnasked
  <1>2. CASE Invoke(c)
    <2>0. PICK s \in {"waiting", "calling"} : calls' = [calls EXCEPT ![c] = Started(c, s)]
      BY <1>2 DEF Invoke
    <2>1. PICK r : calls' = [calls EXCEPT ![c] = r] /\ r = Started(c, s)
      BY <2>0
    <2>2. r.stage = s /\ r.began = begun + 1 /\ r.result = "none" /\ r.ends = <<>>
      BY <2>1 DEF Started, Idle
    <2>3. CallsInOrder' /\ KeepsEnded /\ SuccessIsLast'
      BY <1>1, <2>1, <2>2, BeginKeeps
    <2>4. files' = files
      BY <1>2 DEF Invoke
    <2>5. QED
      BY <1>1, <2>3, <2>4, FilesKept DEF Recorded
  <1>3. CASE InvokeUnasked(c)
    <2>1. PICK result, r : /\ calls' = [calls EXCEPT ![c] = r]
                           /\ r = [Started(c, "done") EXCEPT !.result = result]
                           /\ IF result = "unrecorded" THEN NotWritten ELSE Written(c, result, begun + 1)
      BY <1>3 DEF InvokeUnasked
    <2>2. r.stage = "done" /\ r.began = begun + 1 /\ r.result = result /\ r.ends = <<>>
      BY <2>1 DEF Started, Idle
    <2>3. CallsInOrder' /\ KeepsEnded /\ SuccessIsLast' /\ calls'[c] = r
      BY <1>1, <2>1, <2>2, BeginKeeps
    <2>4. FilesGenuine'
      BY <1>1, <2>1, <2>2, <2>3, RecordingAdded
    <2>5. QED
      BY <2>3, <2>4 DEF Recorded
  <1>4. QED
    BY <1>2, <1>3

\* A call goes on, or ends without a recording.
LEMMA RecordMove ==
  ASSUME PermitsInv, Recorded, NEW c \in Calls, calls[c].stage \notin {"idle", "done"},
         NEW r, Goes(c, r), r.stage # "idle", r.began = calls[c].began,
         r.result = calls[c].result \/ (r.stage = "done" /\ r.result # "success")
  PROVE  Recorded'
  <1>1. /\ CallsType /\ CallsInOrder /\ SuccessIsLast /\ FilesGenuine
        /\ calls[c].result = "none" /\ Moves(c, r) /\ UNCHANGED <<tools, files, begun>>
    BY DEF PermitsInv, Recorded, SuccessIsLast, Goes
  <1>2. r.result # "success" /\ (r.stage # "done" => r.result = "none")
    BY <1>1
  <1>3. KeepsOrder /\ KeepsEnded /\ SuccessIsLast'
    BY <1>1, <1>2, MoveKeeps
  <1>4. QED
    BY <1>1, <1>3, OrderKept, FilesKept DEF Recorded

LEMMA RecordEnds ==
  ASSUME PermitsInv, Recorded, NEW c \in Calls, calls[c].stage \notin {"idle", "done"},
         NEW outcome, EndsWith(c, outcome)
  PROVE  Recorded'
  <1>1. PICK ends \in Seq(Outcomes) :
          /\ ends = Append(calls[c].ends, outcome)
          /\ \/ \E s \in {"calling", "waiting"} : Goes(c, Asking(c, ends, s))
             \/ \E result : Concluded(c, ends, result)
    BY DEF EndsWith
  <1>2. /\ CallsType /\ CallsInOrder /\ SuccessIsLast /\ FilesGenuine /\ calls[c] \in CallRecords
    BY DEF PermitsInv, CallsType, Recorded
  <1>3. CASE \E s \in {"calling", "waiting"} : Goes(c, Asking(c, ends, s))
    <2>0. PICK s \in {"calling", "waiting"} : Goes(c, Asking(c, ends, s))
      BY <1>3
    <2>1. PICK r : Goes(c, r) /\ r = Asking(c, ends, s)
      BY <2>0
    <2>2. r.stage = s /\ r.began = calls[c].began /\ r.result = calls[c].result
      BY <1>2, <2>1 DEF Asking, CallRecords
    <2>3. QED
      BY <2>1, <2>2, RecordMove
  <1>4. CASE \E result : Concluded(c, ends, result)
    <2>1. PICK result : Concluded(c, ends, result)
      BY <1>4
    <2>2. PICK r : r = [calls[c] EXCEPT !.stage = "done", !.ends = ends, !.result = result]
      OBVIOUS
    <2>3. r.stage = "done" /\ r.began = calls[c].began /\ r.result = result /\ r.ends = ends
      BY <1>2, <2>2 DEF CallRecords
    <2>4. /\ Moves(c, r) /\ UNCHANGED <<tools, begun>>
          /\ result \in {StatusOf(c, ends[Len(ends)]), "unrecorded"}
          /\ IF result = "unrecorded" THEN NotWritten ELSE Written(c, result, calls[c].began)
      BY <2>1, <2>2 DEF Concluded
    <2>5. result = "success" => tools[c].merges \/ ends[Len(ends)] = "success"
      BY <2>4 DEF StatusOf
    <2>6. KeepsOrder /\ KeepsEnded /\ SuccessIsLast' /\ calls'[c] = r
      BY <1>2, <2>3, <2>4, <2>5, MoveKeeps
    <2>7. FilesGenuine'
      BY <1>2, <2>3, <2>4, <2>6, RecordingAdded
    <2>8. QED
      BY <1>2, <2>6, <2>7, OrderKept DEF Recorded
  <1>5. QED
    BY <1>1, <1>3, <1>4

\* A call that is cut off has at most the beginning of a recording.
LEMMA RecordCrash ==
  ASSUME PermitsInv, Recorded, Crash
  PROVE  Recorded'
  <1>1. /\ CallsType /\ CallsInOrder /\ SuccessIsLast /\ FilesGenuine
        /\ \A d \in Calls : calls[d] \in CallRecords
    BY DEF PermitsInv, CallsType, Recorded
  <1>2. begun' = begun /\ tools' = tools
    BY DEF Crash
  <1>3. ASSUME NEW d \in Calls
        PROVE  /\ calls'[d].began = calls[d].began /\ (Begun(d)' <=> Begun(d))
               /\ calls[d].stage = "done" => calls'[d] = calls[d]
               /\ Deserved(d)' /\ (calls'[d].stage # "done" => calls'[d].result = "none")
               /\ Running(d) => calls'[d].stage = "done" /\ calls'[d].result = "crashed"
    <2>1. CASE Running(d)
      <3>1. calls'[d] = [calls[d] EXCEPT !.stage = "done", !.result = "crashed"]
        BY <2>1 DEF Crash
      <3>2. /\ calls'[d].began = calls[d].began
            /\ calls'[d].stage = "done" /\ calls'[d].result = "crashed"
        BY <1>1, <3>1 DEF CallRecords
      <3>3. QED
        BY <2>1, <3>2 DEF Begun, Running, Deserved
    <2>2. CASE ~Running(d)
      <3>1. calls'[d] = calls[d]
        BY <2>2 DEF Crash
      <3>2. QED
        BY <1>1, <1>2, <2>2, <3>1 DEF Begun, SuccessIsLast, Deserved, LastEnd
    <2>3. QED
      BY <2>1, <2>2
  <1>4. CallsInOrder' /\ KeepsEnded /\ SuccessIsLast'
    <2>1. KeepsOrder
      BY <1>2, <1>3 DEF KeepsOrder
    <2>2. KeepsEnded /\ SuccessIsLast'
      BY <1>2, <1>3 DEF KeepsEnded, SuccessIsLast
    <2>3. QED
      BY <1>1, <2>1, <2>2, OrderKept
  <1>5. CASE files' = Kept
    BY <1>1, <1>4, <1>5, KeptIsOld, FilesKept DEF Recorded
  <1>6. ASSUME NEW c \in Calls, calls[c].stage = "calling",
               files' = Kept \cup {[Recording(c, "success", calls[c].began) EXCEPT !.complete = FALSE]}
        PROVE  Recorded'
    <2>0. PICK f : f = [Recording(c, "success", calls[c].began) EXCEPT !.complete = FALSE]
      OBVIOUS
    <2>1. /\ f.call = c /\ f.request = tools[c].request
          /\ f.began = calls[c].began /\ f.complete = FALSE
      BY <2>0 DEF Recording
    <2>2. calls'[c].began = calls[c].began /\ calls'[c].stage = "done" /\ calls'[c].result = "crashed"
      BY <1>3, <1>6 DEF Running
    <2>3. Genuine(f)'
      BY <1>2, <2>1, <2>2, Zenon DEF Genuine
    <2>4. files' \subseteq files \cup {f} /\ calls[f.call].stage # "done"
      BY <1>6, <2>0, <2>1, KeptIsOld
    <2>5. QED
      BY <1>1, <1>4, <2>3, <2>4, FilesAdded DEF Recorded
  <1>7. QED
    BY <1>5, <1>6 DEF Crash

LEMMA RecordedStep ==
  ASSUME PermitsInv, Recorded, [Next]_vars
  PROVE  Recorded'
  <1>0. \A c \in Calls : calls[c] \in CallRecords
    BY DEF PermitsInv, CallsType
  <1>1. CASE NextDay \/ UNCHANGED vars
    <2>1. calls' = calls /\ files' = files /\ begun' = begun /\ tools' = tools
      BY <1>1 DEF NextDay, vars
    <2>2. KeepsOrder /\ KeepsEnded
      BY <2>1 DEF KeepsOrder, KeepsEnded, Begun
    <2>3. SuccessIsLast'
      BY <2>1 DEF Recorded, SuccessIsLast, Deserved, LastEnd
    <2>4. QED
      BY <2>1, <2>2, <2>3, OrderKept, FilesKept DEF Recorded
  <1>2. ASSUME NEW c \in Calls,
               \/ Resume(c) \/ CancelGranted(c) \/ CancelHolding(c) \/ CancelWaiting(c) \/ Leave(c)
        PROVE  Recorded'
    <2>1. calls[c].stage \notin {"idle", "done"}
      BY <1>2 DEF Resume, CancelGranted, CancelHolding, CancelWaiting, Leave
    <2>2. PICK r : /\ Goes(c, r)
                   /\ r \in {Tried(c, 1), Cancelled(c), [calls[c] EXCEPT !.stage = "leaving"]}
      BY <1>2, Resumed, CancelLeaves, Leaving
    <2>3. /\ r.stage # "idle" /\ r.began = calls[c].began
          /\ r.result = calls[c].result \/ (r.stage = "done" /\ r.result # "success")
      BY <1>0, <2>2 DEF Tried, Cancelled, CallRecords
    <2>4. QED
      BY <2>1, <2>2, <2>3, RecordMove
  <1>3. ASSUME NEW c \in Calls,
               \/ TransportError(c) \/ WakeUp(c)
               \/ \E answer \in Answers : Answer(c, answer) \/ StatusError(c, answer)
        PROVE  Recorded'
    <2>1. /\ calls[c].stage \notin {"idle", "done"}
          /\ \/ \E outcome : EndsWith(c, outcome)
             \/ \E r : Goes(c, r) /\ r \in {Slept(c), Tried(c, calls[c].attempt + 1)}
      BY <1>3, TryEnds
    <2>2. CASE \E outcome : EndsWith(c, outcome)
      BY <2>1, <2>2, RecordEnds
    <2>3. CASE \E r : Goes(c, r) /\ r \in {Slept(c), Tried(c, calls[c].attempt + 1)}
      <3>1. PICK r : Goes(c, r) /\ r \in {Slept(c), Tried(c, calls[c].attempt + 1)}
        BY <2>3
      <3>2. r.stage # "idle" /\ r.began = calls[c].began /\ r.result = calls[c].result
        BY <1>0, <3>1 DEF Tried, Slept, CallRecords
      <3>3. QED
        BY <2>1, <3>1, <3>2, RecordMove
    <2>4. QED
      BY <2>1, <2>2, <2>3
  <1>4. QED
    BY <1>1, <1>2, <1>3, RecordInvoke, RecordCrash DEF Next

\* What a replay gives is the result of the last call for the very request that
\* gave its agent a success and was recorded, whatever was cancelled, cut off,
\* left unrecorded or cleaned up since; and unless the tool merges what it asked,
\* the last thing it asked went well.
THEOREM ReplayFaithfulHolds == Spec => []ReplayFaithful
  <1>1. Init => Recorded
    BY DEF Init, Recorded, CallsInOrder, Begun, Idle, SuccessIsLast, Deserved, FilesGenuine
  <1>2. PermitsInv /\ Recorded => ReplayFaithful
    BY Faithful DEF PermitsInv, RecordInv, Recorded
  <1>3. QED
    BY <1>1, <1>2, PermitsInit, PermitsStep, RecordedStep, PTL DEF Spec
=============================================================================
