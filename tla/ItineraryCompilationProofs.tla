---------------------- MODULE ItineraryCompilationProofs ----------------------
(***************************************************************************)
(* The route and the compiler.  The route, for every proposal of the model *)
(* and every length of trip: the nights of a trip add up to its length,    *)
(* and its legs are one tour.  The compiler, for every route, every set of *)
(* venues with any hours, any number of picks and any cap on its           *)
(* iterations: what is delivered is open, what is missing from it is       *)
(* accounted for, and the days, stays and legs of the itinerary follow the *)
(* route.                                                                  *)
(*                                                                         *)
(* The library's induction theorems are about operators, which the provers *)
(* cannot instantiate; here induction is over a set of numbers (CountUp),  *)
(* and from it follows what the folds, the flattening and the sorting      *)
(* compute.                                                                *)
(***************************************************************************)
EXTENDS ItineraryCompilation, FiniteSetTheorems, SequenceTheorems, WellFoundedInduction,
        TLAPS

-----------------------------------------------------------------------------
(* Induction over a set of numbers. *)

LEMMA CountUp ==
  ASSUME NEW S, \A n \in Nat : (\A m \in 0..(n - 1) : m \in S) => n \in S
  PROVE  \A n \in Nat : n \in S
  <1> DEFINE T == Nat \ S
             Less == OpToRel(<, Nat)
  <1> SUFFICES ASSUME T # {} PROVE FALSE
    OBVIOUS
  <1>1. \A i, j \in Nat : i < j => <<i, j>> \in Less
    BY DEF OpToRel
  <1>2. IsWellFoundedOn(Less, Nat)
    BY NatLessThanWellFounded
  <1> HIDE DEF Less
  <1>3. PICK t \in T : \A u \in T : ~(<<u, t>> \in Less)
    BY <1>2, WFMin
  <1>4. ASSUME NEW m \in 0..(t - 1) PROVE m \in S
    <2>1. m \in Nat /\ t \in Nat /\ m < t
      OBVIOUS
    <2>2. QED
      BY <1>1, <1>3, <2>1
  <1>5. QED
    BY <1>3, <1>4

-----------------------------------------------------------------------------
(***************************************************************************)
(* Sums.  A fold over a set takes the elements as CHOOSE gives them; a sum *)
(* does not depend on it.                                                  *)
(***************************************************************************)

Chosen(s) == CHOOSE x \in s : TRUE

\* g sums the weights w over every subset of S.
Sums(g, w, S) ==
  g = [s \in SUBSET S |-> IF s = {} THEN 0 ELSE w[Chosen(s)] + g[s \ {Chosen(s)}]]

Alike(v, w, S) == \A e \in S : v[e] = w[e]

SumOf(w, S) == (CHOOSE g : Sums(g, w, S))[S]

LEMMA ChosenIn ==
  ASSUME NEW s, s # {}
  PROVE  Chosen(s) \in s
  BY DEF Chosen

LEMMA SumsAt ==
  ASSUME NEW g, NEW w, NEW S, Sums(g, w, S)
  PROVE  /\ g[{}] = 0
         /\ \A s \in SUBSET S : s # {} => g[s] = w[Chosen(s)] + g[s \ {Chosen(s)}]
  <1>1. \A s \in SUBSET S : g[s] = IF s = {} THEN 0 ELSE w[Chosen(s)] + g[s \ {Chosen(s)}]
    BY DEF Sums
  <1>2. QED
    BY <1>1

\* Two such functions agree wherever their sets overlap.
LEMMA SumsAgree ==
  ASSUME NEW S, NEW T, IsFiniteSet(S), NEW g, NEW h, NEW v, NEW w, Sums(g, v, S), Sums(h, w, T),
         Alike(v, w, S \cap T)
  PROVE  \A s \in SUBSET (S \cap T) : g[s] = h[s]
  <1> DEFINE Same == {n \in Nat : \A s \in SUBSET (S \cap T) : Cardinality(s) = n => g[s] = h[s]}
  <1>1. ASSUME NEW n \in Nat, \A m \in 0..(n - 1) : m \in Same PROVE n \in Same
    <2> SUFFICES ASSUME NEW s \in SUBSET (S \cap T), Cardinality(s) = n, s # {} PROVE g[s] = h[s]
      BY SumsAt
    <2>1. Chosen(s) \in s
      BY ChosenIn
    <2>2. IsFiniteSet(s)
      BY FS_Subset
    <2>3. Cardinality(s \ {Chosen(s)}) = n - 1 /\ n - 1 \in Nat
      <3>1. n # 0
        BY <2>2, FS_EmptySet
      <3>2. Cardinality(s \ {Chosen(s)}) = Cardinality(s) - 1
        BY <2>1, <2>2, FS_RemoveElement
      <3>3. QED
        BY <3>1, <3>2
    <2>4. g[s \ {Chosen(s)}] = h[s \ {Chosen(s)}]
      BY <1>1, <2>3
    <2>5. v[Chosen(s)] = w[Chosen(s)]
      BY <2>1 DEF Alike
    <2>6. g[s] = v[Chosen(s)] + g[s \ {Chosen(s)}]
      <3>1. \A r \in SUBSET S : r # {} => g[r] = v[Chosen(r)] + g[r \ {Chosen(r)}]
        BY ONLY Sums(g, v, S), SumsAt
      <3>2. QED
        BY <3>1
    <2>7. h[s] = w[Chosen(s)] + h[s \ {Chosen(s)}]
      <3>1. \A r \in SUBSET T : r # {} => h[r] = w[Chosen(r)] + h[r \ {Chosen(r)}]
        BY ONLY Sums(h, w, T), SumsAt
      <3>2. QED
        BY <3>1
    <2>8. QED
      BY <2>4, <2>5, <2>6, <2>7
  <1> HIDE DEF Same
  <1>2. \A n \in Nat : n \in Same
    BY <1>1, CountUp
  <1>3. QED
    <2> SUFFICES ASSUME NEW s \in SUBSET (S \cap T) PROVE g[s] = h[s]
      OBVIOUS
    <2>1. Cardinality(s) \in Nat
      BY FS_Subset, FS_CardinalityType
    <2>2. QED
      BY <1>2, <2>1 DEF Same

LEMMA SumIsSums ==
  ASSUME NEW S, IsFiniteSet(S), NEW g, NEW w, Sums(g, w, S)
  PROVE  SumOf(w, S) = g[S]
  <1>1. Sums(CHOOSE h : Sums(h, w, S), w, S)
    OBVIOUS
  <1>2. QED
    <2>1. PICK h : h = CHOOSE f : Sums(f, w, S)
      OBVIOUS
    <2>2. Sums(h, w, S) /\ S \in SUBSET (S \cap S)
      BY <1>1, <2>1
    <2>3. h[S] = g[S]
      BY <2>2, SumsAgree DEF Alike
    <2>4. QED
      BY <2>1, <2>3 DEF SumOf

\* There is such a function for every finite set.
LEMMA SumsExist ==
  ASSUME NEW S, IsFiniteSet(S), NEW w
  PROVE  \E g : Sums(g, w, S)
  <1> DEFINE Has == {n \in Nat : \A s \in SUBSET S : Cardinality(s) = n => \E g : Sums(g, w, s)}
  <1>1. ASSUME NEW n \in Nat, \A m \in 0..(n - 1) : m \in Has PROVE n \in Has
    <2> SUFFICES ASSUME NEW s \in SUBSET S, Cardinality(s) = n PROVE \E g : Sums(g, w, s)
      OBVIOUS
    <2>1. IsFiniteSet(s)
      BY FS_Subset
    <2>2. ASSUME NEW t \in SUBSET s, t # s
          PROVE  IsFiniteSet(t) /\ \E g : Sums(g, w, t)
      <3>1. IsFiniteSet(t) /\ Cardinality(t) \in Nat /\ Cardinality(t) <= n /\ Cardinality(t) # n
        BY <2>1, <2>2, FS_Subset, FS_CardinalityType
      <3>2. Cardinality(t) \in 0..(n - 1) /\ t \in SUBSET S
        BY <3>1
      <3>3. QED
        BY <1>1, <3>1, <3>2
    <2>3. ASSUME NEW t \in SUBSET s, t # s
          PROVE  SumOf(w, t) = IF t = {} THEN 0 ELSE w[Chosen(t)] + SumOf(w, t \ {Chosen(t)})
      <3>1. PICK g : Sums(g, w, t)
        BY <2>2, <2>3
      <3>2. SumOf(w, t) = g[t] /\ IsFiniteSet(t)
        BY <2>2, <2>3, <3>1, SumIsSums
      <3>3. CASE t = {}
        BY <3>1, <3>2, <3>3, SumsAt
      <3>4. CASE t # {}
        <4> DEFINE u == t \ {Chosen(t)}
        <4>1. u \in SUBSET s /\ u # s /\ Chosen(t) \in t
          BY <2>3, <3>4, ChosenIn
        <4>2. PICK h : Sums(h, w, u)
          BY <2>2, <4>1
        <4>3. SumOf(w, u) = h[u]
          BY <2>2, <4>1, <4>2, SumIsSums
        <4>4. h[u] = g[u]
          <5>1. IsFiniteSet(u) /\ u \in SUBSET (u \cap t)
            BY <2>2, <4>1
          <5> HIDE DEF u
          <5>2. QED
            BY <3>1, <4>2, <5>1, SumsAgree DEF Alike
        <4>5. QED
          BY <3>1, <3>2, <3>4, <4>3, <4>4, SumsAt
      <3>5. QED
        BY <3>3, <3>4
    <2> DEFINE g == [t \in SUBSET s |->
                       IF t = s /\ s # {} THEN w[Chosen(s)] + SumOf(w, s \ {Chosen(s)}) ELSE SumOf(w, t)]
               e == [t \in SUBSET s |-> 0]
    <2>4. CASE s = {}
      <3>1. e = [t \in SUBSET s |-> IF t = {} THEN 0 ELSE w[Chosen(t)] + e[t \ {Chosen(t)}]]
        BY <2>4
      <3>2. QED
        BY <3>1 DEF Sums
    <2>5. CASE s # {}
      <3>1. ASSUME NEW t \in SUBSET s
            PROVE  g[t] = IF t = {} THEN 0 ELSE w[Chosen(t)] + g[t \ {Chosen(t)}]
        <4>1. t # {} => t \ {Chosen(t)} \in SUBSET s /\ t \ {Chosen(t)} # s
          BY ChosenIn
        <4>2. t # {} => g[t \ {Chosen(t)}] = SumOf(w, t \ {Chosen(t)})
          BY <4>1
        <4>3. CASE t = s
          BY <2>5, <4>2, <4>3
        <4>4. CASE t # s
          BY <2>3, <4>2, <4>4
        <4>5. QED
          BY <4>3, <4>4
      <3>2. g = [t \in SUBSET s |-> IF t = {} THEN 0 ELSE w[Chosen(t)] + g[t \ {Chosen(t)}]]
        BY <3>1
      <3>3. QED
        BY <3>2 DEF Sums
    <2>6. QED
      BY <2>4, <2>5
  <1> HIDE DEF Has
  <1>2. \A n \in Nat : n \in Has
    BY <1>1, CountUp
  <1>3. Cardinality(S) \in Nat
    BY FS_CardinalityType
  <1>4. QED
    BY <1>2, <1>3 DEF Has

LEMMA SumStep ==
  ASSUME NEW S, IsFiniteSet(S), NEW w
  PROVE  /\ SumOf(w, {}) = 0
         /\ S # {} => SumOf(w, S) = w[Chosen(S)] + SumOf(w, S \ {Chosen(S)})
  <1>1. SumOf(w, {}) = 0
    <2>1. PICK h : Sums(h, w, {})
      BY FS_EmptySet, SumsExist
    <2>2. QED
      BY <2>1, FS_EmptySet, SumIsSums, SumsAt
  <1>2. ASSUME S # {} PROVE SumOf(w, S) = w[Chosen(S)] + SumOf(w, S \ {Chosen(S)})
    <2> DEFINE u == S \ {Chosen(S)}
    <2>1. IsFiniteSet(u) /\ u \in SUBSET (u \cap S)
      BY FS_RemoveElement
    <2>2. PICK g : Sums(g, w, S)
      BY SumsExist
    <2>3. PICK h : Sums(h, w, u)
      BY <2>1, SumsExist
    <2>4. SumOf(w, S) = g[S] /\ SumOf(w, u) = h[u]
      BY <2>1, <2>2, <2>3, SumIsSums
    <2>5. h[u] = g[u]
      <3> HIDE DEF u
      <3>1. Alike(w, w, u \cap S) /\ Alike(w, w, S \cap u)
        BY DEF Alike
      <3>2. QED
        BY <2>1, <2>2, <2>3, <3>1, SumsAgree
    <2>6. g[S] = w[Chosen(S)] + g[u]
      <3>1. \A s \in SUBSET S : s # {} => g[s] = w[Chosen(s)] + g[s \ {Chosen(s)}]
        BY <2>2, SumsAt
      <3>2. S \in SUBSET S
        OBVIOUS
      <3>3. QED
        BY ONLY <1>2, <3>1, <3>2
    <2>7. QED
      BY <2>4, <2>5, <2>6
  <1>3. QED
    BY <1>1, <1>2

\* Only the weights of the elements count.
LEMMA SumSame ==
  ASSUME NEW S, IsFiniteSet(S), NEW v, NEW w, \A e \in S : v[e] = w[e]
  PROVE  SumOf(v, S) = SumOf(w, S)
  <1>1. PICK g : Sums(g, v, S)
    BY SumsExist
  <1>2. PICK h : Sums(h, w, S)
    BY SumsExist
  <1>3. g[S] = h[S]
    <2>1. Alike(v, w, S \cap S) /\ S \in SUBSET (S \cap S)
      BY DEF Alike
    <2>2. Sums(g, v, S) /\ Sums(h, w, S)
      BY <1>1, <1>2
    <2>3. \A s \in SUBSET (S \cap S) : g[s] = h[s]
      BY ONLY IsFiniteSet(S), <2>1, <2>2, SumsAgree
    <2>4. QED
      BY <2>1, <2>3
  <1>4. QED
    BY <1>1, <1>2, <1>3, SumIsSums

\* A sum of natural numbers is one, and any element may be taken out of it.
LEMMA SumAny ==
  ASSUME NEW S, IsFiniteSet(S), NEW w, \A e \in S : w[e] \in Nat
  PROVE  /\ SumOf(w, S) \in Nat
         /\ \A e \in S : SumOf(w, S) = w[e] + SumOf(w, S \ {e})
  <1> DEFINE Fine(s) == /\ SumOf(w, s) \in Nat
                        /\ \A e \in s : SumOf(w, s) = w[e] + SumOf(w, s \ {e})
             Good == {n \in Nat : \A s \in SUBSET S : Cardinality(s) = n => Fine(s)}
  <1>1. ASSUME NEW n \in Nat, \A m \in 0..(n - 1) : m \in Good PROVE n \in Good
    <2> SUFFICES ASSUME NEW s \in SUBSET S, Cardinality(s) = n PROVE Fine(s)
      OBVIOUS
    <2>1. IsFiniteSet(s)
      BY FS_Subset
    <2>2. CASE s = {}
      BY <2>2, SumStep, FS_EmptySet
    <2>3. CASE s # {}
      <3> DEFINE c == Chosen(s)
      <3>1. c \in s /\ n # 0 /\ n - 1 \in 0..(n - 1)
        BY <2>1, <2>3, ChosenIn, FS_EmptySet
      <3>2. \A e \in s : IsFiniteSet(s \ {e}) /\ Cardinality(s \ {e}) = n - 1 /\ s \ {e} \in SUBSET S
        BY <2>1, FS_RemoveElement
      <3> HIDE DEF Fine
      <3>3. \A e \in s : Fine(s \ {e})
        BY <1>1, <3>1, <3>2
      <3>4. SumOf(w, s) = w[c] + SumOf(w, s \ {c}) /\ w[c] \in Nat
        BY <2>1, <2>3, <3>1, SumStep
      <3> HIDE DEF c
      <3>5. SumOf(w, s) \in Nat
        BY <3>1, <3>3, <3>4 DEF Fine
      <3>6. ASSUME NEW e \in s, e # c PROVE SumOf(w, s) = w[e] + SumOf(w, s \ {e})
        <4>1. SumOf(w, s \ {c}) = w[e] + SumOf(w, (s \ {c}) \ {e})
          BY <3>1, <3>3, <3>6 DEF Fine
        <4>2. SumOf(w, s \ {e}) = w[c] + SumOf(w, (s \ {e}) \ {c}) /\ SumOf(w, s \ {e}) \in Nat
          BY <3>1, <3>3, <3>6 DEF Fine
        <4>3. (s \ {c}) \ {e} = (s \ {e}) \ {c}
          OBVIOUS
        <4>4. SumOf(w, (s \ {e}) \ {c}) \in Nat
          <5>1. (s \ {e}) \ {c} \in SUBSET S /\ n - 2 \in 0..(n - 1)
                /\ Cardinality((s \ {e}) \ {c}) = n - 2
            <6>1. Cardinality((s \ {e}) \ {c}) = (n - 1) - 1 /\ IsFiniteSet((s \ {e}) \ {c})
              <7>1. PICK t : t = s \ {e}
                OBVIOUS
              <7>2. IsFiniteSet(t) /\ Cardinality(t) = n - 1 /\ c \in t
                BY <3>1, <3>2, <3>6, <7>1
              <7>3. Cardinality(t \ {c}) = Cardinality(t) - 1 /\ IsFiniteSet(t \ {c})
                BY <7>2, FS_RemoveElement
              <7>4. QED
                BY <7>1, <7>2, <7>3
            <6>2. Cardinality((s \ {e}) \ {c}) \in Nat
              BY <6>1, FS_CardinalityType
            <6>3. QED
              BY <6>1, <6>2
          <5>2. QED
            BY <1>1, <5>1 DEF Fine
        <4>5. PICK a \in Nat : a = SumOf(w, (s \ {e}) \ {c})
          BY <4>4
        <4>6. w[e] \in Nat
          OBVIOUS
        <4>7. SumOf(w, s \ {c}) = w[e] + a /\ SumOf(w, s \ {e}) = w[c] + a
          BY <4>1, <4>2, <4>3, <4>5
        <4>8. QED
          BY <3>4, <4>5, <4>6, <4>7
      <3>7. QED
        BY <3>4, <3>5, <3>6 DEF Fine
    <2>4. QED
      BY <2>2, <2>3
  <1> HIDE DEF Good, Fine
  <1>2. \A n \in Nat : n \in Good
    BY <1>1, CountUp
  <1>3. Cardinality(S) \in Nat
    BY FS_CardinalityType
  <1>4. QED
    BY <1>2, <1>3 DEF Good, Fine

LEMMA SumGrows ==
  ASSUME NEW S, IsFiniteSet(S), NEW w, \A e \in S : w[e] \in Nat, NEW T \in SUBSET S
  PROVE  SumOf(w, T) <= SumOf(w, S)
  <1> DEFINE Good == {n \in Nat : \A s \in SUBSET S : Cardinality(s) = n /\ T \subseteq s =>
                                                        SumOf(w, T) <= SumOf(w, s)}
  <1>1. ASSUME NEW n \in Nat, \A m \in 0..(n - 1) : m \in Good PROVE n \in Good
    <2> SUFFICES ASSUME NEW s \in SUBSET S, Cardinality(s) = n, T \subseteq s
                 PROVE  SumOf(w, T) <= SumOf(w, s)
      OBVIOUS
    <2>1. IsFiniteSet(s) /\ SumOf(w, s) \in Nat
      BY FS_Subset, SumAny
    <2>2. CASE T = s
      BY <2>1, <2>2
    <2>3. CASE T # s
      <3>1. PICK e \in s : e \notin T
        BY <2>3
      <3>2. /\ IsFiniteSet(s \ {e}) /\ Cardinality(s \ {e}) = n - 1
            /\ Cardinality(s \ {e}) \in Nat /\ T \subseteq s \ {e}
        BY <2>1, <3>1, FS_RemoveElement, FS_CardinalityType
      <3>3. SumOf(w, T) <= SumOf(w, s \ {e})
        <4>1. n - 1 \in 0..(n - 1)
          BY <3>2
        <4>2. QED
          BY <1>1, <3>2, <4>1
      <3>4. SumOf(w, s) = w[e] + SumOf(w, s \ {e}) /\ w[e] \in Nat
        BY <2>1, SumAny
      <3>5. SumOf(w, s \ {e}) \in Nat
        BY <3>2, SumAny
      <3>6. IsFiniteSet(T) /\ SumOf(w, T) \in Nat
        BY FS_Subset, SumAny
      <3>7. QED
        BY <3>3, <3>4, <3>5, <3>6
    <2>4. QED
      BY <2>2, <2>3
  <1> HIDE DEF Good
  <1>2. \A n \in Nat : n \in Good
    BY <1>1, CountUp
  <1>3. Cardinality(S) \in Nat
    BY FS_CardinalityType
  <1>4. QED
    BY <1>2, <1>3 DEF Good

-----------------------------------------------------------------------------
(* The stops of a route. *)

\* The counts of a place's visits go up, so no two stops share an id.
LEMMA IdsDiffer ==
  ASSUME NEW n \in Nat, NEW s, DOMAIN s = 1..n, NEW i \in 1..n, NEW j \in 1..n,
         StopIds(s)[i] = StopIds(s)[j]
  PROVE  i = j
  <1> DEFINE Upto(m) == {k \in 1..m : s[k].place = s[m].place}
  <1>1. \A m \in 1..n : StopIds(s)[m] = <<s[m].place, Cardinality(Upto(m))>>
    BY DEF StopIds
  <1>2. s[i].place = s[j].place /\ Cardinality(Upto(i)) = Cardinality(Upto(j))
    <2> HIDE DEF Upto
    <2>1. /\ StopIds(s)[i] = <<s[i].place, Cardinality(Upto(i))>>
          /\ StopIds(s)[j] = <<s[j].place, Cardinality(Upto(j))>>
      BY <1>1
    <2>2. <<s[i].place, Cardinality(Upto(i))>> = <<s[j].place, Cardinality(Upto(j))>>
      BY <2>1
    <2>3. QED
      BY ONLY <2>2
  <1>3. \A m \in 1..n : IsFiniteSet(Upto(m)) /\ m \in Upto(m)
    <2> TAKE m \in 1..n
    <2>1. Upto(m) \subseteq 1..m /\ m \in Upto(m)
      OBVIOUS
    <2>2. IsFiniteSet(1..m)
      BY FS_Interval
    <2>3. QED
      BY <2>1, <2>2, FS_Subset
  <1>4. ASSUME NEW a \in 1..n, NEW b \in 1..n, a < b, s[a].place = s[b].place,
               Cardinality(Upto(a)) = Cardinality(Upto(b))
        PROVE  FALSE
    <2>1. Upto(a) \subseteq Upto(b) /\ b \notin Upto(a)
      BY <1>4
    <2>2. IsFiniteSet(Upto(b)) /\ b \in Upto(b)
      BY <1>3
    <2> HIDE DEF Upto
    <2>3. Upto(a) = Upto(b)
      BY <1>4, <2>1, <2>2, FS_Subset
    <2>4. QED
      BY <2>1, <2>2, <2>3
  <1>5. QED
    BY <1>2, <1>4

Kept(route, total) ==
  SubSeq(route.stops, 1, IF Len(route.stops) < total THEN Len(route.stops) ELSE total)

LEMMA KeptStops ==
  ASSUME NEW route \in Proposal, NEW total \in Nat \ {0}, route.stops # <<>>
  PROVE  \E n \in Nat \ {0} :
           /\ n <= total /\ n <= Len(route.stops)
           /\ Kept(route, total) \in [1..n -> Stop] /\ Len(Kept(route, total)) = n
           /\ \A i \in 1..n : Kept(route, total)[i] = route.stops[i]
  <1>1. route.stops \in Seq(Stop) /\ Len(route.stops) # 0
    BY DEF Proposal, SeqOf
  <1> DEFINE n == IF Len(route.stops) < total THEN Len(route.stops) ELSE total
  <1>2. n \in Nat \ {0} /\ n <= total /\ n <= Len(route.stops)
    BY <1>1
  <1>3. Kept(route, total) = SubSeq(route.stops, 1, n)
    BY DEF Kept
  <1> HIDE DEF n
  <1>4. /\ Len(SubSeq(route.stops, 1, n)) = n
        /\ SubSeq(route.stops, 1, n) = [i \in 1..n |-> route.stops[i]]
    <2>1. SubSeq(route.stops, 1, n) \in Seq(Stop) /\ Len(SubSeq(route.stops, 1, n)) = n
          /\ \A i \in 1..n : SubSeq(route.stops, 1, n)[i] = route.stops[1 + i - 1]
      BY <1>1, <1>2, SubSeqProperties
    <2>2. QED
      BY <2>1, <1>2
  <1>5. \A i \in 1..n : route.stops[i] \in Stop
    BY <1>1, <1>2
  <1>6. Kept(route, total) \in [1..n -> Stop] /\ Len(Kept(route, total)) = n
    BY <1>3, <1>4, <1>5
  <1>7. \A i \in 1..n : Kept(route, total)[i] = route.stops[i]
    BY <1>3, <1>4
  <1>8. QED
    BY <1>2, <1>6, <1>7

LEMMA ShapedStops ==
  ASSUME NEW route \in Proposal, NEW total \in Nat \ {0},
         ShapeRoute(route, total).status = "multi_stop_provisional"
  PROVE  \E n \in Nat \ {0} :
           /\ DOMAIN ShapeRoute(route, total).stops = 1..n /\ Len(ShapeRoute(route, total).stops) = n
           /\ \A i \in 1..n :
                ShapeRoute(route, total).stops[i].id = StopIds(Kept(route, total))[i]
           /\ DOMAIN Kept(route, total) = 1..n
           /\ \A i \in 1..n : Kept(route, total)[i].place \in Places
  <1>1. route.stops # <<>> /\ route.status # "single_destination"
    BY DEF ShapeRoute, EmptyResult
  <1>2. PICK n \in Nat \ {0} : Kept(route, total) \in [1..n -> Stop]
    BY <1>1, KeptStops
  <1> DEFINE ids == StopIds(Kept(route, total))
             nights == NormalizeNights([i \in DOMAIN Kept(route, total) |->
                                          AtLeastOne(Kept(route, total)[i].hint)], total)
             byDay == StopsByDay(ids, nights)
  <1>3. ShapeRoute(route, total).stops =
          [i \in DOMAIN ids |-> [id |-> ids[i], nights |-> nights[i],
                                 arrival |-> FirstOf(DaysOf(byDay, ids[i])),
                                 departure |-> LastOf(DaysOf(byDay, ids[i])) + 1]]
    BY <1>1 DEF ShapeRoute, Kept
  <1>4. DOMAIN ids = 1..n
    BY <1>2 DEF StopIds
  <1> HIDE DEF ids, nights, byDay
  <1>5. /\ DOMAIN ShapeRoute(route, total).stops = 1..n
        /\ \A i \in 1..n : ShapeRoute(route, total).stops[i].id = ids[i]
    BY <1>3, <1>4
  <1>6. Len(ShapeRoute(route, total).stops) = n
    BY <1>2, <1>3, <1>4
  <1>7. \A i \in 1..n : Kept(route, total)[i].place \in Places
    BY <1>2 DEF Stop
  <1>8. QED
    BY <1>2, <1>5, <1>6, <1>7 DEF ids

-----------------------------------------------------------------------------
(* Nights: their total, and what scaling them to the trip leaves of it. *)

LEMMA TotalIsSum ==
  ASSUME NEW n \in Nat, NEW ns \in [1..n -> Nat]
  PROVE  Total(ns) = SumOf(ns, 1..n) /\ Total(ns) \in Nat
  <1>1. Total(ns) = SumOf(ns, DOMAIN ns)
    BY DEF Total, FoldFunction, FoldFunctionOnSet, MapThenFoldSet, Chosen, SumOf, Sums
  <1>2. IsFiniteSet(1..n)
    BY FS_Interval
  <1>3. SumOf(ns, 1..n) \in Nat
    <2>1. \A i \in 1..n : ns[i] \in Nat
      OBVIOUS
    <2>2. QED
      BY <1>2, <2>1, SumAny
  <1>4. QED
    BY <1>1, <1>3

\* One stop's nights changed.
LEMMA TotalExcept ==
  ASSUME NEW n \in Nat, NEW ns \in [1..n -> Nat], NEW i \in 1..n, NEW x \in Nat
  PROVE  /\ Total([ns EXCEPT ![i] = x]) = x + (Total(ns) - ns[i])
         /\ Total(ns) >= ns[i]
  <1> DEFINE ms == [ns EXCEPT ![i] = x]
             rest == (1..n) \ {i}
  <1>1. IsFiniteSet(1..n) /\ IsFiniteSet(rest) /\ ms \in [1..n -> Nat] /\ ms[i] = x
    <2>1. IsFiniteSet(1..n)
      BY FS_Interval
    <2>2. IsFiniteSet(rest)
      BY <2>1, FS_RemoveElement
    <2>3. ms \in [1..n -> Nat] /\ ms[i] = x
      OBVIOUS
    <2>4. QED
      BY <2>1, <2>2, <2>3
  <1>2. \A j \in rest : ms[j] = ns[j] /\ ns[j] \in Nat
    OBVIOUS
  <1> HIDE DEF ms, rest
  <1>3. SumOf(ms, rest) = SumOf(ns, rest) /\ SumOf(ns, rest) \in Nat
    BY <1>1, <1>2, SumSame, SumAny
  <1>4. SumOf(ms, 1..n) = x + SumOf(ms, rest)
    <2>1. \A j \in 1..n : ms[j] \in Nat
      BY <1>1
    <2>2. SumOf(ms, 1..n) = ms[i] + SumOf(ms, (1..n) \ {i})
      BY <1>1, <2>1, SumAny
    <2>3. QED
      BY <1>1, <2>2 DEF rest
  <1>5. SumOf(ns, 1..n) = ns[i] + SumOf(ns, rest)
    <2>1. \A j \in 1..n : ns[j] \in Nat
      OBVIOUS
    <2>2. SumOf(ns, 1..n) = ns[i] + SumOf(ns, (1..n) \ {i})
      BY <1>1, <2>1, SumAny
    <2>3. QED
      BY <2>2 DEF rest
  <1>6. Total(ms) = SumOf(ms, 1..n) /\ Total(ns) = SumOf(ns, 1..n)
    BY <1>1, TotalIsSum
  <1>7. ns[i] \in Nat
    OBVIOUS
  <1>8. QED
    BY <1>3, <1>4, <1>5, <1>6, <1>7 DEF ms

LEMMA SumOfOnes ==
  ASSUME NEW S, IsFiniteSet(S), NEW w, \A e \in S : w[e] = 1
  PROVE  SumOf(w, S) = Cardinality(S)
  <1> DEFINE Good == {n \in Nat : \A s \in SUBSET S : Cardinality(s) = n => SumOf(w, s) = n}
  <1>1. ASSUME NEW n \in Nat, \A m \in 0..(n - 1) : m \in Good PROVE n \in Good
    <2> SUFFICES ASSUME NEW s \in SUBSET S, Cardinality(s) = n PROVE SumOf(w, s) = n
      OBVIOUS
    <2>1. IsFiniteSet(s)
      BY FS_Subset
    <2>2. CASE s = {}
      BY <2>2, SumStep, FS_EmptySet
    <2>3. CASE s # {}
      <3>1. Chosen(s) \in s /\ n # 0
        BY <2>1, <2>3, ChosenIn, FS_EmptySet
      <3>2. IsFiniteSet(s \ {Chosen(s)}) /\ Cardinality(s \ {Chosen(s)}) = n - 1
        BY <2>1, <3>1, FS_RemoveElement
      <3>3. SumOf(w, s \ {Chosen(s)}) = n - 1
        <4>1. n - 1 \in 0..(n - 1)
          BY <3>1
        <4>2. QED
          BY <1>1, <3>2, <4>1
      <3>4. SumOf(w, s) = w[Chosen(s)] + SumOf(w, s \ {Chosen(s)})
        BY <2>1, <2>3, SumStep
      <3>5. w[Chosen(s)] = 1
        BY <3>1
      <3>6. QED
        BY <3>3, <3>4, <3>5
    <2>4. QED
      BY <2>2, <2>3
  <1> HIDE DEF Good
  <1>2. \A n \in Nat : n \in Good
    BY <1>1, CountUp
  <1>3. Cardinality(S) \in Nat
    BY FS_CardinalityType
  <1>4. QED
    BY <1>2, <1>3 DEF Good

LEMMA RoundIsNat ==
  ASSUME NEW a \in Nat, NEW b \in Nat \ {0}
  PROVE  Round(a, b) \in Nat
  <1>1. PICK c \in Nat : c = 2 * a + b
    OBVIOUS
  <1>2. PICK d \in Nat \ {0} : d = 2 * b
    OBVIOUS
  <1>3. c \div d \in Nat
    BY <1>1, <1>2
  <1>4. PICK up \in Nat : up = c \div d
    BY <1>3
  <1>5. up % 2 = 1 => up - 1 \in Nat
    OBVIOUS
  <1>6. QED
    BY <1>1, <1>2, <1>4, <1>5 DEF Round

Nights(n) == [1..n -> Nat \ {0}]

\* Every stop has a night, and together they have no fewer than the trip.
LEMMA ScaledEnough ==
  ASSUME NEW n \in Nat \ {0}, NEW hints \in Nights(n), NEW total \in Nat \ {0}
  PROVE  Scaled(hints, total) \in Nights(n) /\ Total(Scaled(hints, total)) >= total
  <1>1. hints \in [1..n -> Nat] /\ n \in 1..n /\ \A i \in 1..n : hints[i] \in Nat \ {0}
    BY DEF Nights
  <1>2. Total(hints) \in Nat \ {0}
    <2>1. Total(hints) \in Nat
      BY <1>1, TotalIsSum
    <2>2. Total(hints) >= hints[n] /\ hints[n] \in Nat \ {0}
      BY <1>1, TotalExcept
    <2>3. QED
      BY <2>1, <2>2
  <1> DEFINE nights == [i \in DOMAIN hints |-> AtLeastOne(Round(hints[i] * total, Total(hints)))]
             others == Total(nights) - nights[n]
             last == IF total > others THEN total - others ELSE 1
  <1>3. nights \in Nights(n)
    <2> SUFFICES ASSUME NEW i \in 1..n
                 PROVE  AtLeastOne(Round(hints[i] * total, Total(hints))) \in Nat \ {0}
      BY <1>1 DEF Nights
    <2>1. hints[i] * total \in Nat
      BY <1>1
    <2>2. Round(hints[i] * total, Total(hints)) \in Nat
      BY <1>2, <2>1, RoundIsNat
    <2>3. QED
      BY <2>2 DEF AtLeastOne
  <1>4. Len(nights) = n
    BY <1>1
  <1>5. Scaled(hints, total) = [nights EXCEPT ![n] = last]
    BY <1>4 DEF Scaled
  <1> HIDE DEF nights
  <1>6. nights \in [1..n -> Nat] /\ nights[n] \in Nat
    BY <1>3 DEF Nights
  <1>7. Total(nights) \in Nat /\ Total(nights) >= nights[n]
    BY <1>1, <1>6, TotalIsSum, TotalExcept
  <1>8. last \in Nat \ {0} /\ others \in Nat /\ last + others >= total
    <2>1. others \in Nat
      BY <1>6, <1>7
    <2> HIDE DEF others
    <2>2. QED
      BY <2>1
  <1> HIDE DEF last
  <1>9. Total([nights EXCEPT ![n] = last]) = last + others
    BY <1>1, <1>6, <1>8, TotalExcept
  <1>10. [nights EXCEPT ![n] = last] \in Nights(n)
    BY <1>3, <1>8 DEF Nights
  <1>11. QED
    BY <1>5, <1>8, <1>9, <1>10

-----------------------------------------------------------------------------
(* The loop that takes the nights that are too many, one at a time. *)

LEMMA RoundTrip ==
  ASSUME NEW n \in Nat \ {0}, NEW r \in Nat, NEW c \in 0..(n - 1)
  PROVE  (r * n + c) % n = c
  <1>1. PICK a \in Nat : a = r * n + c
    OBVIOUS
  <1>2. PICK q \in Int, m \in Int : q = a \div n /\ m = a % n
    OBVIOUS
  <1>3. a = n * q + m /\ 0 <= m /\ m < n
    BY <1>2
  <1>4. n * (q - r) = c - m
    BY <1>1, <1>3
  <1>5. q = r
    BY <1>3, <1>4
  <1>6. QED
    BY <1>1, <1>2, <1>4, <1>5

NudgeAt(v, k, n, total) ==
  LET i == ((k - 1) % n) + 1
  IN  IF Total(v) > total /\ v[i] > 1 THEN [v EXCEPT ![i] = @ - 1] ELSE v

\* h is the fold of the loop over every set of its steps.
NudgesBy(h, nights, steps, n, total) ==
  h = [s \in SUBSET (1..steps) |->
         IF s = {} THEN nights ELSE NudgeAt(h[s \ {Max(s)}], Max(s), n, total)]

LEMMA GreatestIn ==
  ASSUME NEW n \in Nat, NEW s \in SUBSET (1..n), s # {}
  PROVE  Max(s) \in s /\ \A k \in s : k <= Max(s)
  <1> DEFINE Bounds == {m \in Nat : \A t \in SUBSET (1..m) : t # {} => \E x \in t : \A k \in t : x >= k}
  <1>1. ASSUME NEW m \in Nat, \A l \in 0..(m - 1) : l \in Bounds PROVE m \in Bounds
    <2> SUFFICES ASSUME NEW t \in SUBSET (1..m), t # {} PROVE \E x \in t : \A k \in t : x >= k
      OBVIOUS
    <2>1. CASE m \in t
      BY <2>1
    <2>2. CASE m \notin t
      <3>a. PICK y \in t : y \in 1..m
        OBVIOUS
      <3>b. m - 1 \in 0..(m - 1)
        BY <3>a
      <3>c. \A k \in t : k \in 1..(m - 1)
        BY <2>2
      <3>1. t \in SUBSET (1..(m - 1)) /\ m - 1 \in 0..(m - 1)
        BY <3>b, <3>c
      <3>2. QED
        BY <1>1, <3>1
    <2>3. QED
      BY <2>1, <2>2
  <1> HIDE DEF Bounds
  <1>2. n \in Bounds
    BY <1>1, CountUp
  <1>3. PICK x \in s : \A k \in s : x >= k
    BY <1>2 DEF Bounds
  <1>4. Max(s) \in s /\ \A k \in s : Max(s) >= k
    BY <1>3 DEF Max
  <1>5. QED
    BY <1>4

LEMMA NudgesExist ==
  ASSUME NEW steps \in Nat, NEW nights, NEW n, NEW total
  PROVE  \E h : NudgesBy(h, nights, steps, n, total)
  <1> DEFINE Has == {m \in Nat : \E h : NudgesBy(h, nights, m, n, total)}
  <1>1. ASSUME NEW m \in Nat, \A l \in 0..(m - 1) : l \in Has PROVE m \in Has
    <2> SUFFICES \E h : NudgesBy(h, nights, m, n, total)
      OBVIOUS
    <2>1. CASE m = 0
      <3> DEFINE h == [s \in SUBSET (1..m) |-> nights]
      <3>1. SUBSET (1..m) = {{}}
        BY <2>1
      <3>2. h = [s \in SUBSET (1..m) |-> IF s = {} THEN nights ELSE NudgeAt(h[s \ {Max(s)}], Max(s), n, total)]
        BY <3>1
      <3>3. QED
        BY <3>2 DEF NudgesBy
    <2>2. CASE m # 0
      <3>1. m - 1 \in 0..(m - 1)
        BY <2>2
      <3>2. PICK g : NudgesBy(g, nights, m - 1, n, total)
        BY <1>1, <3>1
      <3> DEFINE h == [s \in SUBSET (1..m) |->
                         IF m \in s THEN NudgeAt(g[s \ {m}], m, n, total) ELSE g[s]]
      <3>3. ASSUME NEW s \in SUBSET (1..m)
            PROVE  h[s] = IF s = {} THEN nights ELSE NudgeAt(h[s \ {Max(s)}], Max(s), n, total)
        <4>1. \A t \in SUBSET (1..(m - 1)) :
                 g[t] = IF t = {} THEN nights ELSE NudgeAt(g[t \ {Max(t)}], Max(t), n, total)
          <5>1. PICK f : f = g
            OBVIOUS
          <5>2. QED
            BY <3>2 DEF NudgesBy
        <4>2. CASE m \in s
          <5>1. Max(s) = m /\ s # {}
            <6>1. PICK x : x = Max(s)
              OBVIOUS
            <6>2. x \in s /\ m <= x
              BY <4>2, <6>1, GreatestIn
            <6>3. x \in 1..m
              BY <6>2
            <6>4. x = m
              BY <6>2, <6>3
            <6>5. QED
              BY <4>2, <6>1, <6>4
          <5>2. s \ {m} \in SUBSET (1..m) /\ m \notin s \ {m}
            OBVIOUS
          <5>3. h[s \ {m}] = g[s \ {m}] /\ h[s] = NudgeAt(g[s \ {m}], m, n, total)
            BY <4>2, <5>2
          <5> HIDE DEF h
          <5>4. QED
            BY <5>1, <5>3
        <4>3. CASE m \notin s
          <5>1. s \in SUBSET (1..(m - 1)) /\ h[s] = g[s]
            BY <4>3
          <5>2. s # {} => Max(s) \in s
            BY GreatestIn
          <5>3. s # {} => h[s \ {Max(s)}] = g[s \ {Max(s)}]
            BY <4>3, <5>2
          <5> HIDE DEF h
          <5>4. QED
            BY <4>1, <5>1, <5>3
        <4>4. QED
          BY <4>2, <4>3
      <3>4. h = [s \in SUBSET (1..m) |-> h[s]]
        OBVIOUS
      <3>5. h = [s \in SUBSET (1..m) |-> IF s = {} THEN nights ELSE NudgeAt(h[s \ {Max(s)}], Max(s), n, total)]
        BY <3>3
      <3>6. QED
        BY <3>5 DEF NudgesBy
    <2>3. QED
      BY <2>1, <2>2
  <1> HIDE DEF Has
  <1>2. steps \in Has
    BY <1>1, CountUp
  <1>3. QED
    BY <1>2 DEF Has

LEMMA NudgeOnce ==
  ASSUME NEW n \in Nat \ {0}, NEW v \in Nights(n), NEW total \in Nat, NEW i \in 1..n,
         NEW k, ((k - 1) % n) + 1 = i
  PROVE  /\ NudgeAt(v, k, n, total) \in Nights(n)
         /\ Total(v) > total /\ v[i] > 1 => Total(NudgeAt(v, k, n, total)) = Total(v) - 1
         /\ ~(Total(v) > total /\ v[i] > 1) => NudgeAt(v, k, n, total) = v
  <1>1. NudgeAt(v, k, n, total) = IF Total(v) > total /\ v[i] > 1 THEN [v EXCEPT ![i] = v[i] - 1] ELSE v
    BY DEF NudgeAt
  <1>2. v \in [1..n -> Nat] /\ v[i] \in Nat /\ Total(v) \in Nat
    BY TotalIsSum DEF Nights
  <1>3. CASE Total(v) > total /\ v[i] > 1
    <2>1. v[i] - 1 \in Nat \ {0}
      BY <1>2, <1>3
    <2>2. Total([v EXCEPT ![i] = v[i] - 1]) = (v[i] - 1) + (Total(v) - v[i])
      <3>1. PICK x \in Nat : x = v[i] - 1
        BY <2>1
      <3>2. Total([v EXCEPT ![i] = x]) = x + (Total(v) - v[i])
        BY ONLY n \in Nat \ {0}, i \in 1..n, <1>2, x \in Nat, TotalExcept
      <3>3. QED
        BY <3>1, <3>2
    <2>3. [v EXCEPT ![i] = v[i] - 1] \in Nights(n)
      BY <2>1 DEF Nights
    <2>4. QED
      BY <1>1, <1>2, <1>3, <2>2, <2>3
  <1>4. CASE ~(Total(v) > total /\ v[i] > 1)
    BY <1>1, <1>4
  <1>5. QED
    BY <1>3, <1>4

\* After r rounds and c stops of the next one: the total is the trip's, or it is
\* lower by one for every round, or no stop of this round had a night to give.
Lowered(v, r, c, n, total, before) ==
  /\ v \in Nights(n) /\ Total(v) >= total
  /\ \/ Total(v) = total
     \/ Total(v) + r + 1 <= before
     \/ Total(v) + r <= before /\ \A i \in 1..c : v[i] = 1

LEMMA LoweredOnce ==
  ASSUME NEW n \in Nat \ {0}, NEW total \in Nat, NEW before \in Nat, NEW r \in Nat, NEW c \in 0..(n - 1),
         NEW v, Lowered(v, r, c, n, total, before), NEW k, k = r * n + c + 1
  PROVE  Lowered(NudgeAt(v, k, n, total), r, c + 1, n, total, before)
  <1> PICK u : u = NudgeAt(v, k, n, total)
    OBVIOUS
  <1> SUFFICES Lowered(u, r, c + 1, n, total, before)
    OBVIOUS
  <1>1. v \in Nights(n) /\ Total(v) \in Nat /\ v[c + 1] \in Nat \ {0}
    <2>1. v \in Nights(n) /\ v \in [1..n -> Nat] /\ c + 1 \in 1..n
      BY DEF Lowered, Nights
    <2>2. QED
      BY <2>1, TotalIsSum DEF Nights
  <1>2. /\ u \in Nights(n)
        /\ Total(v) > total /\ v[c + 1] > 1 => Total(u) = Total(v) - 1
        /\ ~(Total(v) > total /\ v[c + 1] > 1) => u = v
    <2>1. k - 1 = r * n + c
      OBVIOUS
    <2>2. ((k - 1) % n) + 1 = c + 1
      BY <2>1, RoundTrip
    <2>3. PICK i \in 1..n : i = c + 1
      OBVIOUS
    <2>4. QED
      BY ONLY n \in Nat \ {0}, total \in Nat, u = NudgeAt(v, k, n, total), <1>1, <2>2, <2>3, NudgeOnce
  <1>3. CASE Total(v) > total /\ v[c + 1] > 1
    BY <1>1, <1>2, <1>3 DEF Lowered
  <1>4. CASE Total(v) > total /\ ~(v[c + 1] > 1)
    <2>1. v[c + 1] = 1 /\ u = v
      BY <1>1, <1>2, <1>4
    <2>2. (\A i \in 1..c : v[i] = 1) => \A i \in 1..(c + 1) : v[i] = 1
      BY <2>1
    <2>3. QED
      BY <1>1, <2>1, <2>2 DEF Lowered
  <1>5. CASE ~(Total(v) > total)
    <2>1. Total(v) = total /\ u = v
      BY <1>1, <1>2, <1>5 DEF Lowered
    <2>2. QED
      BY <1>1, <2>1 DEF Lowered
  <1>6. QED
    BY <1>3, <1>4, <1>5

\* A round with nothing to give has a night for every stop and no more.
LEMMA LoweredByARound ==
  ASSUME NEW n \in Nat \ {0}, NEW total \in Nat, n <= total, NEW before \in Nat, NEW r \in Nat,
         NEW v, Lowered(v, r, n, n, total, before)
  PROVE  Lowered(v, r + 1, 0, n, total, before)
  <1>1. v \in [1..n -> Nat] /\ Total(v) \in Nat /\ Total(v) >= total
    <2>1. v \in [1..n -> Nat]
      BY DEF Lowered, Nights
    <2>2. QED
      BY <2>1, TotalIsSum DEF Lowered
  <1>2. ASSUME \A i \in 1..n : v[i] = 1 PROVE Total(v) = total
    <2>1. IsFiniteSet(1..n) /\ Cardinality(1..n) = n
      BY FS_Interval
    <2>2. SumOf(v, 1..n) = n
      BY <1>2, <2>1, SumOfOnes
    <2>3. QED
      BY <1>1, <2>2, TotalIsSum
  <1>3. QED
    BY <1>1, <1>2 DEF Lowered

LEMMA NudgesStep ==
  ASSUME NEW steps \in Nat, NEW h, NEW nights, NEW n, NEW total, NudgesBy(h, nights, steps, n, total)
  PROVE  /\ h[1..0] = nights
         /\ \A k \in 1..steps : h[1..k] = NudgeAt(h[1..(k - 1)], k, n, total)
  <1>1. \A s \in SUBSET (1..steps) : h[s] = IF s = {} THEN nights ELSE NudgeAt(h[s \ {Max(s)}], Max(s), n, total)
    <2>1. PICK f : f = [s \in SUBSET (1..steps) |-> IF s = {} THEN nights ELSE NudgeAt(h[s \ {Max(s)}], Max(s), n, total)]
      OBVIOUS
    <2>2. h = f
      BY <2>1 DEF NudgesBy
    <2>3. QED
      BY <2>1, <2>2
  <1>2. h[1..0] = nights
    <2>1. 1..0 = {}
      OBVIOUS
    <2>2. QED
      BY <1>1, <2>1
  <1>3. ASSUME NEW k \in 1..steps PROVE h[1..k] = NudgeAt(h[1..(k - 1)], k, n, total)
    <2>1. 1..k \in SUBSET (1..steps) /\ 1..k # {} /\ (1..k) \ {k} = 1..(k - 1)
      OBVIOUS
    <2>2. Max(1..k) = k
      <3>1. PICK x : x = Max(1..k)
        OBVIOUS
      <3>2. x \in 1..k /\ \A y \in 1..k : y <= x
        BY <2>1, <3>1, GreatestIn
      <3>3. x = k
        BY <3>2
      <3>4. QED
        BY <3>1, <3>3
    <2>3. QED
      BY <1>1, <2>1, <2>2
  <1>4. QED
    BY <1>2, <1>3

LEMMA NudgesLower ==
  ASSUME NEW n \in Nat \ {0}, NEW nights \in Nights(n), NEW total \in Nat, n <= total,
         NEW excess \in Nat, Total(nights) = total + excess,
         NEW h, NudgesBy(h, nights, n * excess, n, total)
  PROVE  h[1..(n * excess)] \in Nights(n) /\ Total(h[1..(n * excess)]) = total
  <1> DEFINE before == total + excess
             Rounds == {r \in Nat : r <= excess => Lowered(h[1..(r * n)], r, 0, n, total, before)}
  <1>a. n * excess \in Nat
    OBVIOUS
  <1>b. /\ h[1..0] = nights
        /\ \A k \in 1..(n * excess) : h[1..k] = NudgeAt(h[1..(k - 1)], k, n, total)
    BY <1>a, NudgesStep
  <1>1. ASSUME NEW r \in Nat, \A q \in 0..(r - 1) : q \in Rounds PROVE r \in Rounds
    <2> SUFFICES ASSUME r <= excess PROVE Lowered(h[1..(r * n)], r, 0, n, total, before)
      OBVIOUS
    <2>1. CASE r = 0
      <3>1. r * n = 0
        BY <2>1
      <3>2. h[1..(r * n)] = nights
        BY <1>b, <3>1
      <3>3. Total(nights) + r <= before /\ Total(nights) >= total /\ 1..0 = {}
        BY <2>1
      <3>4. QED
        BY <3>2, <3>3 DEF Lowered
    <2>2. CASE r # 0
      <3>1. PICK q \in Nat : r = q + 1 /\ q \in 0..(r - 1) /\ q <= excess
        <4>1. r - 1 \in Nat /\ r = (r - 1) + 1 /\ r - 1 \in 0..(r - 1) /\ r - 1 <= excess
          BY <2>2
        <4>2. QED
          BY <4>1
      <3>2. Lowered(h[1..(q * n)], q, 0, n, total, before)
        BY <1>1, <3>1
      <3>3. r * n = q * n + n /\ q * n \in Nat
        BY <3>1
      <3>4. r * n <= n * excess
        OBVIOUS
      <3>5. PICK a \in Nat : a = q * n
        BY <3>3
      <3> DEFINE Stops == {c \in Nat : c <= n => Lowered(h[1..(a + c)], q, c, n, total, before)}
      <3>6. ASSUME NEW c \in Nat, \A b \in 0..(c - 1) : b \in Stops PROVE c \in Stops
        <4> SUFFICES ASSUME c <= n PROVE Lowered(h[1..(a + c)], q, c, n, total, before)
          OBVIOUS
        <4>1. CASE c = 0
          <5>1. a + c = q * n
            BY <3>5, <4>1
          <5>2. QED
            BY <3>2, <4>1, <5>1
        <4>2. CASE c # 0
          <5>1. PICK b \in 0..(n - 1) : c = b + 1 /\ b \in 0..(c - 1)
            <6>1. c - 1 \in 0..(n - 1) /\ c = (c - 1) + 1 /\ c - 1 \in 0..(c - 1)
              BY <4>2
            <6>2. QED
              BY <6>1
          <5>2. Lowered(h[1..(a + b)], q, b, n, total, before)
            <6>1. b \in Stops
              BY <3>6, <5>1
            <6>2. b <= n
              BY <5>1
            <6>3. QED
              BY <6>1, <6>2
          <5>3. PICK k \in Nat : k = a + c
            OBVIOUS
          <5>4. k \in 1..(n * excess) /\ k - 1 = a + b
            BY <3>3, <3>4, <3>5, <5>1, <5>3
          <5>5. k = q * n + b + 1
            BY <3>5, <5>1, <5>3
          <5>6. h[1..k] = NudgeAt(h[1..(a + b)], k, n, total)
            BY <1>b, <5>4
          <5>7. before \in Nat
            OBVIOUS
          <5> HIDE DEF before
          <5>8. Lowered(NudgeAt(h[1..(a + b)], k, n, total), q, b + 1, n, total, before)
            BY <5>2, <5>5, <5>7, LoweredOnce
          <5>9. QED
            BY <5>1, <5>3, <5>6, <5>8
        <4>3. QED
          BY <4>1, <4>2
      <3> HIDE DEF Stops
      <3>7. n \in Stops
        BY <3>6, CountUp
      <3>8. Lowered(h[1..(a + n)], q, n, n, total, before)
        BY <3>7 DEF Stops
      <3>9. a + n = r * n
        BY <3>3, <3>5
      <3>10. before \in Nat
        OBVIOUS
      <3> HIDE DEF before
      <3>11. Lowered(h[1..(r * n)], q + 1, 0, n, total, before)
        BY <3>8, <3>9, <3>10, LoweredByARound
      <3>12. QED
        BY <3>1, <3>11
    <2>3. QED
      BY <2>1, <2>2
  <1> HIDE DEF Rounds
  <1>2. excess \in Rounds
    BY <1>1, CountUp
  <1>3. Lowered(h[1..(excess * n)], excess, 0, n, total, before)
    BY <1>2 DEF Rounds
  <1>4. excess * n = n * excess
    OBVIOUS
  <1>5. PICK v : v = h[1..(n * excess)]
    OBVIOUS
  <1>6. v \in Nights(n) /\ v \in [1..n -> Nat] /\ Total(v) >= total /\ (Total(v) = total \/ Total(v) + excess <= before)
    <2>1. Lowered(v, excess, 0, n, total, before)
      BY <1>3, <1>4, <1>5
    <2>2. v \in Nights(n) /\ v \in [1..n -> Nat]
      BY <2>1 DEF Lowered, Nights
    <2>3. Total(v) \in Nat
      BY <2>2, TotalIsSum
    <2>4. QED
      BY <2>1, <2>2, <2>3 DEF Lowered
  <1>7. Total(v) \in Nat
    BY <1>6, TotalIsSum
  <1>8. Total(v) = total
    BY <1>6, <1>7
  <1>9. QED
    BY <1>5, <1>6, <1>8

LEMMA ForceTotalExact ==
  ASSUME NEW n \in Nat \ {0}, NEW nights \in Nights(n), NEW total \in Nat, n <= total, Total(nights) >= total
  PROVE  ForceTotal(nights, total) \in Nights(n) /\ Total(ForceTotal(nights, total)) = total
  <1>1. nights \in [1..n -> Nat] /\ Len(nights) = n
    BY DEF Nights
  <1>2. Total(nights) \in Nat
    BY <1>1, TotalIsSum
  <1>3. PICK excess \in Nat : Total(nights) = total + excess
    <2>1. Total(nights) - total \in Nat /\ Total(nights) = total + (Total(nights) - total)
      BY <1>2
    <2>2. QED
      BY <2>1
  <1>4. PICK steps \in Nat : steps = IF Total(nights) > total THEN n * (Total(nights) - total) ELSE 0
    BY <1>2
  <1>5. steps = n * excess
    BY <1>2, <1>3, <1>4
  <1> DEFINE seq == [k \in 1..steps |-> k]
             Folds(h) == h = [s \in SUBSET DOMAIN seq |->
                                IF s = {} THEN nights ELSE NudgeAt(h[s \ {Max(s)}], seq[Max(s)], n, total)]
  <1>6. ForceTotal(nights, total) = (CHOOSE h : Folds(h))[DOMAIN seq]
    BY <1>1, <1>4 DEF ForceTotal, FoldLeft, MapThenFoldSet, NudgeAt
  <1>7. ASSUME NEW h PROVE Folds(h) <=> NudgesBy(h, nights, steps, n, total)
    <2>1. \A s \in SUBSET (1..steps) : s # {} => seq[Max(s)] = Max(s)
      BY GreatestIn
    <2>2. DOMAIN seq = 1..steps
      OBVIOUS
    <2> HIDE DEF seq
    <2>3. [s \in SUBSET DOMAIN seq |-> IF s = {} THEN nights ELSE NudgeAt(h[s \ {Max(s)}], seq[Max(s)], n, total)]
          = [s \in SUBSET (1..steps) |-> IF s = {} THEN nights ELSE NudgeAt(h[s \ {Max(s)}], Max(s), n, total)]
      BY <2>1, <2>2
    <2>4. QED
      BY <2>3 DEF NudgesBy
  <1>8. DOMAIN seq = 1..steps
    OBVIOUS
  <1> HIDE DEF seq, Folds
  <1>9. PICK g : NudgesBy(g, nights, steps, n, total)
    BY NudgesExist
  <1>10. PICK h : h = CHOOSE f : Folds(f)
    OBVIOUS
  <1>11. NudgesBy(h, nights, steps, n, total)
    BY <1>7, <1>9, <1>10
  <1>12. ForceTotal(nights, total) = h[1..(n * excess)]
    BY <1>5, <1>6, <1>8, <1>10
  <1>13. NudgesBy(h, nights, n * excess, n, total)
    BY <1>5, <1>11
  <1>14. h[1..(n * excess)] \in Nights(n) /\ Total(h[1..(n * excess)]) = total
    BY <1>3, <1>13, NudgesLower
  <1>15. QED
    BY <1>12, <1>14

\* "Scale LLM-provided night counts so they sum exactly to trip_days".
LEMMA NormalizedNights ==
  ASSUME NEW n \in Nat \ {0}, NEW hints \in Nights(n), NEW total \in Nat, n <= total
  PROVE  NormalizeNights(hints, total) \in Nights(n) /\ Total(NormalizeNights(hints, total)) = total
  <1>1. total \in Nat \ {0}
    OBVIOUS
  <1>2. Scaled(hints, total) \in Nights(n) /\ Total(Scaled(hints, total)) >= total
    BY <1>1, ScaledEnough
  <1>3. QED
    BY <1>2, ForceTotalExact DEF NormalizeNights

-----------------------------------------------------------------------------
(* Sequences joined into one. *)

Joins(h, q, n) == h = [i \in 1..n |-> IF i = 1 THEN q[i] ELSE h[i - 1] \o q[i]]

LEMMA JoinsAt ==
  ASSUME NEW n \in Nat, NEW h, NEW q, Joins(h, q, n)
  PROVE  \A i \in 1..n : h[i] = IF i = 1 THEN q[i] ELSE h[i - 1] \o q[i]
  <1>1. PICK f : f = [i \in 1..n |-> IF i = 1 THEN q[i] ELSE h[i - 1] \o q[i]]
    OBVIOUS
  <1>2. h = f
    BY <1>1 DEF Joins
  <1>3. QED
    BY <1>1, <1>2

LEMMA JoinsExist ==
  ASSUME NEW n \in Nat, NEW q
  PROVE  \E h : Joins(h, q, n)
  <1> DEFINE Has == {m \in Nat : \E h : Joins(h, q, m)}
  <1>1. ASSUME NEW m \in Nat, \A l \in 0..(m - 1) : l \in Has PROVE m \in Has
    <2> SUFFICES \E h : Joins(h, q, m)
      OBVIOUS
    <2>1. CASE m = 0
      <3> DEFINE h == [i \in 1..m |-> q[i]]
      <3>1. 1..m = {}
        BY <2>1
      <3>2. h = [i \in 1..m |-> IF i = 1 THEN q[i] ELSE h[i - 1] \o q[i]]
        BY <3>1
      <3>3. QED
        BY <3>2 DEF Joins
    <2>2. CASE m # 0
      <3>1. m - 1 \in 0..(m - 1) /\ m - 1 \in Nat
        BY <2>2
      <3>2. PICK g : Joins(g, q, m - 1)
        BY <1>1, <3>1
      <3>3. \A i \in 1..(m - 1) : g[i] = IF i = 1 THEN q[i] ELSE g[i - 1] \o q[i]
        BY <3>1, <3>2, JoinsAt
      <3> DEFINE h == [i \in 1..m |-> IF i = m THEN IF i = 1 THEN q[i] ELSE g[i - 1] \o q[i] ELSE g[i]]
      <3>4. ASSUME NEW i \in 1..m
            PROVE  h[i] = IF i = 1 THEN q[i] ELSE h[i - 1] \o q[i]
        <4>1. i # 1 => i - 1 \in 1..m /\ i - 1 # m
          OBVIOUS
        <4>2. i # 1 => h[i - 1] = g[i - 1]
          BY <4>1
        <4>3. CASE i = m
          BY <4>2, <4>3
        <4>4. CASE i # m
          <5>1. i \in 1..(m - 1) /\ h[i] = g[i]
            BY <4>4
          <5> HIDE DEF h
          <5>2. QED
            BY <3>3, <4>2, <5>1
        <4>5. QED
          BY <4>3, <4>4
      <3>5. h = [i \in 1..m |-> IF i = 1 THEN q[i] ELSE h[i - 1] \o q[i]]
        BY <3>4
      <3>6. QED
        BY <3>5 DEF Joins
    <2>3. QED
      BY <2>1, <2>2
  <1> HIDE DEF Has
  <1>2. n \in Has
    BY <1>1, CountUp
  <1>3. QED
    BY <1>2 DEF Has

LEMMA FlattenJoins ==
  ASSUME NEW n \in Nat \ {0}, NEW q, DOMAIN q = 1..n, Len(q) = n
  PROVE  \E h : Joins(h, q, n) /\ FlattenSeq(q) = h[n]
  <1> DEFINE Flattens(h) == h = [i \in 1..n |-> IF i = 1 THEN q[i] ELSE h[i - 1] \o q[i]]
  <1>1. FlattenSeq(q) = (CHOOSE h : Flattens(h))[n]
    BY DEF FlattenSeq
  <1>2. PICK g : Flattens(g)
    BY JoinsExist DEF Joins
  <1>3. PICK h : h = CHOOSE f : Flattens(f)
    OBVIOUS
  <1>4. Flattens(h)
    BY <1>2, <1>3
  <1>5. Joins(h, q, n)
    BY <1>4 DEF Joins
  <1>6. FlattenSeq(q) = h[n]
    BY <1>1, <1>3
  <1>7. QED
    BY <1>5, <1>6

-----------------------------------------------------------------------------
(* The days of a route. *)

Before(ns, j) == SumOf(ns, 1..(j - 1))

LEMMA BeforeNext ==
  ASSUME NEW n \in Nat, NEW ns \in Nights(n)
  PROVE  /\ Before(ns, 1) = 0 /\ Before(ns, n + 1) = Total(ns)
         /\ \A j \in 1..n : /\ Before(ns, j) \in Nat /\ Before(ns, j + 1) \in Nat
                            /\ Before(ns, j + 1) = Before(ns, j) + ns[j]
  <1>1. ns \in [1..n -> Nat]
    BY DEF Nights
  <1>2. Before(ns, 1) = 0
    <2>1. 1..(1 - 1) = {}
      OBVIOUS
    <2>2. QED
      BY <2>1, FS_EmptySet, SumStep DEF Before
  <1>3. Before(ns, n + 1) = Total(ns)
    <2>1. (n + 1) - 1 = n
      OBVIOUS
    <2>2. QED
      BY <1>1, <2>1, TotalIsSum DEF Before
  <1>4. ASSUME NEW j \in 1..n
        PROVE  /\ Before(ns, j) \in Nat /\ Before(ns, j + 1) \in Nat
               /\ Before(ns, j + 1) = Before(ns, j) + ns[j]
    <2>1. (j + 1) - 1 = j /\ (1..j) \ {j} = 1..(j - 1) /\ j \in 1..j
      OBVIOUS
    <2>2. IsFiniteSet(1..j) /\ IsFiniteSet(1..(j - 1))
      BY FS_Interval
    <2>3. \A e \in 1..j : ns[e] \in Nat
      BY <1>1
    <2>4. SumOf(ns, 1..j) = ns[j] + SumOf(ns, (1..j) \ {j}) /\ SumOf(ns, 1..j) \in Nat
      BY <2>1, <2>2, <2>3, SumAny
    <2>5. \A e \in 1..(j - 1) : ns[e] \in Nat
      BY <2>3
    <2>6. SumOf(ns, 1..(j - 1)) \in Nat
      BY <2>2, <2>5, SumAny
    <2>7. ns[j] \in Nat
      BY <2>3
    <2>8. PICK a \in Nat : a = SumOf(ns, 1..(j - 1))
      BY <2>6
    <2>9. SumOf(ns, 1..j) = ns[j] + a
      BY <2>1, <2>4, <2>8
    <2>10. Before(ns, j) = a /\ Before(ns, j + 1) = ns[j] + a
      BY <2>1, <2>8, <2>9 DEF Before
    <2>11. QED
      BY <2>7, <2>10
  <1>5. QED
    BY <1>2, <1>3, <1>4

\* Every day of the trip is a night of exactly one stop.
LEMMA DayOfStop ==
  ASSUME NEW n \in Nat \ {0}, NEW ns \in Nights(n)
  PROVE  \A i \in 1..n : \A d \in 1..Before(ns, i + 1) :
           \E j \in 1..i : d - Before(ns, j) \in 1..ns[j]
  <1> DEFINE Good == {i \in Nat : i \in 1..n => \A d \in 1..Before(ns, i + 1) :
                                                  \E j \in 1..i : d - Before(ns, j) \in 1..ns[j]}
  <1>1. ASSUME NEW i \in Nat, \A m \in 0..(i - 1) : m \in Good PROVE i \in Good
    <2> SUFFICES ASSUME i \in 1..n, NEW d \in 1..Before(ns, i + 1)
                 PROVE  \E j \in 1..i : d - Before(ns, j) \in 1..ns[j]
      OBVIOUS
    <2>1. /\ Before(ns, i) \in Nat /\ Before(ns, i + 1) \in Nat
          /\ Before(ns, i + 1) = Before(ns, i) + ns[i] /\ ns[i] \in Nat
      BY BeforeNext DEF Nights
    <2>2. CASE d > Before(ns, i)
      <3>1. d - Before(ns, i) \in 1..ns[i]
        BY <2>1, <2>2
      <3>2. QED
        BY <3>1
    <2>3. CASE ~(d > Before(ns, i))
      <3>1. i # 1
        BY <2>3, BeforeNext
      <3>2. PICK m \in 1..n : i = m + 1 /\ m \in 0..(i - 1)
        <4>1. i - 1 \in 1..n /\ i = (i - 1) + 1 /\ i - 1 \in 0..(i - 1)
          BY <3>1
        <4>2. QED
          BY <4>1
      <3>3. d \in 1..Before(ns, m + 1)
        BY <2>1, <2>3, <3>2
      <3>4. PICK j \in 1..m : d - Before(ns, j) \in 1..ns[j]
        BY <1>1, <3>2, <3>3
      <3>5. j \in 1..i
        BY <3>2
      <3>6. QED
        BY <3>4, <3>5
    <2>4. QED
      BY <2>2, <2>3
  <1> HIDE DEF Good
  <1>2. \A i \in Nat : i \in Good
    BY <1>1, CountUp
  <1>3. QED
    BY <1>2 DEF Good

LEMMA BeforeGrows ==
  ASSUME NEW n \in Nat, NEW ns \in Nights(n), NEW i \in 1..(n + 1), NEW j \in 1..(n + 1), j <= i
  PROVE  Before(ns, j) <= Before(ns, i)
  <1>1. IsFiniteSet(1..(i - 1)) /\ 1..(j - 1) \in SUBSET (1..(i - 1))
    BY FS_Interval
  <1>2. \A e \in 1..(i - 1) : ns[e] \in Nat
    BY DEF Nights
  <1>3. QED
    BY <1>1, <1>2, SumGrows DEF Before

DayAt(ids, ns, j, m) ==
  [stop |-> ids[j], checkin |-> m = 1, checkout |-> m = ns[j], travel |-> m = 1 \/ m = ns[j]]

\* "A 4-night stop must never receive 5 days": stop j has the ns[j] days after
\* those of the stops before it.
LEMMA DaysInARow ==
  ASSUME NEW n \in Nat \ {0}, NEW ids, DOMAIN ids = 1..n, NEW ns \in Nights(n)
  PROVE  /\ Len(StopsByDay(ids, ns)) = Total(ns)
         /\ DOMAIN StopsByDay(ids, ns) = 1..Total(ns)
         /\ \A j \in 1..n : \A m \in 1..ns[j] :
              StopsByDay(ids, ns)[Before(ns, j) + m] = DayAt(ids, ns, j, m)
  <1> DEFINE q == [i \in 1..n |-> [m \in 1..ns[i] |-> DayAt(ids, ns, i, m)]]
             S == {DayAt(ids, ns, j, m) : j \in 1..n, m \in Nat}
  <1>1. StopsByDay(ids, ns) = FlattenSeq(q)
    BY DEF StopsByDay, DayAt
  <1>2. ASSUME NEW i \in 1..n
        PROVE  /\ q[i] \in Seq(S) /\ Len(q[i]) = ns[i]
               /\ \A m \in 1..ns[i] : q[i][m] = DayAt(ids, ns, i, m)
    <2>1. ns[i] \in Nat
      BY DEF Nights
    <2>2. \A m \in 1..ns[i] : DayAt(ids, ns, i, m) \in S
      OBVIOUS
    <2> HIDE DEF S
    <2>3. q[i] = [m \in 1..ns[i] |-> DayAt(ids, ns, i, m)]
      OBVIOUS
    <2> HIDE DEF q
    <2>4. QED
      BY <2>1, <2>2, <2>3
  <1>3. DOMAIN q = 1..n /\ Len(q) = n
    OBVIOUS
  <1> HIDE DEF q, S
  <1>4. PICK h : Joins(h, q, n) /\ FlattenSeq(q) = h[n]
    BY <1>3, FlattenJoins
  <1> DEFINE Right(i) == /\ h[i] \in Seq(S) /\ Len(h[i]) = Before(ns, i + 1)
                         /\ \A j \in 1..i : \A m \in 1..ns[j] :
                              h[i][Before(ns, j) + m] = DayAt(ids, ns, j, m)
             Good == {i \in Nat : i \in 1..n => Right(i)}
  <1>5. ASSUME NEW i \in Nat, \A l \in 0..(i - 1) : l \in Good PROVE i \in Good
    <2> SUFFICES ASSUME i \in 1..n PROVE Right(i)
      OBVIOUS
    <2>1. /\ Before(ns, 1) = 0 /\ Before(ns, i) \in Nat /\ Before(ns, i + 1) \in Nat
          /\ Before(ns, i + 1) = Before(ns, i) + ns[i] /\ ns[i] \in Nat
      BY BeforeNext DEF Nights
    <2>2. h[i] = IF i = 1 THEN q[i] ELSE h[i - 1] \o q[i]
      BY <1>4, JoinsAt
    <2>3. CASE i = 1
      <3>1. h[i] = q[i] /\ Before(ns, i) = 0
        BY <2>1, <2>2, <2>3
      <3>2. h[i] \in Seq(S) /\ Len(h[i]) = Before(ns, i + 1)
        BY <1>2, <2>1, <3>1
      <3>3. ASSUME NEW j \in 1..i, NEW m \in 1..ns[j] PROVE h[i][Before(ns, j) + m] = DayAt(ids, ns, j, m)
        <4>1. j = i /\ Before(ns, j) + m = m
          BY <2>3, <3>1
        <4>2. QED
          BY <1>2, <3>1, <4>1
      <3>4. QED
        BY <3>2, <3>3
    <2>4. CASE i # 1
      <3>1. PICK k \in 1..n : i = k + 1 /\ k \in 0..(i - 1) /\ k = i - 1
        <4>1. i - 1 \in 1..n /\ i = (i - 1) + 1 /\ i - 1 \in 0..(i - 1)
          BY <2>4
        <4>2. QED
          BY <4>1
      <3>2. Right(k)
        BY <1>5, <3>1
      <3>3. h[i] = h[k] \o q[i] /\ Len(h[k]) = Before(ns, i)
        BY <2>2, <2>4, <3>1, <3>2
      <3>4. PICK a \in Nat : a = Before(ns, i)
        BY <2>1
      <3>5. /\ h[k] \o q[i] \in Seq(S) /\ Len(h[k] \o q[i]) = a + ns[i]
            /\ \A d \in 1..(a + ns[i]) : (h[k] \o q[i])[d] = IF d <= a THEN h[k][d] ELSE q[i][d - a]
        <4>1. h[k] \in Seq(S) /\ q[i] \in Seq(S) /\ Len(h[k]) = a /\ Len(q[i]) = ns[i]
          BY <1>2, <3>2, <3>3, <3>4
        <4>2. PICK s1 \in Seq(S), s2 \in Seq(S) : s1 = h[k] /\ s2 = q[i]
          BY <4>1
        <4>3. /\ s1 \o s2 \in Seq(S) /\ Len(s1 \o s2) = Len(s1) + Len(s2)
              /\ \A d \in 1..(Len(s1) + Len(s2)) :
                   (s1 \o s2)[d] = IF d <= Len(s1) THEN s1[d] ELSE s2[d - Len(s1)]
          BY ConcatProperties
        <4>4. QED
          BY <4>1, <4>2, <4>3
      <3>6. ASSUME NEW j \in 1..i, NEW m \in 1..ns[j] PROVE h[i][Before(ns, j) + m] = DayAt(ids, ns, j, m)
        <4>1. CASE j = i
          <5>1. a + m \in 1..(a + ns[i]) /\ ~(a + m <= a) /\ (a + m) - a = m /\ m \in 1..ns[i]
            BY <2>1, <4>1
          <5>2. (h[k] \o q[i])[a + m] = q[i][m]
            BY <3>5, <5>1
          <5>3. QED
            BY <1>2, <3>3, <3>4, <4>1, <5>1, <5>2
        <4>2. CASE j # i
          <5>1. j \in 1..k /\ j \in 1..n
            BY <3>1, <4>2
          <5>2. PICK d : d = Before(ns, j) + m
            OBVIOUS
          <5>3. h[k][d] = DayAt(ids, ns, j, m)
            BY <3>2, <5>1, <5>2
          <5>4. d \in 1..a
            <6>1. /\ Before(ns, j) \in Nat /\ Before(ns, j + 1) = Before(ns, j) + ns[j]
                  /\ Before(ns, j + 1) \in Nat /\ ns[j] \in Nat
              BY <5>1, BeforeNext DEF Nights
            <6>2. Before(ns, j + 1) <= Before(ns, i)
              BY <5>1, <3>1, BeforeGrows
            <6>3. QED
              BY <3>4, <5>2, <6>1, <6>2
          <5>5. d \in 1..(a + ns[i]) /\ d <= a
            BY <2>1, <5>4
          <5>6. QED
            BY <3>3, <3>5, <5>2, <5>3, <5>5
        <4>3. QED
          BY <4>1, <4>2
      <3>7. QED
        BY <2>1, <3>3, <3>4, <3>5, <3>6
    <2>5. QED
      BY <2>3, <2>4
  <1> HIDE DEF Good, Right
  <1>6. n \in Good
    BY <1>5, CountUp
  <1>7. Right(n)
    BY <1>6 DEF Good
  <1>8. Before(ns, n + 1) = Total(ns)
    BY BeforeNext
  <1>9. h[n] \in Seq(S) /\ Len(h[n]) = Total(ns)
    BY <1>7, <1>8 DEF Right
  <1>10. QED
    BY <1>1, <1>4, <1>7, <1>9 DEF Right

Distinct(ids, n) == \A i, j \in 1..n : ids[i] = ids[j] => i = j

LEMMA StopsDays ==
  ASSUME NEW n \in Nat \ {0}, NEW ids, DOMAIN ids = 1..n, NEW ns \in Nights(n),
         Distinct(ids, n), NEW i \in 1..n
  PROVE  /\ DaysOf(StopsByDay(ids, ns), ids[i]) = (Before(ns, i) + 1)..Before(ns, i + 1)
         /\ FirstOf(DaysOf(StopsByDay(ids, ns), ids[i])) = Before(ns, i) + 1
         /\ LastOf(DaysOf(StopsByDay(ids, ns), ids[i])) = Before(ns, i + 1)
  <1> DEFINE byDay == StopsByDay(ids, ns)
  <1>1. /\ Len(byDay) = Total(ns) /\ DOMAIN byDay = 1..Total(ns)
        /\ \A j \in 1..n : \A m \in 1..ns[j] : byDay[Before(ns, j) + m] = DayAt(ids, ns, j, m)
    BY DaysInARow
  <1> HIDE DEF byDay
  <1>2. \A j \in 1..n : /\ Before(ns, j) \in Nat /\ Before(ns, j + 1) \in Nat /\ ns[j] \in Nat \ {0}
                        /\ Before(ns, j + 1) = Before(ns, j) + ns[j]
    BY BeforeNext DEF Nights
  <1>3. Before(ns, n + 1) = Total(ns) /\ Total(ns) \in Nat
    BY BeforeNext, TotalIsSum DEF Nights
  <1>4. ASSUME NEW j \in 1..n, NEW m \in 1..ns[j] PROVE byDay[Before(ns, j) + m].stop = ids[j]
    <2>1. byDay[Before(ns, j) + m] = DayAt(ids, ns, j, m)
      BY <1>1
    <2>2. QED
      BY <2>1 DEF DayAt
  <1>5. ASSUME NEW d \in (Before(ns, i) + 1)..Before(ns, i + 1)
        PROVE  d \in DOMAIN byDay /\ byDay[d].stop = ids[i]
    <2>1. PICK m \in 1..ns[i] : d = Before(ns, i) + m
      <3>1. PICK x \in Nat, y \in Nat, z \in Nat :
              x = Before(ns, i) /\ y = Before(ns, i + 1) /\ z = ns[i] /\ y = x + z
        BY <1>2
      <3>2. d \in Nat /\ x + 1 <= d /\ d <= x + z
        BY <3>1
      <3>3. d - x \in 1..z /\ d = x + (d - x)
        BY <3>2
      <3>4. QED
        BY <3>1, <3>3
    <2>2. Before(ns, i + 1) <= Before(ns, n + 1)
      BY BeforeGrows
    <2>3. d \in 1..Total(ns)
      BY <1>2, <1>3, <2>2
    <2>4. QED
      BY <1>1, <1>4, <2>1, <2>3
  <1>6. ASSUME NEW d \in DOMAIN byDay, byDay[d].stop = ids[i]
        PROVE  d \in (Before(ns, i) + 1)..Before(ns, i + 1)
    <2>1. d \in 1..Before(ns, n + 1) /\ n \in 1..n
      BY <1>1, <1>3
    <2>2. PICK j \in 1..n : d - Before(ns, j) \in 1..ns[j]
      BY <2>1, DayOfStop
    <2>3. PICK m \in 1..ns[j] : d = Before(ns, j) + m
      <3>1. d = Before(ns, j) + (d - Before(ns, j))
        BY <1>2, <2>1
      <3>2. QED
        BY <2>2, <3>1
    <2>4. ids[j] = ids[i]
      BY <1>4, <1>6, <2>3
    <2>5. i = j
      BY <2>4 DEF Distinct
    <2>6. PICK x \in Nat, y \in Nat, z \in Nat :
            x = Before(ns, i) /\ y = Before(ns, i + 1) /\ z = ns[i] /\ y = x + z
      BY <1>2
    <2>7. m \in 1..z /\ d = x + m
      BY <2>3, <2>5, <2>6
    <2>8. d \in (x + 1)..y
      <3>1. m \in Nat /\ 1 <= m /\ m <= z
        BY <2>7
      <3>2. x + m \in Nat /\ x + 1 <= x + m /\ x + m <= x + z
        BY <3>1
      <3>3. QED
        BY <2>6, <2>7, <3>2
    <2>9. QED
      BY <2>6, <2>8
  <1>7. DaysOf(byDay, ids[i]) = (Before(ns, i) + 1)..Before(ns, i + 1)
    BY <1>5, <1>6 DEF DaysOf
  <1>8. PICK a \in Nat, b \in Nat : a = Before(ns, i) + 1 /\ b = Before(ns, i + 1) /\ a <= b
    <2>1. /\ Before(ns, i) \in Nat /\ Before(ns, i + 1) \in Nat /\ ns[i] \in Nat \ {0}
          /\ Before(ns, i + 1) = Before(ns, i) + ns[i]
      BY <1>2
    <2>2. PICK x \in Nat, y \in Nat : x = Before(ns, i) /\ y = Before(ns, i + 1) /\ x < y
      BY <2>1
    <2>3. x + 1 \in Nat /\ x + 1 <= y
      BY <2>2
    <2>4. QED
      BY <2>2, <2>3
  <1>9. FirstOf(a..b) = a /\ LastOf(a..b) = b
    <2>1. a \in a..b /\ b \in a..b /\ \A e \in a..b : a <= e /\ e <= b
      BY <1>8
    <2>2. PICK x : x = FirstOf(a..b)
      OBVIOUS
    <2>3. x \in a..b /\ \A e \in a..b : x <= e
      BY <2>1, <2>2 DEF FirstOf
    <2>4. x = a
      BY <2>1, <2>3
    <2>5. PICK y : y = LastOf(a..b)
      OBVIOUS
    <2>6. y \in a..b /\ \A e \in a..b : e <= y
      BY <2>1, <2>5 DEF LastOf
    <2>7. y = b
      BY <2>1, <2>6
    <2>8. QED
      BY <2>2, <2>4, <2>5, <2>7
  <1>10. QED
    BY <1>7, <1>8, <1>9 DEF byDay

-----------------------------------------------------------------------------
(* Sorting by rank. *)

\* e names each element of S once.
Lists(e, S, n) ==
  /\ e \in [1..n -> S]
  /\ \A i \in S : \E p \in 1..n : e[p] = i
  /\ \A p, q \in 1..n : e[p] = e[q] => p = q

LEMMA ListedSize ==
  ASSUME NEW n \in Nat, NEW S, NEW e, Lists(e, S, n)
  PROVE  IsFiniteSet(S) /\ Cardinality(S) = n
  <1>1. e \in Surjection(1..n, S) /\ e \in Injection(1..n, S)
    BY DEF Lists, Surjection, Injection, IsInjective
  <1>2. IsFiniteSet(1..n) /\ Cardinality(1..n) = n
    BY FS_Interval
  <1>3. QED
    BY <1>1, <1>2, FS_Surjection

\* below[i] is what comes before i.
Ranks(e, n, below) == \A q \in 1..n : below[e[q]] = {e[p] : p \in 1..(q - 1)}

LEMMA RankOf ==
  ASSUME NEW n \in Nat, NEW S, NEW e, Lists(e, S, n), NEW below, Ranks(e, n, below), NEW q \in 1..n
  PROVE  Cardinality(below[e[q]]) = q - 1
  <1>1. PICK m \in Nat : m = q - 1
    OBVIOUS
  <1>2. 1..m \subseteq 1..n
    BY <1>1
  <1>3. PICK d : d = [p \in 1..m |-> e[p]]
    OBVIOUS
  <1>4. below[e[q]] = {e[p] : p \in 1..m}
    BY <1>1 DEF Ranks
  <1>5. Lists(d, below[e[q]], m)
    BY <1>2, <1>3, <1>4 DEF Lists
  <1>6. QED
    BY <1>1, <1>5, ListedSize

\* f[p] is an element that p - 1 others come before, if there is one.
PicksByRank(f, S, below) ==
  /\ f = [p \in 1..Cardinality(S) |-> f[p]]
  /\ \A p \in 1..Cardinality(S) :
       (\E i \in S : Cardinality(below[i]) = p - 1) => f[p] \in S /\ Cardinality(below[f[p]]) = p - 1

LEMMA PickedInOrder ==
  ASSUME NEW n \in Nat, NEW S, NEW e, Lists(e, S, n), NEW below, Ranks(e, n, below),
         NEW f, PicksByRank(f, S, below)
  PROVE  f = e
  <1>1. Cardinality(S) = n
    BY ListedSize
  <1>2. ASSUME NEW p \in 1..n PROVE f[p] = e[p]
    <2>1. e[p] \in S /\ Cardinality(below[e[p]]) = p - 1
      <3>1. Cardinality(below[e[p]]) = p - 1
        BY RankOf
      <3>2. QED
        BY <3>1 DEF Lists
    <2>2. f[p] \in S /\ Cardinality(below[f[p]]) = p - 1
      BY <1>1, <2>1 DEF PicksByRank
    <2>3. PICK q \in 1..n : e[q] = f[p]
      BY <2>2 DEF Lists
    <2>4. Cardinality(below[f[p]]) = q - 1
      BY <2>3, RankOf
    <2>5. p = q
      BY <2>2, <2>4
    <2>6. QED
      BY <2>3, <2>5
  <1>3. QED
    BY <1>1, <1>2 DEF Lists, PicksByRank

-----------------------------------------------------------------------------
(* The order of the legs. *)

Key(legs, i) == legs[i].day * 5 + LegOrder[legs[i].type]

Sooner(legs) ==
  [i \in DOMAIN legs |-> {j \in DOMAIN legs : \/ Key(legs, j) < Key(legs, i)
                                              \/ Key(legs, j) = Key(legs, i) /\ j < i}]

\* With one leg to each key, listing them by key is what sorted() does.
LEMMA ResequenceIs ==
  ASSUME NEW n \in Nat, NEW legs, DOMAIN legs \in SUBSET Nat, NEW e, Lists(e, DOMAIN legs, n),
         \A p \in 1..n : Key(legs, e[p]) \in Nat,
         \A p, q \in 1..n : p < q => Key(legs, e[p]) < Key(legs, e[q])
  PROVE  Resequence(legs) = e
  <1>1. Ranks(e, n, Sooner(legs))
    <2> SUFFICES ASSUME NEW q \in 1..n PROVE Sooner(legs)[e[q]] = {e[p] : p \in 1..(q - 1)}
      BY DEF Ranks
    <2>1. e[q] \in DOMAIN legs
      BY DEF Lists
    <2>2. ASSUME NEW p \in 1..n
          PROVE  e[p] \in Sooner(legs)[e[q]] <=> p < q
      <3>1. e[p] \in DOMAIN legs
        BY DEF Lists
      <3>2. e[p] \in Sooner(legs)[e[q]] <=> \/ Key(legs, e[p]) < Key(legs, e[q])
                                            \/ Key(legs, e[p]) = Key(legs, e[q]) /\ e[p] < e[q]
        BY <2>1, <3>1 DEF Sooner
      <3>3. PICK a \in Nat, b \in Nat : a = Key(legs, e[p]) /\ b = Key(legs, e[q])
        OBVIOUS
      <3>4. (p < q => a < b) /\ (q < p => b < a)
        BY <3>3
      <3>5. CASE p < q
        BY <3>2, <3>3, <3>4, <3>5
      <3>6. CASE q < p
        <4>1. b < a /\ ~(p < q)
          BY <3>4, <3>6
        <4>2. ~(a < b) /\ a # b
          BY <4>1
        <4>3. QED
          BY <3>2, <3>3, <4>1, <4>2
      <3>7. CASE p = q
        <4>1. a = b /\ e[p] = e[q]
          BY <3>3, <3>7
        <4>2. ~(a < b)
          BY <4>1
        <4>3. ~(e[p] < e[q])
          BY <3>1, <4>1
        <4>4. QED
          BY <3>2, <3>3, <3>7, <4>2, <4>3
      <3>8. QED
        BY <3>5, <3>6, <3>7
    <2>3. Sooner(legs)[e[q]] \subseteq DOMAIN legs
      BY <2>1 DEF Sooner
    <2>4. \A j \in DOMAIN legs : \E p \in 1..n : e[p] = j
      BY DEF Lists
    <2>5. QED
      BY <2>2, <2>3, <2>4
  <1> DEFINE First(i) == {j \in DOMAIN legs : \/ Key(legs, j) < Key(legs, i)
                                              \/ (Key(legs, j) = Key(legs, i) /\ j < i)}
  <1>2. PICK f : f = Resequence(legs)
    OBVIOUS
  <1>3. f = [p \in 1..Cardinality(DOMAIN legs) |-> CHOOSE i \in DOMAIN legs : Cardinality(First(i)) = p - 1]
    BY <1>2 DEF Resequence, InOrder, Key
  <1>4. \A i \in DOMAIN legs : First(i) = Sooner(legs)[i]
    BY DEF Sooner
  <1> HIDE DEF First
  <1>5. ASSUME NEW p \in 1..Cardinality(DOMAIN legs),
               \E i \in DOMAIN legs : Cardinality(Sooner(legs)[i]) = p - 1
        PROVE  f[p] \in DOMAIN legs /\ Cardinality(Sooner(legs)[f[p]]) = p - 1
    <2>1. \E i \in DOMAIN legs : Cardinality(First(i)) = p - 1
      BY <1>4, <1>5
    <2>2. f[p] = CHOOSE i \in DOMAIN legs : Cardinality(First(i)) = p - 1
      BY <1>3
    <2>3. f[p] \in DOMAIN legs /\ Cardinality(First(f[p])) = p - 1
      BY <2>1, <2>2
    <2>4. QED
      BY <1>4, <2>3
  <1>6. f = [p \in 1..Cardinality(DOMAIN legs) |-> f[p]]
    BY <1>3
  <1>7. PicksByRank(f, DOMAIN legs, Sooner(legs))
    BY <1>5, <1>6 DEF PicksByRank
  <1>8. QED
    BY <1>1, <1>2, <1>7, PickedInOrder

LEMMA TwoInARow ==
  ASSUME NEW a \in Nat, NEW b \in Nat, NEW s, NEW t,
         s = [i \in 1..a |-> s[i]], t = [i \in 1..b |-> t[i]]
  PROVE  /\ DOMAIN (s \o t) = 1..(a + b)
         /\ \A i \in 1..a : (s \o t)[i] = s[i]
         /\ \A i \in 1..b : (s \o t)[a + i] = t[i]
  <1> DEFINE S == {s[i] : i \in 1..a} \cup {t[i] : i \in 1..b}
  <1>1. s \in Seq(S) /\ Len(s) = a /\ t \in Seq(S) /\ Len(t) = b
    <2>1. s \in [1..a -> S] /\ t \in [1..b -> S]
      OBVIOUS
    <2> HIDE DEF S
    <2>2. QED
      BY <2>1
  <1> HIDE DEF S
  <1>2. PICK x \in Seq(S), y \in Seq(S) : x = s /\ y = t /\ Len(x) = a /\ Len(y) = b
    BY <1>1
  <1>3. /\ x \o y \in Seq(S) /\ Len(x \o y) = Len(x) + Len(y)
        /\ \A d \in 1..(Len(x) + Len(y)) : (x \o y)[d] = IF d <= Len(x) THEN x[d] ELSE y[d - Len(x)]
    BY ConcatProperties
  <1>4. DOMAIN (x \o y) = 1..(a + b)
    BY <1>2, <1>3
  <1>5. ASSUME NEW i \in 1..a PROVE (x \o y)[i] = x[i]
    <2>1. i \in 1..(a + b) /\ i <= a
      OBVIOUS
    <2>2. QED
      BY <1>2, <1>3, <2>1
  <1>6. ASSUME NEW i \in 1..b PROVE (x \o y)[a + i] = y[i]
    <2>1. a + i \in 1..(a + b) /\ ~(a + i <= a) /\ (a + i) - a = i
      OBVIOUS
    <2>2. QED
      BY <1>2, <1>3, <2>1
  <1>7. QED
    BY <1>2, <1>4, <1>5, <1>6

\* A later stop is left on a later day.
LEMMA BeforeGrowsStrictly ==
  ASSUME NEW n \in Nat \ {0}, NEW ns \in Nights(n), NEW i \in 1..(n + 1), NEW j \in 1..(n + 1), j < i
  PROVE  /\ Before(ns, i) \in Nat /\ Before(ns, j) \in Nat
         /\ Before(ns, j) < Before(ns, i)
  <1>1. j \in 1..n /\ j + 1 \in 1..(n + 1) /\ j + 1 <= i
    OBVIOUS
  <1>2. ns[j] \in Nat \ {0}
    BY <1>1 DEF Nights
  <1>3. Before(ns, j + 1) = Before(ns, j) + ns[j] /\ Before(ns, j) \in Nat
    BY <1>1, BeforeNext
  <1>4. Before(ns, j + 1) <= Before(ns, i)
    BY <1>1, BeforeGrows
  <1>5. Before(ns, i) \in Nat
    <2>1. i - 1 \in 1..n /\ (i - 1) + 1 = i
      OBVIOUS
    <2>2. QED
      BY <2>1, BeforeNext
  <1>6. QED
    BY <1>2, <1>3, <1>4, <1>5

\* How many days come before each stop.
LEMMA BeforeBounds ==
  ASSUME NEW n \in Nat \ {0}, NEW ns \in Nights(n)
  PROVE  /\ Before(ns, 1) = 0 /\ Total(ns) \in Nat /\ Total(ns) > 0
         /\ \A i \in 2..(n + 1) : Before(ns, i) \in Nat /\ Before(ns, i) > 0 /\ Before(ns, i) <= Total(ns)
         /\ \A i \in 2..n : Before(ns, i) < Total(ns)
         /\ \A i, j \in 2..(n + 1) : j < i => Before(ns, j) < Before(ns, i)
  <1> DEFINE T == Total(ns)
  <1>0. T \in Nat /\ Before(ns, n + 1) = T
    BY BeforeNext, TotalIsSum DEF Nights
  <1> HIDE DEF T
  <1>1. Before(ns, 1) = 0
    BY BeforeNext
  <1>2. \A i, j \in 1..(n + 1) : j < i => /\ Before(ns, i) \in Nat /\ Before(ns, j) \in Nat
                                          /\ Before(ns, j) < Before(ns, i)
    BY BeforeGrowsStrictly
  <1>3. ASSUME NEW i \in 2..(n + 1)
        PROVE  /\ Before(ns, i) \in Nat /\ Before(ns, i) > 0 /\ Before(ns, i) <= T
               /\ i # n + 1 => Before(ns, i) < T
    <2>1. i \in 1..(n + 1) /\ 1 \in 1..(n + 1) /\ 1 < i /\ n + 1 \in 1..(n + 1) /\ (i # n + 1 => i < n + 1)
      OBVIOUS
    <2>2. Before(ns, i) \in Nat /\ Before(ns, i) > 0
      BY <1>1, <1>2, <2>1
    <2>3. i # n + 1 => Before(ns, i) < T
      BY <1>0, <1>2, <2>1
    <2>4. QED
      BY <1>0, <2>2, <2>3
  <1>4. T > 0
    <2>1. n + 1 \in 2..(n + 1)
      OBVIOUS
    <2>2. QED
      BY <1>0, <1>3, <2>1
  <1>5. \A i, j \in 2..(n + 1) : i \in 1..(n + 1) /\ j \in 1..(n + 1)
    OBVIOUS
  <1>6. \A i \in 2..n : i \in 2..(n + 1) /\ i # n + 1
    OBVIOUS
  <1>7. QED
    BY <1>0, <1>1, <1>2, <1>3, <1>4, <1>5, <1>6 DEF T

\* The legs before they are put in order: the way there and home, then the
\* transfers.
RawLegs(gateway, ids, byDay) ==
  GatewayLegs(gateway, ids[1], ids[Len(ids)], Len(byDay)) \o InternalLegs(ids, byDay)

\* The i-th transfer leaves stop i on its last day.
Transfer(ids, ns, i) ==
  Leg(ids[i], ids[i + 1], TransferType(ids[i][1], ids[i + 1][1]), Before(ns, i + 1))

LEMMA TransferLegs ==
  ASSUME NEW n \in Nat \ {0}, NEW ids \in [1..n -> Places \X Nat], NEW ns \in Nights(n), Distinct(ids, n)
  PROVE  InternalLegs(ids, StopsByDay(ids, ns)) = [i \in 1..(n - 1) |-> Transfer(ids, ns, i)]
  <1>1. Len(ids) = n /\ DOMAIN ids = 1..n
    OBVIOUS
  <1>2. ASSUME NEW i \in 1..(n - 1)
        PROVE  LastOf(DaysOf(StopsByDay(ids, ns), ids[i])) = Before(ns, i + 1)
    <2>1. PICK j \in 1..n : j = i
      OBVIOUS
    <2>2. LastOf(DaysOf(StopsByDay(ids, ns), ids[j])) = Before(ns, j + 1)
      BY <1>1, StopsDays
    <2>3. QED
      BY <2>1, <2>2
  <1>3. InternalLegs(ids, StopsByDay(ids, ns)) =
          [i \in 1..(n - 1) |->
             Leg(ids[i], ids[i + 1], TransferType(ids[i][1], ids[i + 1][1]),
                 LastOf(DaysOf(StopsByDay(ids, ns), ids[i])))]
    BY <1>1 DEF InternalLegs
  <1>4. QED
    BY <1>2, <1>3 DEF Transfer

\* A transfer's place in the order of its day, between arrivals and departures.
LEMMA TransferKey ==
  ASSUME NEW legs, NEW i, NEW ids, NEW ns, NEW p, legs[p] = Transfer(ids, ns, i)
  PROVE  Key(legs, p) = Before(ns, i + 1) * 5 + 2
  BY DEF Transfer, Key, Leg, TransferType, LegOrder

\* The legs of a trip through the gateway g, which is not its first stop: there
\* and home in two legs each.
ThroughGateway(legs, n, ids, ns, g) ==
  /\ DOMAIN legs = 1..(n + 3)
  /\ legs[1] = Leg(Source, g, "source_to_gateway", 1)
  /\ legs[2] = Leg(g, ids[1], "gateway_to_stop", 1)
  /\ \A i \in 1..(n - 1) : legs[i + 2] = Transfer(ids, ns, i)
  /\ legs[n + 2] = Leg(ids[n], g, "stop_to_gateway", Total(ns))
  /\ legs[n + 3] = Leg(g, Source, "gateway_to_source", Total(ns))

\* The legs of a trip straight to its first stop.
Direct(legs, n, ids, ns) ==
  /\ DOMAIN legs = 1..(n + 1)
  /\ legs[1] = Leg(Source, ids[1], "source_to_gateway", 1)
  /\ \A i \in 1..(n - 1) : legs[i + 1] = Transfer(ids, ns, i)
  /\ legs[n + 1] = Leg(ids[n], Source, "gateway_to_source", Total(ns))

Sorted(legs) == [i \in DOMAIN Resequence(legs) |-> legs[Resequence(legs)[i]]]

LEMMA SortedThrough ==
  ASSUME NEW n \in Nat \ {0}, NEW ids \in [1..n -> Places \X Nat], NEW ns \in Nights(n), Distinct(ids, n),
         NEW gateway, gateway # ids[1][1]
  PROVE  ThroughGateway(Sorted(RawLegs(gateway, ids, StopsByDay(ids, ns))), n, ids, ns, GatewayId(gateway))
  <1> DEFINE legs == RawLegs(gateway, ids, StopsByDay(ids, ns))
             g == GatewayId(gateway)
             T == Total(ns)
             e == [p \in 1..(n + 3) |-> IF p <= 2 THEN p ELSE IF p <= n + 1 THEN p + 2 ELSE p - (n - 1)]
  <1>1. Len(ids) = n /\ DOMAIN ids = 1..n /\ Len(StopsByDay(ids, ns)) = T
    <2>1. Len(ids) = n /\ DOMAIN ids = 1..n
      OBVIOUS
    <2>2. QED
      BY <2>1, DaysInARow
  <1>2. /\ DOMAIN legs = 1..(n + 3)
        /\ legs[1] = Leg(Source, g, "source_to_gateway", 1)
        /\ legs[2] = Leg(g, ids[1], "gateway_to_stop", 1)
        /\ legs[3] = Leg(ids[n], g, "stop_to_gateway", T)
        /\ legs[4] = Leg(g, Source, "gateway_to_source", T)
        /\ \A i \in 1..(n - 1) : legs[4 + i] = Transfer(ids, ns, i)
    <2>1. PICK s : s = << Leg(Source, g, "source_to_gateway", 1), Leg(g, ids[1], "gateway_to_stop", 1),
                          Leg(ids[n], g, "stop_to_gateway", T), Leg(g, Source, "gateway_to_source", T) >>
      OBVIOUS
    <2>2. PICK t : t = [i \in 1..(n - 1) |-> Transfer(ids, ns, i)]
      OBVIOUS
    <2>3. legs = s \o t
      BY <1>1, <2>1, <2>2, TransferLegs DEF RawLegs, GatewayLegs
    <2>4. PICK m \in Nat : m = n - 1
      OBVIOUS
    <2> HIDE DEF legs, g, T, e
    <2>5. s = [i \in 1..4 |-> s[i]] /\ t = [i \in 1..m |-> t[i]]
      BY <2>1, <2>2, <2>4
    <2>6. /\ DOMAIN (s \o t) = 1..(4 + m)
          /\ \A i \in 1..4 : (s \o t)[i] = s[i]
          /\ \A i \in 1..m : (s \o t)[4 + i] = t[i]
      BY <2>5, TwoInARow
    <2>7. legs[1] = s[1] /\ legs[2] = s[2] /\ legs[3] = s[3] /\ legs[4] = s[4]
      BY <2>3, <2>6
    <2>8. \A i \in 1..(n - 1) : legs[4 + i] = Transfer(ids, ns, i)
      BY <2>2, <2>3, <2>4, <2>6
    <2>9. DOMAIN legs = 1..(n + 3)
      BY <2>3, <2>4, <2>6
    <2>10. QED
      BY <2>1, <2>7, <2>8, <2>9
  <1> HIDE DEF legs, g, T
  <1>3. Lists(e, DOMAIN legs, n + 3)
    <2>1. e \in [1..(n + 3) -> 1..(n + 3)]
      OBVIOUS
    <2>2. \A p, q \in 1..(n + 3) : e[p] = e[q] => p = q
      OBVIOUS
    <2>3. ASSUME NEW i \in 1..(n + 3) PROVE \E p \in 1..(n + 3) : e[p] = i
      <3>1. CASE i <= 2
        BY <3>1
      <3>2. CASE i = 3 \/ i = 4
        <4>1. i + (n - 1) \in 1..(n + 3) /\ e[i + (n - 1)] = i
          BY <3>2
        <4>2. QED
          BY <4>1
      <3>3. CASE i > 4
        <4>1. i - 2 \in 1..(n + 3) /\ e[i - 2] = i
          BY <3>3
        <4>2. QED
          BY <4>1
      <3>4. QED
        BY <3>1, <3>2, <3>3
    <2> HIDE DEF e
    <2>4. QED
      BY <1>2, <2>1, <2>2, <2>3 DEF Lists
  <1>4. /\ e[1] = 1 /\ e[2] = 2 /\ e[n + 2] = 3 /\ e[n + 3] = 4
        /\ \A i \in 1..(n - 1) : e[i + 2] = 4 + i
    OBVIOUS
  <1> HIDE DEF e
  <1>5. T \in Nat /\ Before(ns, n + 1) = T
    BY BeforeNext, TotalIsSum DEF Nights, T
  <1>6. /\ Key(legs, e[1]) = 5 /\ Key(legs, e[2]) = 6
        /\ \A i \in 1..(n - 1) : Key(legs, e[i + 2]) = Before(ns, i + 1) * 5 + 2
        /\ Key(legs, e[n + 2]) = T * 5 + 3 /\ Key(legs, e[n + 3]) = T * 5 + 4
    <2>1. /\ Key(legs, 1) = 5 /\ Key(legs, 2) = 6
          /\ Key(legs, 3) = T * 5 + 3 /\ Key(legs, 4) = T * 5 + 4
      BY <1>2 DEF Key, Leg, LegOrder
    <2>2. ASSUME NEW i \in 1..(n - 1) PROVE Key(legs, e[i + 2]) = Before(ns, i + 1) * 5 + 2
      <3>1. legs[e[i + 2]] = Transfer(ids, ns, i)
        BY <1>2, <1>4
      <3>2. QED
        BY <3>1, TransferKey
    <2>3. QED
      BY <1>4, <2>1, <2>2
  <1>7. /\ Before(ns, 1) = 0 /\ T \in Nat /\ T > 0
        /\ \A i \in 2..(n + 1) : Before(ns, i) \in Nat /\ Before(ns, i) > 0 /\ Before(ns, i) <= T
        /\ \A i \in 2..n : Before(ns, i) < T
        /\ \A i, j \in 2..(n + 1) : j < i => Before(ns, j) < Before(ns, i)
    BY BeforeBounds DEF T
  <1>8. \A p \in 1..(n + 3) : p = 1 \/ p = 2 \/ (\E i \in 1..(n - 1) : p = i + 2) \/ p = n + 2 \/ p = n + 3
    <2> SUFFICES ASSUME NEW p \in 1..(n + 3), p > 2, p < n + 2 PROVE \E i \in 1..(n - 1) : p = i + 2
      OBVIOUS
    <2>1. p - 2 \in 1..(n - 1) /\ p = (p - 2) + 2
      OBVIOUS
    <2>2. QED
      BY <2>1
  <1>9. ASSUME NEW i \in 1..(n - 1)
        PROVE  \E b \in Nat : /\ b > 0 /\ b < T /\ b = Before(ns, i + 1)
                              /\ Key(legs, e[i + 2]) = b * 5 + 2
    <2>1. i + 1 \in 2..n /\ i + 1 \in 2..(n + 1)
      OBVIOUS
    <2>2. QED
      BY <1>6, <1>7, <2>1
  <1>10. ASSUME NEW p \in 1..(n + 3) PROVE Key(legs, e[p]) \in Nat
    <2>1. CASE p = 1 \/ p = 2 \/ p = n + 2 \/ p = n + 3
      BY <1>5, <1>6, <2>1
    <2>2. ASSUME NEW i \in 1..(n - 1), p = i + 2 PROVE Key(legs, e[p]) \in Nat
      BY <1>9, <2>2
    <2>3. QED
      BY <1>8, <2>1, <2>2
  <1>11. ASSUME NEW p \in 1..(n + 3), NEW q \in 1..(n + 3), p < q
         PROVE  Key(legs, e[p]) < Key(legs, e[q])
    <2>1. CASE q = 1 \/ q = 2
      BY <1>6, <1>11, <2>1
    <2>2. ASSUME NEW i \in 1..(n - 1), q = i + 2 PROVE Key(legs, e[p]) < Key(legs, e[q])
      <3>1. PICK b \in Nat : b > 0 /\ b = Before(ns, i + 1) /\ Key(legs, e[q]) = b * 5 + 2
        BY <1>9, <2>2
      <3>2. CASE p = 1 \/ p = 2
        <4>1. Key(legs, e[p]) = 5 \/ Key(legs, e[p]) = 6
          BY <1>6, <3>2
        <4>2. b * 5 + 2 > 6
          BY <3>1
        <4>3. QED
          BY ONLY <3>1, <4>1, <4>2
      <3>3. ASSUME NEW j \in 1..(n - 1), p = j + 2 PROVE Key(legs, e[p]) < Key(legs, e[q])
        <4>1. PICK a \in Nat : a = Before(ns, j + 1) /\ Key(legs, e[p]) = a * 5 + 2
          BY <1>9, <3>3
        <4>2. i + 1 \in 2..(n + 1) /\ j + 1 \in 2..(n + 1) /\ j + 1 < i + 1
          BY <1>11, <2>2, <3>3
        <4>3. Before(ns, j + 1) < Before(ns, i + 1)
          BY <1>7, <4>2
        <4>4. a < b
          BY ONLY <3>1, <4>1, <4>3
        <4>5. a * 5 + 2 < b * 5 + 2
          BY ONLY <4>4, a \in Nat, b \in Nat
        <4>6. QED
          BY ONLY <3>1, <4>1, <4>5
      <3>4. p # n + 2 /\ p # n + 3
        BY <1>11, <2>2
      <3>5. QED
        BY <1>8, <3>2, <3>3, <3>4
    <2>3. CASE q = n + 2 \/ q = n + 3
      <3>1. Key(legs, e[q]) \in Nat /\ Key(legs, e[q]) >= T * 5 + 3
        BY <1>6, <1>7, <2>3
      <3>2. CASE p = 1 \/ p = 2
        BY <1>6, <1>7, <3>1, <3>2
      <3>3. ASSUME NEW j \in 1..(n - 1), p = j + 2 PROVE Key(legs, e[p]) < Key(legs, e[q])
        <4>1. PICK a \in Nat : a < T /\ Key(legs, e[p]) = a * 5 + 2
          BY <1>9, <3>3
        <4>2. QED
          BY <1>7, <3>1, <4>1
      <3>4. CASE p = n + 2 \/ p = n + 3
        <4>1. p = n + 2 /\ q = n + 3
          BY <1>11, <2>3, <3>4
        <4>2. QED
          BY <1>6, <1>7, <4>1
      <3>5. QED
        BY <1>8, <3>2, <3>3, <3>4
    <2>4. QED
      BY <1>8, <2>1, <2>2, <2>3
  <1>12. Resequence(legs) = e
    <2>1. DOMAIN legs \in SUBSET Nat
      BY <1>2
    <2>2. n + 3 \in Nat
      OBVIOUS
    <2>3. QED
      BY <1>3, <1>10, <1>11, <2>1, <2>2, ResequenceIs
  <1>13. DOMAIN e = 1..(n + 3)
    BY <1>3 DEF Lists
  <1>14. Sorted(legs) = [p \in 1..(n + 3) |-> legs[e[p]]]
    BY <1>12, <1>13 DEF Sorted
  <1>15. /\ 1 \in 1..(n + 3) /\ 2 \in 1..(n + 3) /\ n + 2 \in 1..(n + 3) /\ n + 3 \in 1..(n + 3)
         /\ \A i \in 1..(n - 1) : i + 2 \in 1..(n + 3)
    OBVIOUS
  <1>a. \A p \in 1..(n + 3) : Sorted(legs)[p] = legs[e[p]]
    BY <1>14
  <1>b. /\ Sorted(legs)[1] = legs[1] /\ Sorted(legs)[2] = legs[2]
        /\ Sorted(legs)[n + 2] = legs[3] /\ Sorted(legs)[n + 3] = legs[4]
    BY <1>4, <1>15, <1>a
  <1>c. ASSUME NEW i \in 1..(n - 1) PROVE Sorted(legs)[i + 2] = legs[4 + i]
    <2>1. i + 2 \in 1..(n + 3) /\ e[i + 2] = 4 + i
      BY <1>4, <1>15
    <2>2. QED
      BY <1>a, <2>1
  <1>d. DOMAIN Sorted(legs) = 1..(n + 3)
    BY <1>14
  <1>16. ThroughGateway(Sorted(legs), n, ids, ns, g)
    BY <1>2, <1>b, <1>c, <1>d DEF ThroughGateway, T
  <1>17. QED
    BY <1>16 DEF legs, g

LEMMA SortedDirect ==
  ASSUME NEW n \in Nat \ {0}, NEW ids \in [1..n -> Places \X Nat], NEW ns \in Nights(n), Distinct(ids, n)
  PROVE  Direct(Sorted(RawLegs(ids[1][1], ids, StopsByDay(ids, ns))), n, ids, ns)
  <1> DEFINE legs == RawLegs(ids[1][1], ids, StopsByDay(ids, ns))
             T == Total(ns)
             e == [p \in 1..(n + 1) |-> IF p = 1 THEN 1 ELSE IF p <= n THEN p + 1 ELSE 2]
  <1>1. Len(ids) = n /\ DOMAIN ids = 1..n /\ Len(StopsByDay(ids, ns)) = T
    <2>1. Len(ids) = n /\ DOMAIN ids = 1..n
      OBVIOUS
    <2>2. QED
      BY <2>1, DaysInARow
  <1>2. /\ DOMAIN legs = 1..(n + 1)
        /\ legs[1] = Leg(Source, ids[1], "source_to_gateway", 1)
        /\ legs[2] = Leg(ids[n], Source, "gateway_to_source", T)
        /\ \A i \in 1..(n - 1) : legs[2 + i] = Transfer(ids, ns, i)
    <2>1. PICK s : s = << Leg(Source, ids[1], "source_to_gateway", 1),
                          Leg(ids[n], Source, "gateway_to_source", T) >>
      OBVIOUS
    <2>2. PICK t : t = [i \in 1..(n - 1) |-> Transfer(ids, ns, i)]
      OBVIOUS
    <2>3. legs = s \o t
      BY <1>1, <2>1, <2>2, TransferLegs DEF RawLegs, GatewayLegs
    <2>4. PICK m \in Nat : m = n - 1
      OBVIOUS
    <2> HIDE DEF legs, T, e
    <2>5. s = [i \in 1..2 |-> s[i]] /\ t = [i \in 1..m |-> t[i]]
      BY <2>1, <2>2, <2>4
    <2>6. /\ DOMAIN (s \o t) = 1..(2 + m)
          /\ \A i \in 1..2 : (s \o t)[i] = s[i]
          /\ \A i \in 1..m : (s \o t)[2 + i] = t[i]
      BY <2>5, TwoInARow
    <2>7. legs[1] = s[1] /\ legs[2] = s[2]
      BY <2>3, <2>6
    <2>8. \A i \in 1..(n - 1) : legs[2 + i] = Transfer(ids, ns, i)
      BY <2>2, <2>3, <2>4, <2>6
    <2>9. DOMAIN legs = 1..(n + 1)
      BY <2>3, <2>4, <2>6
    <2>10. QED
      BY <2>1, <2>7, <2>8, <2>9
  <1> HIDE DEF legs, T
  <1>3. Lists(e, DOMAIN legs, n + 1)
    <2>1. e \in [1..(n + 1) -> 1..(n + 1)]
      OBVIOUS
    <2>2. \A p, q \in 1..(n + 1) : e[p] = e[q] => p = q
      OBVIOUS
    <2>3. ASSUME NEW i \in 1..(n + 1) PROVE \E p \in 1..(n + 1) : e[p] = i
      <3>1. CASE i = 1
        BY <3>1
      <3>2. CASE i = 2
        <4>1. n + 1 \in 1..(n + 1) /\ e[n + 1] = i
          BY <3>2
        <4>2. QED
          BY <4>1
      <3>3. CASE i > 2
        <4>1. i - 1 \in 1..(n + 1) /\ e[i - 1] = i
          BY <3>3
        <4>2. QED
          BY <4>1
      <3>4. QED
        BY <3>1, <3>2, <3>3
    <2> HIDE DEF e
    <2>4. QED
      BY <1>2, <2>1, <2>2, <2>3 DEF Lists
  <1>4. e[1] = 1 /\ e[n + 1] = 2 /\ \A i \in 1..(n - 1) : e[i + 1] = 2 + i
    OBVIOUS
  <1> HIDE DEF e
  <1>5. T \in Nat /\ Before(ns, n + 1) = T
    BY BeforeNext, TotalIsSum DEF Nights, T
  <1>6. /\ Key(legs, e[1]) = 5 /\ Key(legs, e[n + 1]) = T * 5 + 4
        /\ \A i \in 1..(n - 1) : Key(legs, e[i + 1]) = Before(ns, i + 1) * 5 + 2
    <2>1. Key(legs, 1) = 5 /\ Key(legs, 2) = T * 5 + 4
      BY <1>2 DEF Key, Leg, LegOrder
    <2>2. ASSUME NEW i \in 1..(n - 1) PROVE Key(legs, e[i + 1]) = Before(ns, i + 1) * 5 + 2
      <3>1. legs[e[i + 1]] = Transfer(ids, ns, i)
        BY <1>2, <1>4
      <3>2. QED
        BY <3>1, TransferKey
    <2>3. QED
      BY <1>4, <2>1, <2>2
  <1>7. /\ T \in Nat /\ T > 0
        /\ \A i \in 2..(n + 1) : Before(ns, i) \in Nat /\ Before(ns, i) > 0 /\ Before(ns, i) <= T
        /\ \A i \in 2..n : Before(ns, i) < T
        /\ \A i, j \in 2..(n + 1) : j < i => Before(ns, j) < Before(ns, i)
    BY BeforeBounds DEF T
  <1>8. \A p \in 1..(n + 1) : p = 1 \/ (\E i \in 1..(n - 1) : p = i + 1) \/ p = n + 1
    <2> SUFFICES ASSUME NEW p \in 1..(n + 1), p > 1, p < n + 1 PROVE \E i \in 1..(n - 1) : p = i + 1
      OBVIOUS
    <2>1. p - 1 \in 1..(n - 1) /\ p = (p - 1) + 1
      OBVIOUS
    <2>2. QED
      BY <2>1
  <1>9. ASSUME NEW i \in 1..(n - 1)
        PROVE  \E b \in Nat : /\ b > 0 /\ b < T /\ b = Before(ns, i + 1)
                              /\ Key(legs, e[i + 1]) = b * 5 + 2
    <2>1. i + 1 \in 2..n /\ i + 1 \in 2..(n + 1)
      OBVIOUS
    <2>2. QED
      BY <1>6, <1>7, <2>1
  <1>10. ASSUME NEW p \in 1..(n + 1) PROVE Key(legs, e[p]) \in Nat
    <2>1. CASE p = 1 \/ p = n + 1
      BY <1>5, <1>6, <2>1
    <2>2. ASSUME NEW i \in 1..(n - 1), p = i + 1 PROVE Key(legs, e[p]) \in Nat
      BY <1>9, <2>2
    <2>3. QED
      BY <1>8, <2>1, <2>2
  <1>11. ASSUME NEW p \in 1..(n + 1), NEW q \in 1..(n + 1), p < q
         PROVE  Key(legs, e[p]) < Key(legs, e[q])
    <2>1. ASSUME NEW i \in 1..(n - 1), q = i + 1 PROVE Key(legs, e[p]) < Key(legs, e[q])
      <3>1. PICK b \in Nat : b > 0 /\ b = Before(ns, i + 1) /\ Key(legs, e[q]) = b * 5 + 2
        BY <1>9, <2>1
      <3>2. CASE p = 1
        BY <1>6, <3>1, <3>2
      <3>3. ASSUME NEW j \in 1..(n - 1), p = j + 1 PROVE Key(legs, e[p]) < Key(legs, e[q])
        <4>1. PICK a \in Nat : a = Before(ns, j + 1) /\ Key(legs, e[p]) = a * 5 + 2
          BY <1>9, <3>3
        <4>2. i + 1 \in 2..(n + 1) /\ j + 1 \in 2..(n + 1) /\ j + 1 < i + 1
          BY <1>11, <2>1, <3>3
        <4>3. Before(ns, j + 1) < Before(ns, i + 1)
          BY <1>7, <4>2
        <4>4. a < b
          BY ONLY <3>1, <4>1, <4>3
        <4>5. a * 5 + 2 < b * 5 + 2
          BY ONLY <4>4, a \in Nat, b \in Nat
        <4>6. QED
          BY ONLY <3>1, <4>1, <4>5
      <3>4. p # n + 1
        BY <1>11, <2>1
      <3>5. QED
        BY <1>8, <3>2, <3>3, <3>4
    <2>2. CASE q = n + 1
      <3>1. Key(legs, e[q]) = T * 5 + 4
        BY <1>6, <2>2
      <3>2. CASE p = 1
        BY <1>6, <1>7, <3>1, <3>2
      <3>3. ASSUME NEW j \in 1..(n - 1), p = j + 1 PROVE Key(legs, e[p]) < Key(legs, e[q])
        <4>1. PICK a \in Nat : a < T /\ Key(legs, e[p]) = a * 5 + 2
          BY <1>9, <3>3
        <4>2. QED
          BY <1>7, <3>1, <4>1
      <3>4. p # n + 1
        BY <1>11, <2>2
      <3>5. QED
        BY <1>8, <3>2, <3>3, <3>4
    <2>3. q # 1
      BY <1>11
    <2>4. QED
      BY <1>8, <2>1, <2>2, <2>3
  <1>12. Resequence(legs) = e
    <2>1. DOMAIN legs \in SUBSET Nat
      BY <1>2
    <2>2. n + 1 \in Nat
      OBVIOUS
    <2>3. QED
      BY <1>3, <1>10, <1>11, <2>1, <2>2, ResequenceIs
  <1>13. DOMAIN e = 1..(n + 1)
    BY <1>3 DEF Lists
  <1>14. Sorted(legs) = [p \in 1..(n + 1) |-> legs[e[p]]]
    BY <1>12, <1>13 DEF Sorted
  <1>15. 1 \in 1..(n + 1) /\ n + 1 \in 1..(n + 1) /\ \A i \in 1..(n - 1) : i + 1 \in 1..(n + 1)
    OBVIOUS
  <1>a. \A p \in 1..(n + 1) : Sorted(legs)[p] = legs[e[p]]
    BY <1>14
  <1>b. Sorted(legs)[1] = legs[1] /\ Sorted(legs)[n + 1] = legs[2]
    <2>1. 1 \in 1..(n + 1) /\ e[1] = 1
      BY ONLY <1>4, <1>15, Zenon
    <2>2. n + 1 \in 1..(n + 1) /\ e[n + 1] = 2
      BY ONLY <1>4, <1>15, Zenon
    <2>3. Sorted(legs)[1] = legs[1]
      BY ONLY <1>a, <2>1
    <2>4. Sorted(legs)[n + 1] = legs[2]
      BY ONLY <1>a, <2>2, Zenon
    <2>5. QED
      BY <2>3, <2>4
  <1>d. ASSUME NEW i \in 1..(n - 1) PROVE Sorted(legs)[i + 1] = legs[2 + i]
    <2>1. i + 1 \in 1..(n + 1) /\ e[i + 1] = 2 + i
      BY <1>4, <1>15
    <2>2. QED
      BY <1>a, <2>1
  <1>c. DOMAIN Sorted(legs) = 1..(n + 1)
    BY <1>14
  <1>16. Direct(Sorted(legs), n, ids, ns)
    BY <1>2, <1>b, <1>c, <1>d DEF Direct, T
  <1>17. QED
    BY <1>16 DEF legs

\* A tour of the stops through g, in 0 or 1 legs more each way: leg c + i arrives
\* at stop i, and the next leaves it on its last day.
Tour(legs, n, ids, ns, g, c) ==
  /\ DOMAIN legs = 1..(n + 1 + 2 * c) /\ Len(legs) = n + 1 + 2 * c
  /\ \A i \in 1..n : /\ legs[c + i].to = ids[i]
                     /\ legs[c + i + 1].from = ids[i] /\ legs[c + i + 1].day = Before(ns, i + 1)
  /\ legs[c + 1].day = 1
  /\ IF c = 0
       THEN legs[1].from = Source /\ legs[n + 1].to = Source
       ELSE /\ legs[1].from = Source /\ legs[1].to = g /\ legs[1].day = 1 /\ legs[2].from = g
            /\ legs[n + 2].to = g /\ legs[n + 3].from = g /\ legs[n + 3].to = Source
            /\ legs[n + 3].day = Total(ns)

LEMMA ThroughIsTour ==
  ASSUME NEW n \in Nat \ {0}, NEW ids, NEW ns \in Nights(n), NEW g, NEW legs,
         ThroughGateway(legs, n, ids, ns, g), legs = [i \in DOMAIN legs |-> legs[i]]
  PROVE  Tour(legs, n, ids, ns, g, 1)
  <1>1. DOMAIN legs = 1..(n + 1 + 2 * 1) /\ Len(legs) = n + 1 + 2 * 1
    <2>1. DOMAIN legs = 1..(n + 3) /\ n + 3 \in Nat
      BY DEF ThroughGateway
    <2>2. Len([i \in 1..(n + 3) |-> legs[i]]) = n + 3
      OBVIOUS
    <2>3. QED
      BY <2>1, <2>2
  <1>2. ASSUME NEW i \in 1..n
        PROVE  /\ legs[1 + i].to = ids[i]
               /\ legs[1 + i + 1].from = ids[i] /\ legs[1 + i + 1].day = Before(ns, i + 1)
    <2>1. legs[1 + i].to = ids[i]
      <3>1. CASE i = 1
        BY <3>1 DEF ThroughGateway, Leg
      <3>2. CASE i # 1
        <4>1. i - 1 \in 1..(n - 1) /\ (i - 1) + 2 = 1 + i /\ (i - 1) + 1 = i
          BY <3>2
        <4>2. legs[1 + i] = Transfer(ids, ns, i - 1)
          BY <4>1 DEF ThroughGateway
        <4>3. QED
          BY <4>1, <4>2 DEF Transfer, Leg
      <3>3. QED
        BY <3>1, <3>2
    <2>2. legs[1 + i + 1].from = ids[i] /\ legs[1 + i + 1].day = Before(ns, i + 1)
      <3>1. CASE i = n
        <4>1. 1 + i + 1 = n + 2 /\ Before(ns, i + 1) = Total(ns)
          BY <3>1, BeforeNext
        <4>2. QED
          BY <3>1, <4>1 DEF ThroughGateway, Leg
      <3>2. CASE i # n
        <4>1. i \in 1..(n - 1) /\ i + 2 = 1 + i + 1
          BY <3>2
        <4>2. legs[1 + i + 1] = Transfer(ids, ns, i)
          BY <4>1 DEF ThroughGateway
        <4>3. QED
          BY <4>2 DEF Transfer, Leg
      <3>3. QED
        BY <3>1, <3>2
    <2>3. QED
      BY <2>1, <2>2
  <1>3. /\ legs[1 + 1].day = 1
        /\ legs[1].from = Source /\ legs[1].to = g /\ legs[1].day = 1 /\ legs[2].from = g
        /\ legs[n + 2].to = g /\ legs[n + 3].from = g /\ legs[n + 3].to = Source
        /\ legs[n + 3].day = Total(ns)
    BY DEF ThroughGateway, Leg
  <1>4. QED
    BY <1>1, <1>2, <1>3 DEF Tour

LEMMA DirectIsTour ==
  ASSUME NEW n \in Nat \ {0}, NEW ids, NEW ns \in Nights(n), NEW g, NEW legs,
         Direct(legs, n, ids, ns), legs = [i \in DOMAIN legs |-> legs[i]]
  PROVE  Tour(legs, n, ids, ns, g, 0)
  <1>1. DOMAIN legs = 1..(n + 1 + 2 * 0) /\ Len(legs) = n + 1 + 2 * 0
    <2>1. DOMAIN legs = 1..(n + 1) /\ n + 1 \in Nat
      BY DEF Direct
    <2>2. Len([i \in 1..(n + 1) |-> legs[i]]) = n + 1
      OBVIOUS
    <2>3. QED
      BY <2>1, <2>2
  <1>2. ASSUME NEW i \in 1..n
        PROVE  /\ legs[0 + i].to = ids[i]
               /\ legs[0 + i + 1].from = ids[i] /\ legs[0 + i + 1].day = Before(ns, i + 1)
    <2>1. legs[0 + i].to = ids[i]
      <3>1. CASE i = 1
        BY <3>1 DEF Direct, Leg
      <3>2. CASE i # 1
        <4>1. i - 1 \in 1..(n - 1) /\ (i - 1) + 1 = 0 + i /\ (i - 1) + 1 = i
          BY <3>2
        <4>2. legs[0 + i] = Transfer(ids, ns, i - 1)
          BY <4>1 DEF Direct
        <4>3. QED
          BY <4>1, <4>2 DEF Transfer, Leg
      <3>3. QED
        BY <3>1, <3>2
    <2>2. legs[0 + i + 1].from = ids[i] /\ legs[0 + i + 1].day = Before(ns, i + 1)
      <3>1. CASE i = n
        <4>1. 0 + i + 1 = n + 1 /\ Before(ns, i + 1) = Total(ns)
          BY <3>1, BeforeNext
        <4>2. QED
          BY <3>1, <4>1 DEF Direct, Leg
      <3>2. CASE i # n
        <4>1. i \in 1..(n - 1) /\ i + 1 = 0 + i + 1
          BY <3>2
        <4>2. legs[0 + i + 1] = Transfer(ids, ns, i)
          BY <4>1 DEF Direct
        <4>3. QED
          BY <4>2 DEF Transfer, Leg
      <3>3. QED
        BY <3>1, <3>2
    <2>3. QED
      BY <2>1, <2>2
  <1>3. legs[0 + 1].day = 1 /\ legs[1].from = Source /\ legs[n + 1].to = Source
    BY DEF Direct, Leg
  <1>4. QED
    BY <1>1, <1>2, <1>3 DEF Tour

\* Where each leg starts and on what day, and where it ends.
LegsFrom(legs, n, ids, ns, g, c) ==
  \A k \in 1..Len(legs) :
    \/ k <= c + 1 /\ legs[k].from \in {Source, g} /\ legs[k].day = 1
    \/ \E i \in 1..n : k = c + i + 1 /\ legs[k].from = ids[i] /\ legs[k].day = Before(ns, i + 1)
    \/ c = 1 /\ k = n + 3 /\ legs[k].from = g /\ legs[k].day = Total(ns)

LegsTo(legs, n, ids, g, c) ==
  \A k \in 1..Len(legs) :
    \/ c = 1 /\ k = 1 /\ legs[k].to = g
    \/ \E i \in 1..n : k = c + i /\ legs[k].to = ids[i]
    \/ k > c + n /\ legs[k].to \in {Source, g}

LEMMA TourLegs ==
  ASSUME NEW n \in Nat \ {0}, NEW ids, NEW ns \in Nights(n), NEW g, NEW c \in {0, 1}, NEW legs,
         Tour(legs, n, ids, ns, g, c)
  PROVE  LegsFrom(legs, n, ids, ns, g, c) /\ LegsTo(legs, n, ids, g, c)
  <1>1. Len(legs) = n + 1 + 2 * c
    BY DEF Tour
  <1>2. ASSUME NEW k \in 1..Len(legs)
        PROVE  \/ k <= c + 1 /\ legs[k].from \in {Source, g} /\ legs[k].day = 1
               \/ \E i \in 1..n : k = c + i + 1 /\ legs[k].from = ids[i] /\ legs[k].day = Before(ns, i + 1)
               \/ c = 1 /\ k = n + 3 /\ legs[k].from = g /\ legs[k].day = Total(ns)
    <2>1. CASE k <= c + 1
      <3>1. (c = 0 /\ k = 1) \/ (c = 1 /\ k = 1) \/ (c = 1 /\ k = 2)
        BY <2>1
      <3>2. QED
        BY <2>1, <3>1 DEF Tour
    <2>2. CASE k > c + 1 /\ k <= c + n + 1
      <3>1. PICK i \in 1..n : k = c + i + 1
        <4>1. k - c - 1 \in 1..n /\ k = c + (k - c - 1) + 1
          BY <2>2
        <4>2. QED
          BY <4>1
      <3>2. legs[k].from = ids[i] /\ legs[k].day = Before(ns, i + 1)
        BY <3>1 DEF Tour
      <3>3. QED
        BY <3>1, <3>2
    <2>3. CASE k > c + n + 1
      <3>1. c = 1 /\ k = n + 3
        BY <1>1, <2>3
      <3>2. QED
        BY <3>1 DEF Tour
    <2>4. QED
      BY <2>1, <2>2, <2>3
  <1>3. ASSUME NEW k \in 1..Len(legs)
        PROVE  \/ c = 1 /\ k = 1 /\ legs[k].to = g
               \/ \E i \in 1..n : k = c + i /\ legs[k].to = ids[i]
               \/ k > c + n /\ legs[k].to \in {Source, g}
    <2>1. CASE k <= c
      <3>1. c = 1 /\ k = 1
        BY <2>1
      <3>2. QED
        BY <3>1 DEF Tour
    <2>2. CASE k > c /\ k <= c + n
      <3>1. PICK i \in 1..n : k = c + i
        <4>1. k - c \in 1..n /\ k = c + (k - c)
          BY <2>2
        <4>2. QED
          BY <4>1
      <3>2. QED
        BY <3>1 DEF Tour
    <2>3. CASE k > c + n
      <3>1. (c = 0 /\ k = n + 1) \/ (c = 1 /\ k = n + 2) \/ (c = 1 /\ k = n + 3)
        BY <1>1, <2>3
      <3>2. QED
        BY <2>3, <3>1 DEF Tour
    <2>4. QED
      BY <2>1, <2>2, <2>3
  <1>4. QED
    BY <1>2, <1>3 DEF LegsFrom, LegsTo

\* The legs follow on one another, in place and in time.
LEMMA TourFollows ==
  ASSUME NEW n \in Nat \ {0}, NEW ids, NEW ns \in Nights(n), NEW g, NEW c \in {0, 1}, NEW legs,
         Tour(legs, n, ids, ns, g, c), NEW k \in 1..(Len(legs) - 1)
  PROVE  legs[k].to = legs[k + 1].from /\ legs[k].day <= legs[k + 1].day
  <1>1. Len(legs) = n + 1 + 2 * c
    BY DEF Tour
  <1>2. /\ Total(ns) \in Nat /\ Total(ns) > 0 /\ Before(ns, n + 1) = Total(ns)
        /\ \A i \in 2..(n + 1) : Before(ns, i) \in Nat /\ Before(ns, i) > 0 /\ Before(ns, i) <= Total(ns)
        /\ \A i, j \in 2..(n + 1) : j < i => Before(ns, j) < Before(ns, i)
    BY BeforeBounds, BeforeNext
  <1>3. CASE k <= c
    <2>1. c = 1 /\ k = 1
      BY <1>3
    <2>2. QED
      BY <2>1 DEF Tour
  <1>4. CASE k > c /\ k <= c + n
    <2>1. PICK i \in 1..n : k = c + i
      <3>1. k - c \in 1..n /\ k = c + (k - c)
        BY <1>4
      <3>2. QED
        BY <3>1
    <2>2. legs[k].to = ids[i] /\ legs[k + 1].from = ids[i] /\ legs[k + 1].day = Before(ns, i + 1)
      BY <2>1 DEF Tour
    <2>3. legs[k].day <= legs[k + 1].day
      <3>1. i + 1 \in 2..(n + 1)
        OBVIOUS
      <3>2. PICK b \in Nat : b = Before(ns, i + 1) /\ b > 0
        BY <1>2, <3>1
      <3>3. CASE i = 1
        <4>1. legs[k].day = 1
          BY <2>1, <3>3 DEF Tour
        <4>2. QED
          BY <2>2, <3>2, <4>1
      <3>4. CASE i # 1
        <4>1. PICK j \in 1..n : i = j + 1
          <5>1. i - 1 \in 1..n /\ i = (i - 1) + 1
            BY <3>4
          <5>2. QED
            BY <5>1
        <4>2. k = c + j + 1
          BY <2>1, <4>1
        <4>3. legs[k].day = Before(ns, j + 1)
          BY <4>2 DEF Tour
        <4>4. j + 1 \in 2..(n + 1) /\ j + 1 < i + 1
          BY <4>1
        <4>5. Before(ns, j + 1) \in Nat /\ Before(ns, j + 1) < Before(ns, i + 1)
          BY <1>2, <3>1, <4>4
        <4>6. QED
          BY <2>2, <3>2, <4>3, <4>5
      <3>5. QED
        BY <3>3, <3>4
    <2>4. QED
      BY <2>2, <2>3
  <1>5. CASE k > c + n
    <2>1. c = 1 /\ k = n + 2 /\ k + 1 = n + 3
      BY <1>1, <1>5
    <2>2. legs[k].to = g /\ legs[k + 1].from = g /\ legs[k + 1].day = Total(ns)
      BY <2>1 DEF Tour
    <2>3. legs[k].day = Total(ns)
      <3>1. n \in 1..n /\ k = c + n + 1
        BY <2>1
      <3>2. QED
        BY <1>2, <3>1 DEF Tour
    <2>4. QED
      BY <1>2, <2>2, <2>3
  <1>6. QED
    BY <1>3, <1>4, <1>5

-----------------------------------------------------------------------------
(* Routes as the code shapes them. *)

\* What a shaped route is made of.
Made(route, total, shaped, n, ids, ns) ==
  /\ n <= total /\ n <= Len(route.stops) /\ ns \in Nights(n) /\ Total(ns) = total
  /\ ids \in [1..n -> Places \X (Nat \ {0})] /\ Distinct(ids, n)
  /\ \A i \in 1..n : ids[i][1] = route.stops[i].place
  /\ shaped.byDay = StopsByDay(ids, ns)
  /\ shaped.stops = [i \in 1..n |-> [id |-> ids[i], nights |-> ns[i], arrival |-> Before(ns, i) + 1,
                                     departure |-> Before(ns, i + 1) + 1]]
  /\ \E gateway : /\ shaped.legs = Sorted(RawLegs(gateway, ids, StopsByDay(ids, ns)))
                  /\ shaped.gateway = IF gateway = ids[1][1] THEN ids[1] ELSE GatewayId(gateway)

\* The route made of these stops, nights and gateway.
Shape(ids, ns, gateway) ==
  LET byDay == StopsByDay(ids, ns)
  IN  [status |-> "multi_stop_provisional",
       stops |-> [i \in DOMAIN ids |->
                    [id |-> ids[i], nights |-> ns[i], arrival |-> FirstOf(DaysOf(byDay, ids[i])),
                     departure |-> LastOf(DaysOf(byDay, ids[i])) + 1]],
       byDay |-> byDay,
       legs |-> Sorted(RawLegs(gateway, ids, byDay)),
       gateway |-> IF gateway = ids[1][1] THEN ids[1] ELSE GatewayId(gateway)]

LEMMA ShapedIsMade ==
  ASSUME NEW route \in Proposal, NEW total \in Nat \ {0},
         ShapeRoute(route, total).status = "multi_stop_provisional"
  PROVE  \E n \in Nat \ {0} : \E ids, ns : Made(route, total, ShapeRoute(route, total), n, ids, ns)
  <1>1. route.stops # <<>> /\ route.status # "single_destination"
    BY DEF ShapeRoute, EmptyResult
  <1>2. PICK n \in Nat \ {0} :
          /\ n <= total /\ n <= Len(route.stops)
          /\ Kept(route, total) \in [1..n -> Stop] /\ Len(Kept(route, total)) = n
          /\ \A i \in 1..n : Kept(route, total)[i] = route.stops[i]
    BY <1>1, KeptStops
  <1> DEFINE kept == Kept(route, total)
  <1>3. PICK ids : ids = StopIds(kept)
    OBVIOUS
  <1>4. PICK ns : ns = NormalizeNights([i \in DOMAIN kept |-> AtLeastOne(kept[i].hint)], total)
    OBVIOUS
  <1>5. ns \in Nights(n) /\ Total(ns) = total
    <2>1. [i \in DOMAIN kept |-> AtLeastOne(kept[i].hint)] \in Nights(n)
      <3>1. \A i \in 1..n : kept[i].hint \in Nat
        BY <1>2, BoundsAssumption DEF Stop
      <3>2. DOMAIN kept = 1..n
        BY <1>2
      <3>3. QED
        BY <3>1, <3>2 DEF Nights, AtLeastOne
    <2>2. total \in Nat /\ n <= total
      BY <1>2
    <2>3. QED
      BY <1>4, <2>1, <2>2, NormalizedNights
  <1>6. DOMAIN ids = 1..n /\ DOMAIN kept = 1..n
    BY <1>2, <1>3 DEF StopIds
  <1>7. \A i \in 1..n : ids[i] = <<kept[i].place, Cardinality({j \in 1..i : kept[j].place = kept[i].place})>>
    BY <1>3, <1>6 DEF StopIds
  <1>8. Distinct(ids, n)
    BY <1>3, <1>6, IdsDiffer DEF Distinct
  <1>9. ASSUME NEW i \in 1..n
        PROVE  ids[i][1] = route.stops[i].place /\ ids[i] \in Places \X (Nat \ {0})
    <2>a. ids[i] = <<kept[i].place, Cardinality({j \in 1..i : kept[j].place = kept[i].place})>>
      BY <1>7
    <2>b. kept[i] = route.stops[i] /\ kept[i] \in Stop
      BY <1>2
    <2>1. ids[i][1] = kept[i].place /\ kept[i] = route.stops[i] /\ kept[i] \in Stop
      BY <2>a, <2>b
    <2>2. PICK s : s = {j \in 1..i : kept[j].place = kept[i].place}
      OBVIOUS
    <2>3. i \in s /\ s \subseteq 1..i /\ IsFiniteSet(1..i)
      BY <2>2, FS_Interval
    <2>4. IsFiniteSet(s)
      BY <2>3, FS_Subset
    <2>5. Cardinality(s) \in Nat \ {0}
      BY <2>3, <2>4, FS_CardinalityType, FS_EmptySet
    <2>6. ids[i] = <<kept[i].place, Cardinality(s)>>
      BY <2>a, <2>2
    <2>7. kept[i].place \in Places
      BY <2>b DEF Stop
    <2>8. QED
      BY <2>1, <2>5, <2>6, <2>7
  <1>10. ShapeRoute(route, total).byDay = StopsByDay(ids, ns)
    BY <1>1, <1>3, <1>4 DEF ShapeRoute, Kept
  <1>11. ShapeRoute(route, total).stops =
           [i \in DOMAIN ids |-> [id |-> ids[i], nights |-> ns[i],
                                  arrival |-> FirstOf(DaysOf(StopsByDay(ids, ns), ids[i])),
                                  departure |-> LastOf(DaysOf(StopsByDay(ids, ns), ids[i])) + 1]]
    BY <1>1, <1>3, <1>4 DEF ShapeRoute, Kept
  <1>12. \A i \in 1..n : /\ FirstOf(DaysOf(StopsByDay(ids, ns), ids[i])) = Before(ns, i) + 1
                         /\ LastOf(DaysOf(StopsByDay(ids, ns), ids[i])) = Before(ns, i + 1)
    BY <1>5, <1>6, <1>8, StopsDays
  <1>13. ShapeRoute(route, total).stops =
           [i \in 1..n |-> [id |-> ids[i], nights |-> ns[i], arrival |-> Before(ns, i) + 1,
                            departure |-> Before(ns, i + 1) + 1]]
    BY <1>6, <1>11, <1>12
  <1>14. PICK gateway : gateway = Recommended(route.gateways, ids[1][1])
    OBVIOUS
  <1>15. /\ ShapeRoute(route, total).legs = Sorted(RawLegs(gateway, ids, StopsByDay(ids, ns)))
         /\ ShapeRoute(route, total).gateway = IF gateway = ids[1][1] THEN ids[1] ELSE GatewayId(gateway)
    <2>1. ShapeRoute(route, total) =
            Shape(StopIds(kept), NormalizeNights([i \in DOMAIN kept |-> AtLeastOne(kept[i].hint)], total),
                  Recommended(route.gateways, StopIds(kept)[1][1]))
      BY <1>1 DEF ShapeRoute, Kept, Shape, RawLegs, Sorted
    <2>2. ShapeRoute(route, total) = Shape(ids, ns, gateway)
      BY ONLY <1>3, <1>4, <1>14, <2>1
    <2>3. QED
      BY <2>2 DEF Shape
  <1>16. ids = [i \in 1..n |-> <<kept[i].place, Cardinality({j \in 1..i : kept[j].place = kept[i].place})>>]
    BY <1>3, <1>6 DEF StopIds
  <1>17. ids \in [1..n -> Places \X (Nat \ {0})]
    BY <1>9, <1>16
  <1>18. Made(route, total, ShapeRoute(route, total), n, ids, ns)
    BY <1>2, <1>5, <1>8, <1>9, <1>10, <1>13, <1>15, <1>17 DEF Made
  <1>19. QED
    BY <1>18

\* The legs of a shaped route are a tour of its stops.
LEMMA MadeIsTour ==
  ASSUME NEW route, NEW total, NEW shaped, NEW n \in Nat \ {0}, NEW ids, NEW ns,
         Made(route, total, shaped, n, ids, ns)
  PROVE  \E g : \E c \in {0, 1} : /\ Tour(shaped.legs, n, ids, ns, g, c)
                                  /\ g[2] = 0
                                  /\ shaped.gateway = IF c = 0 THEN ids[1] ELSE g
  <1>1. /\ ids \in [1..n -> Places \X (Nat \ {0})] /\ Distinct(ids, n) /\ ns \in Nights(n)
    BY DEF Made
  <1>2. PICK gateway : /\ shaped.legs = Sorted(RawLegs(gateway, ids, StopsByDay(ids, ns)))
                       /\ shaped.gateway = IF gateway = ids[1][1] THEN ids[1] ELSE GatewayId(gateway)
    BY DEF Made
  <1>3. ids \in [1..n -> Places \X Nat]
    BY <1>1
  <1>4. GatewayId(gateway)[2] = 0
    BY DEF GatewayId
  <1>5. shaped.legs = [i \in DOMAIN shaped.legs |-> shaped.legs[i]]
    BY <1>2 DEF Sorted
  <1>6. CASE gateway = ids[1][1]
    <2>1. Direct(shaped.legs, n, ids, ns)
      BY <1>1, <1>2, <1>3, <1>6, SortedDirect
    <2>2. Tour(shaped.legs, n, ids, ns, GatewayId(gateway), 0)
      BY <1>1, <1>5, <2>1, DirectIsTour
    <2>3. QED
      BY <1>2, <1>4, <1>6, <2>2
  <1>7. CASE gateway # ids[1][1]
    <2>1. ThroughGateway(shaped.legs, n, ids, ns, GatewayId(gateway))
      BY <1>1, <1>2, <1>3, <1>7, SortedThrough
    <2>2. Tour(shaped.legs, n, ids, ns, GatewayId(gateway), 1)
      BY <1>1, <1>5, <2>1, ThroughIsTour
    <2>3. QED
      BY <1>2, <1>4, <1>7, <2>2
  <1>8. QED
    BY <1>6, <1>7

LEMMA ShapedAddsUp ==
  ASSUME days' \in Nat \ {0}, proposal' \in Proposal, plan' = ShapeRoute(proposal', days')
  PROVE  NightsAddUp'
  <1> SUFFICES ASSUME plan'.status = "multi_stop_provisional" PROVE NightsAddUp'
    BY DEF NightsAddUp, Shaped
  <1>0. PICK n \in Nat \ {0} : \E ids, ns : Made(proposal', days', plan', n, ids, ns)
    BY ShapedIsMade
  <1>1. PICK ids, ns : Made(proposal', days', plan', n, ids, ns)
    BY <1>0
  <1>2. /\ ns \in Nights(n) /\ Total(ns) = days' /\ ids \in [1..n -> Places \X (Nat \ {0})]
        /\ DOMAIN ids = 1..n /\ Distinct(ids, n)
        /\ \A i \in 1..n : ids[i][1] = proposal'.stops[i].place
        /\ plan'.byDay = StopsByDay(ids, ns)
        /\ plan'.stops = [i \in 1..n |-> [id |-> ids[i], nights |-> ns[i], arrival |-> Before(ns, i) + 1,
                                          departure |-> Before(ns, i + 1) + 1]]
    BY <1>1 DEF Made
  <1>3. /\ DOMAIN plan'.stops = 1..n
        /\ \A i \in 1..n : /\ plan'.stops[i].id = ids[i] /\ plan'.stops[i].nights = ns[i]
                           /\ plan'.stops[i].arrival = Before(ns, i) + 1
                           /\ plan'.stops[i].departure = Before(ns, i + 1) + 1
    BY <1>2
  <1>4. Len(plan'.byDay) = days'
    BY <1>2, DaysInARow
  <1>5. Total([i \in DOMAIN plan'.stops |-> plan'.stops[i].nights]) = days'
    <2>1. [i \in DOMAIN plan'.stops |-> plan'.stops[i].nights] = ns
      BY <1>2, <1>3 DEF Nights
    <2>2. QED
      BY <1>2, <2>1
  <1>6. \A i \in 1..n : /\ Before(ns, i) \in Nat /\ Before(ns, i + 1) \in Nat /\ ns[i] \in Nat \ {0}
                        /\ Before(ns, i + 1) = Before(ns, i) + ns[i]
    BY <1>2, BeforeNext DEF Nights
  <1>7. plan'.stops[1].arrival = 1
    BY <1>2, <1>3, BeforeNext
  <1>8. ASSUME NEW i \in 1..n
        PROVE  /\ plan'.stops[i].id[1] = proposal'.stops[i].place
               /\ plan'.stops[i].nights >= 1
               /\ plan'.stops[i].departure = plan'.stops[i].arrival + plan'.stops[i].nights
               /\ DaysOf(plan'.byDay, plan'.stops[i].id) = plan'.stops[i].arrival..plan'.stops[i].departure - 1
               /\ i > 1 => plan'.stops[i].arrival = plan'.stops[i - 1].departure
    <2>1. /\ plan'.stops[i].id = ids[i] /\ plan'.stops[i].nights = ns[i]
          /\ plan'.stops[i].arrival = Before(ns, i) + 1 /\ plan'.stops[i].departure = Before(ns, i + 1) + 1
      BY <1>3
    <2>2. /\ Before(ns, i) \in Nat /\ Before(ns, i + 1) \in Nat /\ ns[i] \in Nat \ {0}
          /\ Before(ns, i + 1) = Before(ns, i) + ns[i]
      BY <1>6
    <2>3. plan'.stops[i].id[1] = proposal'.stops[i].place
      BY <1>2, <2>1
    <2>4. plan'.stops[i].nights >= 1 /\ plan'.stops[i].departure = plan'.stops[i].arrival + plan'.stops[i].nights
      BY <2>1, <2>2
    <2>5. DaysOf(plan'.byDay, ids[i]) = (Before(ns, i) + 1)..Before(ns, i + 1)
      <3>1. DaysOf(StopsByDay(ids, ns), ids[i]) = (Before(ns, i) + 1)..Before(ns, i + 1)
        <4>1. DOMAIN ids = 1..n /\ ns \in Nights(n) /\ Distinct(ids, n)
          BY <1>2
        <4>2. QED
          BY <4>1, StopsDays
      <3>2. QED
        BY <1>2, <3>1
    <2>6. (Before(ns, i + 1) + 1) - 1 = Before(ns, i + 1)
      BY <2>2
    <2>7. DaysOf(plan'.byDay, plan'.stops[i].id) = plan'.stops[i].arrival..plan'.stops[i].departure - 1
      BY <2>1, <2>5, <2>6
    <2>8. ASSUME i > 1 PROVE plan'.stops[i].arrival = plan'.stops[i - 1].departure
      <3>1. i - 1 \in 1..n /\ (i - 1) + 1 = i
        BY <2>8
      <3>2. plan'.stops[i - 1].departure = Before(ns, (i - 1) + 1) + 1
        BY <1>3, <3>1
      <3>3. QED
        BY <2>1, <3>1, <3>2
    <2>9. QED
      BY <2>3, <2>4, <2>7, <2>8
  <1>9. QED
    BY <1>3, <1>4, <1>5, <1>7, <1>8 DEF NightsAddUp, DaysOf

\* LegsMakeATour, of a route.
MakesATour(route) ==
  LET n == Len(route.legs)
  IN  /\ route.legs[1].from = Source /\ route.legs[n].to = Source
      /\ \A i \in 1..n - 1 : /\ route.legs[i].to = route.legs[i + 1].from
                             /\ route.legs[i].day <= route.legs[i + 1].day
      /\ \E visit \in [DOMAIN route.stops -> 1..n] :
           /\ {k \in 1..n : route.legs[k].to[2] > 0} = Range(visit)
           /\ \A i \in DOMAIN route.stops : route.legs[visit[i]].to = route.stops[i].id
           /\ \A i, j \in DOMAIN route.stops : i < j => visit[i] < visit[j]
      /\ \A i \in 1..n, j \in DOMAIN route.stops :
           route.legs[i].from = route.stops[j].id => route.legs[i].day = route.stops[j].departure - 1

LEMMA MadeMakesATour ==
  ASSUME NEW route, NEW total, NEW shaped, NEW n \in Nat \ {0}, NEW ids, NEW ns,
         Made(route, total, shaped, n, ids, ns)
  PROVE  MakesATour(shaped)
  <1>1. PICK g : \E c \in {0, 1} : Tour(shaped.legs, n, ids, ns, g, c) /\ g[2] = 0
    BY MadeIsTour
  <1>2. PICK c \in {0, 1} : Tour(shaped.legs, n, ids, ns, g, c) /\ g[2] = 0
    BY <1>1
  <1>3. /\ ns \in Nights(n) /\ ids \in [1..n -> Places \X (Nat \ {0})] /\ Distinct(ids, n)
        /\ shaped.stops = [i \in 1..n |-> [id |-> ids[i], nights |-> ns[i], arrival |-> Before(ns, i) + 1,
                                          departure |-> Before(ns, i + 1) + 1]]
    BY DEF Made
  <1>4. /\ DOMAIN shaped.stops = 1..n
        /\ \A i \in 1..n : shaped.stops[i].id = ids[i] /\ shaped.stops[i].departure = Before(ns, i + 1) + 1
    BY <1>3
  <1>5. PICK legs : legs = shaped.legs
    OBVIOUS
  <1>6. PICK l \in Nat : l = Len(legs) /\ l = n + 1 + 2 * c /\ DOMAIN legs = 1..l
    BY <1>2, <1>5 DEF Tour
  <1>7. legs[1].from = Source /\ legs[l].to = Source
    <2>1. Tour(legs, n, ids, ns, g, c)
      BY <1>2, <1>5
    <2>2. CASE c = 0
      <3>1. l = n + 1
        BY <1>6, <2>2
      <3>2. QED
        BY <2>1, <2>2, <3>1 DEF Tour
    <2>3. CASE c = 1
      <3>1. l = n + 3
        BY <1>6, <2>3
      <3>2. QED
        BY <2>1, <2>3, <3>1 DEF Tour
    <2>4. QED
      BY <2>2, <2>3
  <1>8. \A k \in 1..(l - 1) : legs[k].to = legs[k + 1].from /\ legs[k].day <= legs[k + 1].day
    <2>1. Tour(legs, n, ids, ns, g, c) /\ ns \in Nights(n)
      BY <1>2, <1>3, <1>5
    <2>2. \A k \in 1..(Len(legs) - 1) : legs[k].to = legs[k + 1].from /\ legs[k].day <= legs[k + 1].day
      BY <2>1, TourFollows
    <2>3. QED
      BY <1>6, <2>2
  <1>9. /\ \A k \in 1..l :
             \/ k <= c + 1 /\ legs[k].from \in {Source, g} /\ legs[k].day = 1
             \/ \E i \in 1..n : k = c + i + 1 /\ legs[k].from = ids[i] /\ legs[k].day = Before(ns, i + 1)
             \/ c = 1 /\ k = n + 3 /\ legs[k].from = g /\ legs[k].day = Total(ns)
        /\ \A k \in 1..l :
             \/ c = 1 /\ k = 1 /\ legs[k].to = g
             \/ \E i \in 1..n : k = c + i /\ legs[k].to = ids[i]
             \/ k > c + n /\ legs[k].to \in {Source, g}
    <2>1. Tour(legs, n, ids, ns, g, c) /\ ns \in Nights(n)
      BY <1>2, <1>3, <1>5
    <2>2. Len(legs) = l
      BY <1>6
    <2>3. LegsFrom(legs, n, ids, ns, g, c) /\ LegsTo(legs, n, ids, g, c)
      BY <2>1, TourLegs
    <2>4. QED
      BY <2>2, <2>3 DEF LegsFrom, LegsTo
  <1>10. /\ Source[2] = 0 /\ g[2] = 0 /\ \A i \in 1..n : ids[i][2] \in Nat /\ ids[i][2] > 0
    BY <1>2, <1>3 DEF Source
  <1>11. PICK visit : visit = [i \in 1..n |-> c + i]
    OBVIOUS
  <1>12. visit \in [1..n -> 1..l] /\ \A i, j \in 1..n : i < j => visit[i] < visit[j]
    BY <1>6, <1>11
  <1>13. \A i \in 1..n : legs[visit[i]].to = ids[i]
    BY <1>2, <1>5, <1>11 DEF Tour
  <1>14. ASSUME NEW k \in 1..l PROVE legs[k].to[2] > 0 <=> k \in Range(visit)
    <2>1. ASSUME NEW i \in 1..n, k = c + i PROVE legs[k].to[2] > 0 /\ k \in Range(visit)
      <3>1. visit[i] = k /\ i \in DOMAIN visit
        BY <1>11, <2>1
      <3>2. legs[k].to = ids[i]
        BY <1>13, <3>1
      <3>3. QED
        BY <1>10, <3>1, <3>2 DEF Range
    <2>2. ASSUME k \in Range(visit) PROVE \E i \in 1..n : k = c + i
      BY <1>11, <2>2 DEF Range
    <2>3. ASSUME legs[k].to \in {Source, g} PROVE ~(legs[k].to[2] > 0)
      BY <1>10, <2>3
    <2>4. ASSUME ~(\E i \in 1..n : k = c + i) PROVE legs[k].to \in {Source, g}
      BY <1>9, <2>4
    <2>5. QED
      BY <2>1, <2>2, <2>3, <2>4
  <1>15. {k \in 1..l : legs[k].to[2] > 0} = Range(visit)
    <2>1. Range(visit) \subseteq 1..l
      BY <1>12 DEF Range
    <2>2. QED
      BY <1>14, <2>1
  <1>16. ASSUME NEW k \in 1..l, NEW j \in 1..n, legs[k].from = ids[j]
         PROVE  legs[k].day = (Before(ns, j + 1) + 1) - 1
    <2>1. legs[k].from # Source /\ legs[k].from # g
      BY <1>10, <1>16
    <2>2. PICK i \in 1..n : legs[k].from = ids[i] /\ legs[k].day = Before(ns, i + 1)
      BY <1>9, <2>1
    <2>3. i = j
      BY <1>3, <1>16, <2>2 DEF Distinct
    <2>4. Before(ns, j + 1) \in Nat
      BY <1>3, BeforeNext
    <2>5. QED
      BY <2>2, <2>3, <2>4
  <1>17. QED
    <2>1. \E v \in [DOMAIN shaped.stops -> 1..l] :
            /\ {k \in 1..l : shaped.legs[k].to[2] > 0} = Range(v)
            /\ \A i \in DOMAIN shaped.stops : shaped.legs[v[i]].to = shaped.stops[i].id
            /\ \A i, j \in DOMAIN shaped.stops : i < j => v[i] < v[j]
      <3>1. DOMAIN shaped.stops = 1..n /\ \A i \in 1..n : shaped.stops[i].id = ids[i]
        BY <1>4
      <3>2. /\ visit \in [DOMAIN shaped.stops -> 1..l]
            /\ {k \in 1..l : shaped.legs[k].to[2] > 0} = Range(visit)
            /\ \A i \in DOMAIN shaped.stops : shaped.legs[visit[i]].to = shaped.stops[i].id
            /\ \A i, j \in DOMAIN shaped.stops : i < j => visit[i] < visit[j]
        BY <1>5, <1>12, <1>13, <1>15, <3>1
      <3>3. QED
        BY <3>2
    <2>2. \A i \in 1..l, j \in DOMAIN shaped.stops :
            shaped.legs[i].from = shaped.stops[j].id => shaped.legs[i].day = shaped.stops[j].departure - 1
      BY <1>4, <1>5, <1>16
    <2>3. QED
      BY <1>5, <1>6, <1>7, <1>8, <2>1, <2>2 DEF MakesATour

LEMMA ShapedMakesATour ==
  ASSUME days' \in Nat \ {0}, proposal' \in Proposal, plan' = ShapeRoute(proposal', days')
  PROVE  LegsMakeATour'
  <1> SUFFICES ASSUME plan'.status = "multi_stop_provisional" PROVE LegsMakeATour'
    BY DEF LegsMakeATour, Shaped
  <1>0. PICK n \in Nat \ {0} : \E ids, ns : Made(proposal', days', plan', n, ids, ns)
    BY ShapedIsMade
  <1>1. PICK ids, ns : Made(proposal', days', plan', n, ids, ns)
    BY <1>0
  <1>2. MakesATour(plan')
    BY <1>1, MadeMakesATour
  <1>3. QED
    BY <1>2 DEF MakesATour, LegsMakeATour

RouteInv == days \in Nat /\ NightsAddUp /\ LegsMakeATour

LEMMA RouteInvInit ==
  ASSUME RouteInit
  PROVE  RouteInv
  BY BoundsAssumption DEF RouteInit, RouteInv, NightsAddUp, LegsMakeATour, Shaped, EmptyResult

LEMMA RouteInvStep ==
  ASSUME RouteInv, [RouteNext]_routeVars
  PROVE  RouteInv'
  <1>1. CASE NothingToAsk \/ ModelFails
    <2>1. days' = days /\ plan'.status # "multi_stop_provisional"
      BY <1>1 DEF NothingToAsk, ModelFails, EmptyResult
    <2>2. QED
      BY <2>1 DEF RouteInv, NightsAddUp, LegsMakeATour, Shaped
  <1>2. CASE ModelAnswers
    <2>1. days' = days /\ days' \in Nat \ {0} /\ proposal' \in Proposal /\ plan' = ShapeRoute(proposal', days')
      BY <1>2 DEF ModelAnswers, RouteInv
    <2>2. QED
      BY <2>1, ShapedAddsUp, ShapedMakesATour DEF RouteInv
  <1>3. CASE UNCHANGED routeVars
    BY <1>3 DEF routeVars, RouteInv, NightsAddUp, LegsMakeATour, Shaped
  <1>4. QED
    BY <1>1, <1>2, <1>3 DEF RouteNext

\* The compiler takes the route as it is shaped and leaves it so.
LEMMA RouteShaped == CompilerSpec => []RouteInv
  <1>1. CompilerInit => RouteInit
    BY DEF CompilerInit
  <1>2. [CompilerNext]_vars => [RouteNext]_routeVars
    <2> SUFFICES ASSUME [CompilerNext]_vars PROVE [RouteNext]_routeVars
      OBVIOUS
    <2>1. CASE Discover
      BY <2>1 DEF Discover
    <2>2. CASE Refuse \/ CompileStop \/ GatePasses \/ GateResolves
      BY <2>2 DEF Refuse, CompileStop, GatePasses, GateResolves
    <2>3. CASE UNCHANGED vars
      BY <2>3 DEF vars
    <2>4. QED
      BY <2>1, <2>2, <2>3 DEF CompilerNext
  <1>3. QED
    BY <1>1, <1>2, RouteInvInit, RouteInvStep, PTL DEF CompilerSpec

\* Whatever the model suggests, every day of the trip belongs to one stop, the
\* stops follow each other in the order proposed, and each one's dates span
\* exactly its nights.
THEOREM NightsAddUpHolds == CompilerSpec => []NightsAddUp
  <1>1. RouteInv => NightsAddUp
    BY DEF RouteInv
  <1>2. QED
    BY <1>1, RouteShaped, PTL

\* "Return route semantics": taken in sequence, the legs are one tour from the
\* source through every stop in order and back, and leave a stop only on the last
\* of its days.
THEOREM LegsMakeATourHolds == CompilerSpec => []LegsMakeATour
  <1>1. RouteInv => LegsMakeATour
    BY DEF RouteInv
  <1>2. QED
    BY <1>1, RouteShaped, PTL

-----------------------------------------------------------------------------
(* Opening hours and the gate. *)

\* One iteration is enough for the hours, though not for the durations: the
\* names in conflict include that of every entry that is closed.
LEMMA ResolvedIsOpen ==
  ASSUME NEW flagged
  PROVE  \A e \in ResolveConflicts(Conflicts, flagged) : IsOpenAt(e.name, e.slot)
  <1> TAKE e \in ResolveConflicts(Conflicts, flagged)
  <1>1. e \in scheduled /\ e.name \notin Conflicts
    BY DEF ResolveConflicts
  <1>2. ~IsOpenAt(e.name, e.slot) => e.name \in Conflicts
    BY <1>1 DEF Conflicts
  <1>3. QED
    BY <1>1, <1>2

\* An itinerary only leaves the gate open; and nothing is scheduled afterwards.
LEMMA OpenStep ==
  ASSUME OpenByTheClock, [CompilerNext]_vars
  PROVE  OpenByTheClock'
  <1>1. CASE GatePasses
    <2>1. Conflicts = {} /\ scheduled' = scheduled
      BY <1>1 DEF GatePasses
    <2>2. \A e \in scheduled : IsOpenAt(e.name, e.slot)
      BY <2>1 DEF Conflicts
    <2>3. QED
      BY <2>1, <2>2 DEF OpenByTheClock, IsOpenAt
  <1>2. CASE GateResolves
    <2>1. scheduled' = ResolveConflicts(Conflicts, FlaggedSlots)
      BY <1>2 DEF GateResolves
    <2>2. \A e \in scheduled' : IsOpenAt(e.name, e.slot)
      BY <2>1, ResolvedIsOpen
    <2>3. QED
      BY <2>2 DEF OpenByTheClock, IsOpenAt
  <1>3. CASE Discover \/ Refuse \/ CompileStop
    <2>1. stage' # "done"
      BY <1>3 DEF Discover, Refuse, CompileStop
    <2>2. QED
      BY <2>1 DEF OpenByTheClock
  <1>4. CASE UNCHANGED vars
    BY <1>4 DEF vars, OpenByTheClock, IsOpenAt
  <1>5. QED
    BY <1>1, <1>2, <1>3, <1>4 DEF CompilerNext

\* No activity of a delivered itinerary is in a slot its venue is closed in
\* whatever the day.
THEOREM OpenByTheClockHolds == CompilerSpec => []OpenByTheClock
  <1>1. CompilerInit => OpenByTheClock
    BY DEF CompilerInit, OpenByTheClock
  <1>2. QED
    BY <1>1, OpenStep, PTL DEF CompilerSpec

-----------------------------------------------------------------------------
(***************************************************************************)
(* What is long stays long: a slot cannot take more minutes with some of   *)
(* its entries than with all of them.                                      *)
(***************************************************************************)

MinutesOf(S) == [e \in S |-> Minutes[e.name]]

LEMMA MinutesSum ==
  ASSUME NEW S, IsFiniteSet(S)
  PROVE  MapThenSumSet(LAMBDA e : Minutes[e.name], S) = SumOf(MinutesOf(S), S)
  <1> DEFINE w == MinutesOf(S)
             Solves(g) == g = [s \in SUBSET S |->
                                 IF s = {} THEN 0 ELSE Minutes[Chosen(s).name] + g[s \ {Chosen(s)}]]
  <1>1. \A s \in SUBSET S : s # {} => w[Chosen(s)] = Minutes[Chosen(s).name]
    BY ChosenIn DEF MinutesOf
  <1> HIDE DEF w
  <1>2. ASSUME NEW g PROVE Solves(g) <=> Sums(g, w, S)
    <2>1. [s \in SUBSET S |-> IF s = {} THEN 0 ELSE w[Chosen(s)] + g[s \ {Chosen(s)}]]
          = [s \in SUBSET S |-> IF s = {} THEN 0 ELSE Minutes[Chosen(s).name] + g[s \ {Chosen(s)}]]
      BY <1>1
    <2>2. QED
      BY <2>1 DEF Sums
  <1>3. PICK g : Sums(g, w, S)
    BY SumsExist
  <1>4. MapThenSumSet(LAMBDA e : Minutes[e.name], S) = (CHOOSE h : Solves(h))[S]
    BY DEF MapThenSumSet, MapThenFoldSet, Chosen
  <1> HIDE DEF Solves
  <1>5. PICK h : h = CHOOSE f : Solves(f)
    OBVIOUS
  <1>6. Sums(h, w, S)
    BY <1>2, <1>3, <1>5
  <1>7. SumOf(w, S) = h[S]
    BY <1>6, SumIsSums
  <1>8. QED
    BY <1>4, <1>5, <1>7 DEF w

LEMMA SlotMinutesGrow ==
  ASSUME NEW B, IsFiniteSet(B), \A e \in B : e.name \in Venues, NEW day, NEW slot,
         NEW A, InSlot(A, day, slot) \subseteq B
  PROVE  /\ SlotMinutes(A, day, slot) \in Nat /\ SlotMinutes(B, day, slot) \in Nat
         /\ SlotMinutes(A, day, slot) <= SlotMinutes(B, day, slot)
  <1> DEFINE a == InSlot(A, day, slot)
             b == InSlot(B, day, slot)
  <1>1. a \subseteq b /\ b \subseteq B
    BY DEF InSlot
  <1>2. SlotMinutes(A, day, slot) =
          IF a = {} THEN 0 ELSE MapThenSumSet(LAMBDA e : Minutes[e.name], a) + 30 * (Cardinality(a) - 1)
    BY DEF SlotMinutes
  <1>3. SlotMinutes(B, day, slot) =
          IF b = {} THEN 0 ELSE MapThenSumSet(LAMBDA e : Minutes[e.name], b) + 30 * (Cardinality(b) - 1)
    BY DEF SlotMinutes
  <1> HIDE DEF a, b
  <1>4. IsFiniteSet(b) /\ IsFiniteSet(a) /\ Cardinality(a) <= Cardinality(b)
        /\ Cardinality(a) \in Nat /\ Cardinality(b) \in Nat
    BY <1>1, FS_Subset, FS_CardinalityType
  <1>5. /\ MapThenSumSet(LAMBDA e : Minutes[e.name], a) = SumOf(MinutesOf(a), a)
        /\ MapThenSumSet(LAMBDA e : Minutes[e.name], b) = SumOf(MinutesOf(b), b)
    BY <1>4, MinutesSum
  <1>6. \A e \in b : MinutesOf(b)[e] \in Nat
    BY <1>1, VenuesAssumption DEF MinutesOf
  <1>7. SumOf(MinutesOf(a), a) = SumOf(MinutesOf(b), a)
    <2>1. \A e \in a : MinutesOf(a)[e] = MinutesOf(b)[e]
      BY <1>1 DEF MinutesOf
    <2>2. QED
      BY <1>4, <2>1, SumSame
  <1>8. SumOf(MinutesOf(b), a) <= SumOf(MinutesOf(b), b) /\ SumOf(MinutesOf(b), b) \in Nat
    BY <1>1, <1>4, <1>6, SumGrows, SumAny
  <1>9. SumOf(MinutesOf(b), a) \in Nat
    BY <1>1, <1>4, <1>6, SumAny
  <1>10. a # {} => Cardinality(a) # 0 /\ Cardinality(b) # 0 /\ b # {}
    BY <1>1, <1>4, FS_EmptySet
  <1>11. b # {} => Cardinality(b) # 0
    BY <1>4, FS_EmptySet
  <1>12. QED
    BY <1>2, <1>3, <1>4, <1>5, <1>7, <1>8, <1>9, <1>10, <1>11

-----------------------------------------------------------------------------
(***************************************************************************)
(* Where every pick went.                                                  *)
(*                                                                         *)
(* The stops of a route are different, so that a day belongs to one of     *)
(* them; what is scheduled was laid out at some stop (Laid), and what was  *)
(* laid out and is missing left for a reason (Missed).  A slot is flagged  *)
(* for what is in it still, and was no shorter as it was laid out.         *)
(***************************************************************************)

AnyPick == [day : Nat, slot : Slots, name : Venues]

StopDays(i) == AllocationsFor(RouteStops[i].id)

FoundBy(i) == Range(FoundAt[RouteStops[i].id[1]])

Entry(i, k) ==
  [day |-> picks[i][k].day, slot |-> picks[i][k].slot, name |-> picks[i][k].name, rank |-> k]

Valid(i) == {k \in DOMAIN picks[i] : picks[i][k].day \in StopDays(i) /\ picks[i][k].name \in FoundBy(i)}

Lay(i) == {Entry(i, k) : k \in Valid(i)}

ClosedSomewhere ==
  {p.name : p \in {q \in UNION {Range(picks[j]) : j \in DOMAIN picks} : ~IsOpenAt(q.name, q.slot)}}

PickTypes == days \in Nat /\ picks \in Seq(Seq(AnyPick)) /\ excluded \in Seq(SUBSET Venues)

Paced ==
  /\ Len(excluded) = Len(picks)
  /\ stage = "routing" => picks = <<>>
  /\ stage = "planning" => Len(picks) < Len(RouteStops)
  /\ stage \in {"gate", "done"} => Len(picks) = Len(RouteStops)

DistinctStops ==
  stage # "routing" => /\ Len(RouteStops) \in Nat \ {0} /\ DOMAIN RouteStops = 1..Len(RouteStops)
                       /\ \A i \in DOMAIN RouteStops : RouteStops[i].id[1] \in Places \cup {Destination}
                       /\ \A i, j \in DOMAIN RouteStops : RouteStops[i].id = RouteStops[j].id => i = j

Laid == \A e \in scheduled : \E i \in DOMAIN picks : e \in Lay(i)

Missed ==
  \A i \in DOMAIN picks : \A k \in Valid(i) :
    Entry(i, k) \notin scheduled =>
      \/ picks[i][k].name \in excluded[i] \cup ClosedSomewhere
      \/ /\ SlotMinutes(Lay(i), picks[i][k].day, picks[i][k].slot) > 600
         /\ <<picks[i][k].day, picks[i][k].slot>> \in noted

CompilationInv == PickTypes /\ Paced /\ DistinctStops /\ Laid /\ Missed

LEMMA AccountedFor ==
  ASSUME CompilationInv
  PROVE  PicksAccountedFor
  <1> SUFFICES ASSUME stage = "done", NEW i \in DOMAIN RouteStops
               PROVE  /\ {e \in scheduled : e.day \in StopDays(i)} \subseteq Lay(i)
                      /\ \A k \in Valid(i) :
                           Entry(i, k) \notin scheduled =>
                             \/ picks[i][k].name \in excluded[i] \cup ClosedSomewhere
                             \/ /\ SlotMinutes(Lay(i), picks[i][k].day, picks[i][k].slot) > 600
                                /\ <<picks[i][k].day, picks[i][k].slot>> \in noted
    BY DEF PicksAccountedFor, StopDays, FoundBy, Entry, Valid, Lay, ClosedSomewhere
  <1>1. i \in DOMAIN picks
    BY DEF CompilationInv, PickTypes, Paced, DistinctStops
  <1>2. ASSUME NEW e \in scheduled, e.day \in StopDays(i) PROVE e \in Lay(i)
    <2>1. PICK j \in DOMAIN picks : e \in Lay(j)
      BY DEF CompilationInv, Laid
    <2>2. e.day \in StopDays(j)
      BY <2>1 DEF Lay, Valid, Entry
    <2>3. j \in DOMAIN RouteStops
      BY DEF CompilationInv, PickTypes, Paced, DistinctStops
    <2>4. i = j
      BY <1>2, <2>2, <2>3 DEF StopDays, AllocationsFor, CompilationInv, DistinctStops
    <2>5. QED
      BY <2>1, <2>4
  <1>3. QED
    BY <1>1, <1>2 DEF CompilationInv, Missed

LEMMA CompilationInit ==
  ASSUME CompilerInit
  PROVE  CompilationInv
  <1>1. PickTypes
    BY BoundsAssumption DEF CompilerInit, RouteInit, PickTypes
  <1>2. picks = <<>> /\ excluded = <<>> /\ scheduled = {} /\ stage = "routing" /\ DOMAIN picks = {}
    BY DEF CompilerInit
  <1>3. Paced /\ DistinctStops /\ Laid /\ Missed
    BY <1>2 DEF Paced, DistinctStops, Laid, Missed
  <1>4. QED
    BY <1>1, <1>3 DEF CompilationInv

\* A discovered route has stops, and they are different.
LEMMA DiscoverDistinct ==
  ASSUME CompilationInv, Discover
  PROVE  DistinctStops'
  <1>1. days' = days /\ days \in Nat
    BY DEF Discover, RouteNext, NothingToAsk, ModelFails, ModelAnswers, CompilationInv, PickTypes
  <1>2. CASE plan'.status = "multi_stop_provisional"
    <2>1. PICK route \in Proposal : plan' = ShapeRoute(route, days) /\ days > 0
      BY <1>2 DEF Discover, RouteNext, NothingToAsk, ModelFails, ModelAnswers, EmptyResult
    <2>2. days \in Nat \ {0}
      BY <1>1, <2>1
    <2>3. PICK n \in Nat \ {0} :
            /\ DOMAIN plan'.stops = 1..n /\ Len(plan'.stops) = n
            /\ \A i \in 1..n : plan'.stops[i].id = StopIds(Kept(route, days))[i]
            /\ DOMAIN Kept(route, days) = 1..n
            /\ \A i \in 1..n : Kept(route, days)[i].place \in Places
      BY <1>2, <2>1, <2>2, ShapedStops
    <2>4. RouteStops' = [i \in DOMAIN plan'.stops |->
                           [id |-> plan'.stops[i].id, nights |-> plan'.stops[i].nights]]
      BY <1>2 DEF RouteStops
    <2>5. /\ DOMAIN RouteStops' = 1..n /\ Len(RouteStops') = n
          /\ \A i \in 1..n : RouteStops'[i].id = StopIds(Kept(route, days))[i]
      BY <2>3, <2>4
    <2>6. \A i \in 1..n : RouteStops'[i].id[1] \in Places
      <3> TAKE i \in 1..n
      <3>1. StopIds(Kept(route, days))[i][1] = Kept(route, days)[i].place
        BY <2>3 DEF StopIds
      <3>2. QED
        BY <2>3, <2>5, <3>1
    <2>7. \A i, j \in 1..n : RouteStops'[i].id = RouteStops'[j].id => i = j
      BY <2>3, <2>5, IdsDiffer
    <2>8. QED
      BY <2>5, <2>6, <2>7 DEF DistinctStops
  <1>3. CASE plan'.status # "multi_stop_provisional"
    <2>1. RouteStops' = << [id |-> <<Destination, 1>>, nights |-> days'] >>
      BY <1>3 DEF RouteStops, SingleStop
    <2>2. Len(RouteStops') = 1 /\ DOMAIN RouteStops' = 1..1 /\ RouteStops'[1].id[1] = Destination
      BY <2>1
    <2>3. QED
      BY <2>2 DEF DistinctStops
  <1>4. QED
    BY <1>2, <1>3

LEMMA RouteKept ==
  ASSUME routeVars' = routeVars, NEW i
  PROVE  RouteStops' = RouteStops /\ StopDays(i)' = StopDays(i) /\ FoundBy(i)' = FoundBy(i)
  <1>1. days' = days /\ plan' = plan
    BY DEF routeVars
  <1>2. RouteStops' = RouteStops
    BY <1>1 DEF RouteStops, SingleStop
  <1>3. Allocations' = Allocations
    BY <1>1 DEF Allocations, SingleStop
  <1>4. StopDays(i)' = StopDays(i)
    BY <1>2, <1>3 DEF StopDays, AllocationsFor
  <1>5. FoundBy(i)' = FoundBy(i)
    BY <1>2 DEF FoundBy
  <1>6. QED
    BY <1>2, <1>4, <1>5

\* The route stays; so do the picks, but for those of the next stop.
LEMMA OperatorsKept ==
  ASSUME routeVars' = routeVars, NEW i, picks'[i] = picks[i]
  PROVE  /\ RouteStops' = RouteStops /\ StopDays(i)' = StopDays(i) /\ FoundBy(i)' = FoundBy(i)
         /\ \A k : Entry(i, k)' = Entry(i, k)
         /\ Valid(i)' = Valid(i) /\ Lay(i)' = Lay(i)
  <1>1. RouteStops' = RouteStops /\ StopDays(i)' = StopDays(i)
    BY RouteKept
  <1>2. FoundBy(i)' = FoundBy(i)
    BY RouteKept
  <1>3. \A k : Entry(i, k)' = Entry(i, k)
    BY DEF Entry
  <1>4. Valid(i)' = Valid(i)
    BY <1>1, <1>2 DEF Valid
  <1>5. Lay(i)' = Lay(i)
    BY <1>3, <1>4 DEF Lay
  <1>6. QED
    BY <1>1, <1>2, <1>3, <1>4, <1>5

LEMMA Appended ==
  ASSUME NEW S, NEW s \in Seq(S), NEW e \in S
  PROVE  /\ Append(s, e) \in Seq(S) /\ Len(Append(s, e)) = Len(s) + 1
         /\ \A j \in DOMAIN s : Append(s, e)[j] = s[j]
         /\ Append(s, e)[Len(s) + 1] = e
         /\ DOMAIN Append(s, e) = DOMAIN s \cup {Len(s) + 1}
  <1>1. Append(s, e) \in Seq(S) /\ Len(Append(s, e)) = Len(s) + 1
    BY AppendProperties
  <1>2. Append(s, e)[Len(s) + 1] = e /\ \A j \in DOMAIN s : Append(s, e)[j] = s[j]
    BY AppendProperties
  <1>3. DOMAIN Append(s, e) = 1..Len(s) + 1 /\ DOMAIN s = 1..Len(s) /\ Len(s) \in Nat
    BY <1>1
  <1>4. QED
    BY <1>1, <1>2, <1>3

\* One more stop is laid out: its days are no other stop's.
LEMMA CompileStopAccounts ==
  ASSUME CompilationInv, CompileStop
  PROVE  CompilationInv'
  <1>a. PICK i : i = Len(picks) + 1
    OBVIOUS
  <1>b. PICK found : found = FoundAt[RouteStops[i].id[1]]
    OBVIOUS
  <1>1. PICK group \in Groups(found, IF InBounds THEN Cardinality(StopDays(i)) ELSE 1),
            plans \in SeqOf(Pick, IF InBounds THEN MaxPicks - Picked ELSE 0) :
          /\ picks' = Append(picks, plans)
          /\ excluded' = Append(excluded, ClosedNames(found, group))
          /\ scheduled' = scheduled \cup
               PickActivities(plans, Range(found) \ ClosedNames(found, group), StopDays(i))
          /\ stage' = IF i = Len(RouteStops) THEN "gate" ELSE "planning"
    BY <1>a, <1>b DEF CompileStop, StopDays
  <1>2. stage = "planning" /\ routeVars' = routeVars /\ days' = days /\ noted' = noted
    BY DEF CompileStop, routeVars
  <1>3. /\ picks \in Seq(Seq(AnyPick)) /\ excluded \in Seq(SUBSET Venues) /\ days \in Nat
        /\ Len(excluded) = Len(picks) /\ Len(picks) < Len(RouteStops)
        /\ Len(RouteStops) \in Nat /\ DOMAIN RouteStops = 1..Len(RouteStops)
    BY <1>2 DEF CompilationInv, PickTypes, Paced, DistinctStops
  <1>4. i \in DOMAIN RouteStops /\ i \in Nat
    BY <1>a, <1>3
  <1>5. found \in Seq(Venues)
    BY <1>b, <1>2, <1>4, FoundAssumption DEF CompilationInv, DistinctStops
  <1>6. ClosedNames(found, group) \subseteq Venues
    <2>1. \A v \in DOMAIN found : found[v] \in Venues
      BY <1>5
    <2>2. QED
      BY <2>1 DEF ClosedNames
  <1>7. plans \in Seq(AnyPick)
    <2>1. Pick \subseteq AnyPick
      BY VenuesAssumption DEF Pick, AnyPick, Slots
    <2>2. PICK m \in 0..(IF InBounds THEN MaxPicks - Picked ELSE 0) : plans \in [1..m -> Pick]
      BY DEF SeqOf
    <2>3. m \in Nat
      OBVIOUS
    <2>4. QED
      BY <2>1, <2>2, <2>3
  <1>c. /\ picks' \in Seq(Seq(AnyPick)) /\ Len(picks') = i
        /\ \A j \in DOMAIN picks : picks'[j] = picks[j]
        /\ picks'[i] = plans /\ DOMAIN picks' = DOMAIN picks \cup {i}
    <2>1. /\ Append(picks, plans) \in Seq(Seq(AnyPick)) /\ Len(Append(picks, plans)) = Len(picks) + 1
          /\ \A j \in DOMAIN picks : Append(picks, plans)[j] = picks[j]
          /\ Append(picks, plans)[Len(picks) + 1] = plans
          /\ DOMAIN Append(picks, plans) = DOMAIN picks \cup {Len(picks) + 1}
      BY <1>3, <1>7, Appended
    <2>2. QED
      BY <1>a, <1>1, <2>1
  <1>d. /\ excluded' \in Seq(SUBSET Venues) /\ Len(excluded') = i
        /\ \A j \in DOMAIN excluded : excluded'[j] = excluded[j]
        /\ excluded'[i] = ClosedNames(found, group)
    <2>1. PICK c : c = ClosedNames(found, group)
      OBVIOUS
    <2>2. /\ Append(excluded, c) \in Seq(SUBSET Venues) /\ Len(Append(excluded, c)) = Len(excluded) + 1
          /\ \A j \in DOMAIN excluded : Append(excluded, c)[j] = excluded[j]
          /\ Append(excluded, c)[Len(excluded) + 1] = c
      BY <1>3, <1>6, <2>1, Appended
    <2>3. QED
      BY <1>a, <1>1, <1>3, <2>1, <2>2
  <1>8. /\ picks' \in Seq(Seq(AnyPick)) /\ Len(picks') = i
        /\ excluded' \in Seq(SUBSET Venues) /\ Len(excluded') = i
    BY <1>c, <1>d
  <1>9. /\ \A j \in DOMAIN picks : picks'[j] = picks[j] /\ excluded'[j] = excluded[j]
        /\ picks'[i] = plans /\ excluded'[i] = ClosedNames(found, group)
        /\ DOMAIN picks' = DOMAIN picks \cup {i}
    <2>1. DOMAIN picks = DOMAIN excluded
      BY <1>3
    <2>2. QED
      BY <2>1, <1>c, <1>d
  <1>10. RouteStops' = RouteStops /\ StopDays(i)' = StopDays(i) /\ FoundBy(i)' = FoundBy(i)
    BY <1>2, RouteKept
  <1>11. PickTypes'
    BY <1>2, <1>3, <1>8 DEF PickTypes
  <1>12. Paced'
    BY <1>1, <1>3, <1>4, <1>8, <1>10 DEF Paced
  <1>13. DistinctStops'
    BY <1>1, <1>2, <1>10 DEF DistinctStops, CompilationInv
  <1>14. Laid'
    <2> SUFFICES ASSUME NEW e \in scheduled' PROVE \E j \in DOMAIN picks' : e \in Lay(j)'
      BY DEF Laid
    <2>1. CASE e \in scheduled
      <3>1. PICK j \in DOMAIN picks : e \in Lay(j)
        BY <2>1 DEF CompilationInv, Laid
      <3>2. Lay(j)' = Lay(j) /\ j \in DOMAIN picks'
        BY <1>2, <1>9, OperatorsKept
      <3>3. QED
        BY <3>1, <3>2
    <2>2. CASE e \notin scheduled
      <3>1. PICK k \in DOMAIN plans :
              /\ plans[k].day \in StopDays(i) /\ plans[k].name \in Range(found)
              /\ e = [day |-> plans[k].day, slot |-> plans[k].slot, name |-> plans[k].name, rank |-> k]
        BY <1>1, <2>2 DEF PickActivities
      <3>2. FoundBy(i) = Range(found)
        BY <1>b DEF FoundBy
      <3>3. k \in Valid(i)' /\ e = Entry(i, k)'
        BY <1>9, <1>10, <3>1, <3>2 DEF Valid, Entry
      <3>4. QED
        BY <1>9, <3>3 DEF Lay
    <2>3. QED
      BY <2>1, <2>2
  <1>15. Missed'
    <2> SUFFICES ASSUME NEW j \in DOMAIN picks', NEW k \in Valid(j)', Entry(j, k)' \notin scheduled'
                 PROVE  \/ picks'[j][k].name \in excluded'[j] \cup ClosedSomewhere'
                        \/ /\ SlotMinutes(Lay(j)', picks'[j][k].day, picks'[j][k].slot) > 600
                           /\ <<picks'[j][k].day, picks'[j][k].slot>> \in noted'
      BY DEF Missed
    <2>1. CASE j = i
      <3>1. /\ k \in DOMAIN plans /\ plans[k].day \in StopDays(i) /\ plans[k].name \in Range(found)
            /\ Entry(i, k)' = [day |-> plans[k].day, slot |-> plans[k].slot, name |-> plans[k].name, rank |-> k]
        <4>1. FoundBy(i) = Range(found)
          BY <1>b DEF FoundBy
        <4>2. k \in Valid(i)'
          BY <2>1
        <4>3. QED
          BY <1>9, <1>10, <4>1, <4>2 DEF Valid, Entry
      <3>2. plans[k].name \in ClosedNames(found, group)
        BY <1>1, <2>1, <3>1 DEF PickActivities
      <3>3. QED
        BY <1>9, <2>1, <3>2
    <2>2. CASE j # i
      <3>1. j \in DOMAIN picks
        BY <1>9, <2>2
      <3>2. Lay(j)' = Lay(j) /\ Valid(j)' = Valid(j) /\ Entry(j, k)' = Entry(j, k)
            /\ picks'[j] = picks[j] /\ excluded'[j] = excluded[j]
        BY <1>2, <1>9, <3>1, OperatorsKept
      <3>3. ClosedSomewhere \subseteq ClosedSomewhere'
        BY <1>9 DEF ClosedSomewhere, IsOpenAt
      <3>4. Entry(j, k) \notin scheduled
        BY <1>1, <3>2
      <3>5. \/ picks[j][k].name \in excluded[j] \cup ClosedSomewhere
            \/ /\ SlotMinutes(Lay(j), picks[j][k].day, picks[j][k].slot) > 600
               /\ <<picks[j][k].day, picks[j][k].slot>> \in noted
        BY <3>1, <3>2, <3>4 DEF CompilationInv, Missed
      <3>6. QED
        BY <1>2, <3>2, <3>3, <3>5
    <2>3. QED
      BY <2>1, <2>2
  <1>16. QED
    BY <1>11, <1>12, <1>13, <1>14, <1>15 DEF CompilationInv

\* What the gate takes out was closed, or in a slot that was too long as laid out.
LEMMA GateResolvesAccounts ==
  ASSUME CompilationInv, GateResolves
  PROVE  CompilationInv'
  <1>1. /\ stage = "gate" /\ stage' \in {"gate", "done"}
        /\ routeVars' = routeVars /\ picks' = picks /\ excluded' = excluded /\ days' = days
        /\ scheduled' = ResolveConflicts(Conflicts, FlaggedSlots)
        /\ noted' = noted \cup {<<e.day, e.slot>> : e \in scheduled \ scheduled'}
    BY DEF GateResolves, Deliver, routeVars
  <1>2. \A j : /\ RouteStops' = RouteStops /\ Valid(j)' = Valid(j) /\ Lay(j)' = Lay(j)
               /\ \A k : Entry(j, k)' = Entry(j, k)
    BY <1>1, OperatorsKept
  <1>3. RouteStops' = RouteStops
    BY <1>2
  <1>4. scheduled' \subseteq scheduled
    BY <1>1 DEF ResolveConflicts
  <1>5. PickTypes' /\ Paced' /\ DistinctStops'
    BY <1>1, <1>3 DEF CompilationInv, PickTypes, Paced, DistinctStops
  <1>6. Laid'
    BY <1>1, <1>2, <1>4 DEF CompilationInv, Laid
  <1>7. ClosedSomewhere' = ClosedSomewhere
    BY <1>1 DEF ClosedSomewhere, IsOpenAt
  <1>8. ASSUME NEW j \in DOMAIN picks, NEW k \in Valid(j), Entry(j, k) \in scheduled, Entry(j, k) \notin scheduled'
        PROVE  \/ picks[j][k].name \in ClosedSomewhere
               \/ /\ SlotMinutes(Lay(j), picks[j][k].day, picks[j][k].slot) > 600
                  /\ <<picks[j][k].day, picks[j][k].slot>> \in noted'
    <2> DEFINE day == picks[j][k].day
               slot == picks[j][k].slot
    <2>1. Entry(j, k).day = day /\ Entry(j, k).slot = slot /\ Entry(j, k).name = picks[j][k].name
      BY DEF Entry
    <2>2. <<day, slot>> \in noted'
      BY <1>1, <1>8, <2>1
    <2>3. \/ picks[j][k].name \in Conflicts
          \/ <<day, slot>> \in FlaggedSlots
      BY <1>1, <1>8, <2>1 DEF ResolveConflicts
    <2>4. CASE picks[j][k].name \in Conflicts
      <3>1. PICK f \in scheduled : f.name = picks[j][k].name /\ ~IsOpenAt(f.name, f.slot)
        BY <2>4 DEF Conflicts
      <3>a. PICK a \in DOMAIN picks : f \in Lay(a)
        BY DEF CompilationInv, Laid
      <3>2. PICK b \in DOMAIN picks[a] : f = Entry(a, b)
        BY <3>a DEF Lay, Valid
      <3>3. f.name = picks[a][b].name /\ f.slot = picks[a][b].slot /\ picks[a][b] \in Range(picks[a])
        BY <3>2 DEF Entry, Range
      <3>4. picks[a][b] \in UNION {Range(picks[c]) : c \in DOMAIN picks}
        BY <3>3
      <3>5. QED
        BY <3>1, <3>3, <3>4 DEF ClosedSomewhere
    <2>5. CASE <<day, slot>> \in FlaggedSlots
      <3>1. SlotMinutes(scheduled, day, slot) > 600
        BY <2>5 DEF FlaggedSlots
      <3>2. j \in DOMAIN RouteStops
        BY <1>1 DEF CompilationInv, PickTypes, Paced, DistinctStops
      <3>3. day \in StopDays(j)
        BY <1>8 DEF Valid
      <3>4. InSlot(scheduled, day, slot) \subseteq Lay(j)
        <4> SUFFICES ASSUME NEW f \in scheduled, f.day = day PROVE f \in Lay(j)
          BY DEF InSlot
        <4>1. PICK a \in DOMAIN picks : f \in Lay(a)
          BY DEF CompilationInv, Laid
        <4>2. f.day \in StopDays(a)
          BY <4>1 DEF Lay, Valid, Entry
        <4>3. a \in DOMAIN RouteStops
          BY <1>1 DEF CompilationInv, PickTypes, Paced, DistinctStops
        <4>4. RouteStops[a].id = RouteStops[j].id
          BY <3>3, <4>2 DEF StopDays, AllocationsFor
        <4>5. a = j
          BY <1>1, <3>2, <4>3, <4>4 DEF CompilationInv, DistinctStops
        <4>6. QED
          BY <4>1, <4>5
      <3>5. picks[j] \in Seq(AnyPick)
        BY DEF CompilationInv, PickTypes
      <3>6. IsFiniteSet(Lay(j))
        <4>1. IsFiniteSet(1..Len(picks[j]))
          BY <3>5, FS_Interval
        <4>2. DOMAIN picks[j] = 1..Len(picks[j])
          BY <3>5
        <4>3. Valid(j) \subseteq 1..Len(picks[j])
          BY <4>2 DEF Valid
        <4>4. IsFiniteSet(Valid(j))
          BY <4>1, <4>3, FS_Subset
        <4>5. [c \in Valid(j) |-> Entry(j, c)] \in Surjection(Valid(j), Lay(j))
          BY DEF Surjection, Lay
        <4>6. QED
          BY <4>4, <4>5, FS_Surjection
      <3>7. \A f \in Lay(j) : f.name \in Venues
        <4> TAKE f \in Lay(j)
        <4>1. PICK c \in DOMAIN picks[j] : f = Entry(j, c)
          BY DEF Lay, Valid
        <4>2. picks[j][c] \in AnyPick
          BY <3>5
        <4>3. QED
          BY <4>1, <4>2 DEF Entry, AnyPick
      <3> HIDE DEF day, slot
      <3>8. SlotMinutes(scheduled, day, slot) <= SlotMinutes(Lay(j), day, slot)
        BY <3>4, <3>6, <3>7, SlotMinutesGrow
      <3>9. SlotMinutes(scheduled, day, slot) \in Nat /\ SlotMinutes(Lay(j), day, slot) \in Nat
        BY <3>4, <3>6, <3>7, SlotMinutesGrow
      <3>10. SlotMinutes(Lay(j), day, slot) > 600
        BY <3>1, <3>8, <3>9
      <3>11. QED
        BY <2>2, <3>10 DEF day, slot
    <2>6. QED
      BY <2>3, <2>4, <2>5
  <1>9. Missed'
    <2> SUFFICES ASSUME NEW j \in DOMAIN picks, NEW k \in Valid(j), Entry(j, k) \notin scheduled'
                 PROVE  \/ picks[j][k].name \in excluded[j] \cup ClosedSomewhere
                        \/ /\ SlotMinutes(Lay(j), picks[j][k].day, picks[j][k].slot) > 600
                           /\ <<picks[j][k].day, picks[j][k].slot>> \in noted'
      BY <1>1, <1>2, <1>7 DEF Missed
    <2>1. CASE Entry(j, k) \in scheduled
      BY <1>8, <2>1
    <2>2. CASE Entry(j, k) \notin scheduled
      BY <1>1, <2>2 DEF CompilationInv, Missed
    <2>3. QED
      BY <2>1, <2>2
  <1>10. QED
    BY <1>5, <1>6, <1>9 DEF CompilationInv

LEMMA CompilationStep ==
  ASSUME CompilationInv, [CompilerNext]_vars
  PROVE  CompilationInv'
  <1>1. CASE Discover
    <2>1. DistinctStops'
      BY <1>1, DiscoverDistinct
    <2>2. stage = "routing" /\ stage' \in {"stopped", "planning"} /\ picks' = picks /\ excluded' = excluded
          /\ scheduled' = scheduled /\ days' = days
      BY <1>1 DEF Discover, RouteNext, NothingToAsk, ModelFails, ModelAnswers
    <2>3. picks = <<>> /\ DOMAIN picks = {} /\ Len(picks) = 0
      BY <2>2 DEF CompilationInv, Paced
    <2>4. PickTypes' /\ Laid' /\ Missed'
      BY <2>2, <2>3 DEF CompilationInv, PickTypes, Laid, Missed
    <2>5. Paced'
      BY <2>1, <2>2, <2>3 DEF CompilationInv, Paced, DistinctStops
    <2>6. QED
      BY <2>1, <2>4, <2>5 DEF CompilationInv
  <1>2. CASE CompileStop
    BY <1>2, CompileStopAccounts
  <1>3. CASE GateResolves
    BY <1>3, GateResolvesAccounts
  <1>4. CASE Refuse \/ GatePasses \/ UNCHANGED vars
    <2>1. /\ routeVars' = routeVars /\ picks' = picks /\ excluded' = excluded /\ days' = days
          /\ scheduled' = scheduled /\ noted' = noted
          /\ stage' = stage \/ (stage = "gate" /\ stage' = "done") \/ (stage = "planning" /\ stage' = "refused")
      BY <1>4 DEF Refuse, GatePasses, Deliver, vars, routeVars
    <2>2. \A j : /\ RouteStops' = RouteStops /\ Valid(j)' = Valid(j) /\ Lay(j)' = Lay(j)
                 /\ \A k : Entry(j, k)' = Entry(j, k)
      BY <2>1, OperatorsKept
    <2>3. ClosedSomewhere' = ClosedSomewhere
      BY <2>1 DEF ClosedSomewhere, IsOpenAt
    <2>4. PickTypes' /\ Laid'
      BY <2>1, <2>2 DEF CompilationInv, PickTypes, Laid
    <2>5. Paced' /\ DistinctStops'
      BY <2>1, <2>2 DEF CompilationInv, Paced, DistinctStops
    <2>6. Missed'
      BY <2>1, <2>2, <2>3 DEF CompilationInv, Missed
    <2>7. QED
      BY <2>4, <2>5, <2>6 DEF CompilationInv
  <1>5. QED
    BY <1>1, <1>2, <1>3, <1>4 DEF CompilerNext

\* An activity of a delivered itinerary is its stop's own pick of what was found
\* there, and a pick of a found venue is missing only for being closed or in a
\* slot that was too long.
THEOREM PicksAccountedForHolds == CompilerSpec => []PicksAccountedFor
  <1>1. CompilerSpec => []CompilationInv
    BY CompilationInit, CompilationStep, PTL DEF CompilerSpec
  <1>2. QED
    BY <1>1, AccountedFor, PTL

-----------------------------------------------------------------------------
(* A sequence cut into runs. *)

\* r is s, of a elements, and then t, of b.
Follow(r, s, t, a, b) ==
  /\ r = s \o t /\ r = [i \in 1..(a + b) |-> r[i]]
  /\ \A i \in 1..a : r[i] = s[i]
  /\ \A i \in 1..b : r[a + i] = t[i]

LEMMA FollowOn ==
  ASSUME NEW a \in Nat, NEW b \in Nat, NEW s, NEW t,
         s = [i \in 1..a |-> s[i]], t = [i \in 1..b |-> t[i]]
  PROVE  \E r : Follow(r, s, t, a, b)
  <1> DEFINE S == {s[i] : i \in 1..a} \cup {t[i] : i \in 1..b}
  <1>1. s \in Seq(S) /\ Len(s) = a /\ t \in Seq(S) /\ Len(t) = b
    <2>1. s \in [1..a -> S] /\ t \in [1..b -> S]
      OBVIOUS
    <2> HIDE DEF S
    <2>2. QED
      BY <2>1
  <1> HIDE DEF S
  <1>2. PICK x \in Seq(S), y \in Seq(S) : x = s /\ y = t /\ Len(x) = a /\ Len(y) = b
    BY <1>1
  <1>3. /\ x \o y \in Seq(S) /\ Len(x \o y) = Len(x) + Len(y)
        /\ \A d \in 1..(Len(x) + Len(y)) : (x \o y)[d] = IF d <= Len(x) THEN x[d] ELSE y[d - Len(x)]
    BY ConcatProperties
  <1>4. PICK r : r = s \o t
    OBVIOUS
  <1>5. /\ r \in Seq(S) /\ Len(r) = a + b
        /\ \A d \in 1..(a + b) : r[d] = IF d <= a THEN s[d] ELSE t[d - a]
    BY <1>2, <1>3, <1>4
  <1>6. r = [i \in 1..(a + b) |-> r[i]]
    BY <1>5
  <1>7. ASSUME NEW i \in 1..a PROVE r[i] = s[i]
    <2>1. i \in 1..(a + b) /\ i <= a
      OBVIOUS
    <2>2. QED
      BY <1>5, <2>1
  <1>8. ASSUME NEW i \in 1..b PROVE r[a + i] = t[i]
    <2>1. a + i \in 1..(a + b) /\ ~(a + i <= a) /\ (a + i) - a = i
      OBVIOUS
    <2>2. QED
      BY <1>5, <2>1
  <1>9. QED
    BY <1>4, <1>6, <1>7, <1>8 DEF Follow

\* Run d of legs: from after cut[d - 1] to cut[d].
Runs(legs, cut, T) == [d \in 1..T |-> [p \in 1..(cut[d] - cut[d - 1]) |-> legs[cut[d - 1] + p]]]

\* Joined, the runs are the sequence.
LEMMA RunsJoin ==
  ASSUME NEW T \in Nat \ {0}, NEW l \in Nat, NEW legs, legs = [i \in 1..l |-> legs[i]],
         NEW cut \in [0..T -> Nat], cut[0] = 0, cut[T] = l,
         \A d \in 1..T : cut[d - 1] <= cut[d]
  PROVE  FlattenSeq(Runs(legs, cut, T)) = legs
  <1> DEFINE q == Runs(legs, cut, T)
  <1>1. DOMAIN q = 1..T /\ Len(q) = T
    BY DEF Runs
  <1>2. \A d \in 1..T : q[d] = [p \in 1..(cut[d] - cut[d - 1]) |-> legs[cut[d - 1] + p]]
    BY DEF Runs
  <1> HIDE DEF q
  <1>3. PICK h : Joins(h, q, T) /\ FlattenSeq(q) = h[T]
    BY <1>1, FlattenJoins
  <1> DEFINE Good == {d \in Nat : d \in 1..T => h[d] = [i \in 1..cut[d] |-> legs[i]]}
  <1>4. ASSUME NEW d \in Nat, \A m \in 0..(d - 1) : m \in Good PROVE d \in Good
    <2> SUFFICES ASSUME d \in 1..T PROVE h[d] = [i \in 1..cut[d] |-> legs[i]]
      OBVIOUS
    <2>1. h[d] = IF d = 1 THEN q[d] ELSE h[d - 1] \o q[d]
      BY <1>3, JoinsAt
    <2>2. PICK a \in Nat, b \in Nat : a = cut[d - 1] /\ a + b = cut[d] /\ b = cut[d] - cut[d - 1]
      <3>1. d - 1 \in 0..T /\ d \in 0..T
        OBVIOUS
      <3>2. cut[d - 1] \in Nat /\ cut[d] \in Nat /\ cut[d - 1] <= cut[d]
        BY <3>1
      <3>3. cut[d] - cut[d - 1] \in Nat /\ cut[d - 1] + (cut[d] - cut[d - 1]) = cut[d]
        BY <3>2
      <3>4. QED
        BY <3>2, <3>3
    <2>3. q[d] = [p \in 1..b |-> legs[a + p]]
      BY <1>2, <2>2
    <2>4. CASE d = 1
      <3>1. a = 0
        BY <2>2, <2>4
      <3>2. \A p \in 1..b : a + p = p
        BY <3>1
      <3>3. q[d] = [p \in 1..b |-> legs[p]]
        BY <2>3, <3>2
      <3>4. cut[d] = b
        BY <2>2, <3>1
      <3>5. QED
        BY <2>1, <2>4, <3>3, <3>4
    <2>5. CASE d # 1
      <3>1. PICK m \in Nat : m = d - 1 /\ m \in 0..(d - 1) /\ m \in 1..T
        BY <2>5
      <3>2. h[m] = [i \in 1..a |-> legs[i]]
        BY <1>4, <2>2, <3>1
      <3>3. PICK s, t : s = h[m] /\ t = q[d]
        OBVIOUS
      <3>4. s = [i \in 1..a |-> s[i]] /\ t = [i \in 1..b |-> t[i]]
        BY <2>3, <3>2, <3>3
      <3>0. PICK r : Follow(r, s, t, a, b)
        BY <3>4, FollowOn
      <3>5. /\ r = s \o t /\ r = [i \in 1..(a + b) |-> r[i]]
            /\ \A i \in 1..a : r[i] = s[i]
            /\ \A i \in 1..b : r[a + i] = t[i]
        BY <3>0 DEF Follow
      <3>6. ASSUME NEW i \in 1..(a + b) PROVE r[i] = legs[i]
        <4>1. CASE i <= a
          <5>1. i \in 1..a
            BY <4>1
          <5>2. QED
            BY <3>2, <3>3, <3>5, <5>1
        <4>2. CASE i > a
          <5>1. PICK p \in 1..b : i = a + p
            <6>1. i - a \in 1..b /\ i = a + (i - a)
              BY <4>2
            <6>2. QED
              BY <6>1
          <5>2. r[i] = t[p] /\ t[p] = legs[a + p]
            BY <2>3, <3>3, <3>5, <5>1
          <5>3. QED
            BY <5>1, <5>2
        <4>3. i <= a \/ i > a
          BY <2>2
        <4>4. QED
          BY <4>1, <4>2, <4>3
      <3>7. r = [i \in 1..(a + b) |-> legs[i]]
        BY <3>5, <3>6
      <3>8. h[d] = r
        BY <2>1, <2>5, <3>1, <3>3, <3>5
      <3>9. QED
        BY <2>2, <3>7, <3>8
    <2>6. QED
      BY <2>4, <2>5
  <1> HIDE DEF Good
  <1>5. T \in Good
    BY <1>4, CountUp
  <1>6. h[T] = [i \in 1..cut[T] |-> legs[i]]
    <2>1. T \in 1..T
      OBVIOUS
    <2>2. QED
      BY <1>5, <2>1 DEF Good
  <1>7. QED
    BY <1>3, <1>6 DEF q

\* In a sequence whose days never go back, those up to a day are a beginning.
LEMMA Beginning ==
  ASSUME NEW l \in Nat, NEW legs, \A k \in 1..l : legs[k].day \in Nat,
         \A k \in 1..(l - 1) : legs[k].day <= legs[k + 1].day,
         NEW d \in Nat
  PROVE  \E c \in 0..l : \A k \in 1..l : legs[k].day <= d <=> k <= c
  <1> DEFINE Good == {c \in Nat : c \in 0..l => \E m \in 0..c : \A k \in 1..c : legs[k].day <= d <=> k <= m}
  <1>1. ASSUME NEW c \in Nat, \A b \in 0..(c - 1) : b \in Good PROVE c \in Good
    <2> SUFFICES ASSUME c \in 0..l PROVE \E m \in 0..c : \A k \in 1..c : legs[k].day <= d <=> k <= m
      OBVIOUS
    <2>1. CASE c = 0
      <3>1. 0 \in 0..c /\ \A k \in 1..c : legs[k].day <= d <=> k <= 0
        BY <2>1
      <3>2. QED
        BY <3>1
    <2>2. CASE c # 0
      <3>1. PICK b \in Nat : c = b + 1 /\ b \in 0..(c - 1) /\ b \in 0..l
        <4>1. c - 1 \in Nat /\ c = (c - 1) + 1 /\ c - 1 \in 0..(c - 1) /\ c - 1 \in 0..l
          BY <2>2
        <4>2. QED
          BY <4>1
      <3>2. PICK m \in 0..b : \A k \in 1..b : legs[k].day <= d <=> k <= m
        BY <1>1, <3>1
      <3>3. CASE legs[c].day <= d
        <4>1. ASSUME NEW k \in 1..c PROVE legs[k].day <= d
          <5>1. m = b
            <6> SUFFICES ASSUME m # b PROVE FALSE
              OBVIOUS
            <6>1. b \in 1..b /\ ~(b <= m) /\ b \in 1..(l - 1)
              BY <3>1
            <6>2. ~(legs[b].day <= d) /\ legs[b].day <= legs[b + 1].day
              BY <3>2, <6>1
            <6>3. legs[b].day \in Nat /\ legs[c].day \in Nat
              BY <3>1, <6>1
            <6>4. QED
              BY <3>1, <3>3, <6>2, <6>3
          <5>2. CASE k = c
            BY <3>3, <5>2
          <5>3. CASE k # c
            <6>1. k \in 1..b /\ k <= m
              BY <3>1, <5>1, <5>3
            <6>2. QED
              BY <3>2, <6>1
          <5>4. QED
            BY <5>2, <5>3
        <4>2. c \in 0..c /\ \A k \in 1..c : legs[k].day <= d <=> k <= c
          BY <4>1
        <4>3. QED
          BY <4>2
      <3>4. CASE ~(legs[c].day <= d)
        <4>1. ASSUME NEW k \in 1..c PROVE legs[k].day <= d <=> k <= m
          <5>1. CASE k = c
            <6>1. ~(k <= m)
              BY <3>1, <5>1
            <6>2. QED
              BY <3>4, <5>1, <6>1
          <5>2. CASE k # c
            <6>1. k \in 1..b
              BY <3>1, <5>2
            <6>2. QED
              BY <3>2, <6>1
          <5>3. QED
            BY <5>1, <5>2
        <4>2. m \in 0..c
          BY <3>1
        <4>3. QED
          BY <4>1, <4>2
      <3>5. QED
        BY <3>3, <3>4
    <2>3. QED
      BY <2>1, <2>2
  <1> HIDE DEF Good
  <1>2. l \in Good
    BY <1>1, CountUp
  <1>3. l \in 0..l
    OBVIOUS
  <1>4. \E m \in 0..l : \A k \in 1..l : legs[k].day <= d <=> k <= m
    BY <1>2, <1>3 DEF Good
  <1>5. QED
    BY <1>4

\* Legs cut[d - 1] + 1 to cut[d] are those of day d.
Cuts(cut, legs, l, T) ==
  /\ cut \in [0..T -> Nat] /\ cut[0] = 0 /\ cut[T] = l
  /\ \A d \in 1..T : cut[d - 1] <= cut[d]
  /\ \A d \in 1..T : {i \in 1..l : legs[i].day = d} = (cut[d - 1] + 1)..cut[d]

LEMMA CutsExist ==
  ASSUME NEW T \in Nat \ {0}, NEW l \in Nat, NEW legs, \A k \in 1..l : legs[k].day \in 1..T,
         \A k \in 1..(l - 1) : legs[k].day <= legs[k + 1].day
  PROVE  \E cut : Cuts(cut, legs, l, T)
  <1> DEFINE Ends(d, c) == \A k \in 1..l : legs[k].day <= d <=> k <= c
  <1>1. PICK cut : cut = [d \in 0..T |-> CHOOSE c \in 0..l : Ends(d, c)]
    OBVIOUS
  <1>2. ASSUME NEW d \in 0..T PROVE cut[d] \in 0..l /\ Ends(d, cut[d])
    <2>0. d \in Nat /\ \A k \in 1..l : legs[k].day \in Nat
      OBVIOUS
    <2>1. \E c \in 0..l : \A k \in 1..l : legs[k].day <= d <=> k <= c
      BY <2>0, Beginning
    <2>a. \E c \in 0..l : Ends(d, c)
      BY <2>1
    <2> HIDE DEF Ends
    <2>2. QED
      BY <1>1, <2>a
  <1>3. cut \in [0..T -> Nat]
    <2> HIDE DEF Ends
    <2>1. \A d \in 0..T : cut[d] \in Nat
      BY <1>2
    <2>2. QED
      BY <1>1, <2>1
  <1>4. cut[0] = 0
    <2>1. PICK c \in Nat : c = cut[0] /\ c \in 0..l /\ Ends(0, c)
      BY <1>2
    <2> SUFFICES ASSUME c # 0 PROVE FALSE
      BY <2>1
    <2>2. 1 \in 1..l /\ 1 <= c
      BY <2>1
    <2>3. legs[1].day <= 0 /\ legs[1].day \in 1..T
      BY <2>1, <2>2
    <2>4. QED
      BY <2>3
  <1>5. cut[T] = l
    <2>1. PICK c \in Nat : c = cut[T] /\ c \in 0..l /\ Ends(T, c)
      BY <1>2
    <2> SUFFICES ASSUME c # l PROVE FALSE
      BY <2>1
    <2>2. l \in 1..l /\ ~(l <= c)
      BY <2>1
    <2>3. ~(legs[l].day <= T) /\ legs[l].day \in 1..T
      BY <2>1, <2>2
    <2>4. QED
      BY <2>3
  <1>6. ASSUME NEW d \in 1..T
        PROVE  /\ cut[d - 1] <= cut[d]
               /\ {i \in 1..l : legs[i].day = d} = (cut[d - 1] + 1)..cut[d]
    <2>1. PICK b \in Nat : b = cut[d] /\ b \in 0..l /\ Ends(d, b)
      BY <1>2
    <2>a. PICK m \in 0..T : m = d - 1
      OBVIOUS
    <2>b. PICK a \in Nat : a = cut[m] /\ a \in 0..l /\ Ends(m, a)
      BY <1>2
    <2>2. a = cut[d - 1] /\ a \in 0..l /\ Ends(d - 1, a)
      BY <2>a, <2>b
    <2>3. a <= b
      <3> SUFFICES ASSUME b < a PROVE FALSE
        BY <2>1, <2>2
      <3>1. a \in 1..l /\ ~(a <= b)
        BY <2>1, <2>2
      <3>2. legs[a].day <= d - 1 /\ ~(legs[a].day <= d) /\ legs[a].day \in 1..T
        BY <2>1, <2>2, <3>1
      <3>3. QED
        BY <3>2
    <2>4. ASSUME NEW i \in 1..l PROVE legs[i].day = d <=> i > a /\ i <= b
      <3>1. legs[i].day \in 1..T
        OBVIOUS
      <3>2. (legs[i].day <= d <=> i <= b) /\ (legs[i].day <= d - 1 <=> i <= a)
        BY <2>1, <2>2
      <3>3. QED
        BY <2>1, <2>2, <3>1, <3>2
    <2>5. (a + 1)..b \subseteq 1..l
      BY <2>1, <2>2
    <2>6. {i \in 1..l : legs[i].day = d} = (a + 1)..b
      <3>1. ASSUME NEW i \in 1..l PROVE legs[i].day = d <=> i \in (a + 1)..b
        BY <2>4
      <3>2. QED
        BY <2>5, <3>1
    <2>7. QED
      BY <2>1, <2>2, <2>3, <2>6
  <1> HIDE DEF Ends
  <1>7. QED
    BY <1>3, <1>4, <1>5, <1>6 DEF Cuts

\* LegsOn, of any legs.
DayLegs(legs, day) ==
  LET here == InOrder({i \in DOMAIN legs : legs[i].day = day}, LAMBDA i, j : i < j)
  IN  [p \in DOMAIN here |-> legs[here[p]]]

\* Numbers in a row are in order.
LEMMA RowInOrder ==
  ASSUME NEW a \in Nat, NEW b \in Nat
  PROVE  InOrder((a + 1)..(a + b), LAMBDA i, j : i < j) = [p \in 1..b |-> a + p]
  <1> DEFINE S == (a + 1)..(a + b)
             e == [p \in 1..b |-> a + p]
             below == [i \in S |-> {j \in S : j < i}]
  <1>1. Lists(e, S, b)
    <2>1. e \in [1..b -> S]
      OBVIOUS
    <2>2. ASSUME NEW i \in S PROVE \E p \in 1..b : e[p] = i
      <3>1. i - a \in 1..b /\ e[i - a] = i
        OBVIOUS
      <3>2. QED
        BY <3>1
    <2>3. \A p, q \in 1..b : e[p] = e[q] => p = q
      OBVIOUS
    <2>4. QED
      BY <2>1, <2>2, <2>3 DEF Lists
  <1>2. Ranks(e, b, below)
    <2> SUFFICES ASSUME NEW q \in 1..b PROVE below[e[q]] = {e[p] : p \in 1..(q - 1)}
      BY DEF Ranks
    <2>1. below[e[q]] = {j \in S : j < a + q}
      OBVIOUS
    <2>2. ASSUME NEW j \in S, j < a + q PROVE \E p \in 1..(q - 1) : e[p] = j
      <3>1. j - a \in 1..(q - 1) /\ j - a \in 1..b /\ a + (j - a) = j
        BY <2>2
      <3>2. QED
        BY <3>1
    <2>3. ASSUME NEW p \in 1..(q - 1) PROVE e[p] \in S /\ e[p] < a + q
      <3>1. p \in 1..b /\ e[p] = a + p
        OBVIOUS
      <3>2. QED
        BY <3>1
    <2> HIDE DEF S, e, below
    <2>4. {j \in S : j < a + q} = {e[p] : p \in 1..(q - 1)}
      BY <2>2, <2>3
    <2>5. QED
      BY <2>1, <2>4
  <1> DEFINE First(i) == {j \in S : j < i}
  <1>3. PICK f : f = InOrder(S, LAMBDA i, j : i < j)
    OBVIOUS
  <1>5. \A i \in S : below[i] = First(i)
    OBVIOUS
  <1> HIDE DEF S, below, e
  <1>4. f = [p \in 1..Cardinality(S) |-> CHOOSE i \in S : Cardinality(First(i)) = p - 1]
    BY <1>3 DEF InOrder
  <1> HIDE DEF First
  <1>6. ASSUME NEW p \in 1..Cardinality(S), \E i \in S : Cardinality(below[i]) = p - 1
        PROVE  f[p] \in S /\ Cardinality(below[f[p]]) = p - 1
    <2>1. \E i \in S : Cardinality(First(i)) = p - 1
      BY <1>5, <1>6
    <2>2. f[p] = CHOOSE i \in S : Cardinality(First(i)) = p - 1
      BY <1>4
    <2>3. f[p] \in S /\ Cardinality(First(f[p])) = p - 1
      BY <2>1, <2>2
    <2>4. QED
      BY <1>5, <2>3
  <1>7. f = [p \in 1..Cardinality(S) |-> f[p]]
    BY <1>4
  <1>8. PicksByRank(f, S, below)
    BY <1>6, <1>7 DEF PicksByRank
  <1>9. f = e
    BY <1>1, <1>2, <1>8, PickedInOrder
  <1>10. QED
    BY <1>3, <1>9 DEF S, e

\* The legs of day d are the b after the first a.
OnDay(legs, d, a, b) ==
  {i \in DOMAIN legs : legs[i].day = d} = (a + 1)..(a + b)

RunOf(s, legs, a, b) == s = [p \in 1..b |-> legs[a + p]]

LEMMA DayLegsAre ==
  ASSUME NEW a \in Nat, NEW b \in Nat, NEW legs, NEW d, OnDay(legs, d, a, b)
  PROVE  RunOf(DayLegs(legs, d), legs, a, b)
  <1>1. PICK S : S = {i \in DOMAIN legs : legs[i].day = d} /\ S = (a + 1)..(a + b)
    BY DEF OnDay
  <1>2. PICK here : here = InOrder(S, LAMBDA i, j : i < j)
    OBVIOUS
  <1>3. DayLegs(legs, d) = [p \in DOMAIN here |-> legs[here[p]]]
    BY <1>1, <1>2 DEF DayLegs
  <1>4. here = [p \in 1..b |-> a + p]
    BY <1>1, <1>2, RowInOrder
  <1>5. QED
    BY <1>3, <1>4 DEF RunOf

\* What a day is given are legs of that day.
OfTheDay(legs, T) ==
  \A d \in 1..T : \A p \in DOMAIN DayLegs(legs, d) :
    \E k \in DOMAIN legs : DayLegs(legs, d)[p] = legs[k] /\ legs[k].day = d

\* Read through the days in order, the legs are those of the route.
LEMMA LegsByDay ==
  ASSUME NEW T \in Nat \ {0}, NEW l \in Nat, NEW legs, legs = [i \in 1..l |-> legs[i]],
         \A k \in 1..l : legs[k].day \in 1..T,
         \A k \in 1..(l - 1) : legs[k].day <= legs[k + 1].day
  PROVE  FlattenSeq([d \in 1..T |-> DayLegs(legs, d)]) = legs /\ OfTheDay(legs, T)
  <1>1. PICK cut : Cuts(cut, legs, l, T)
    BY CutsExist
  <1>2. ASSUME NEW d \in 1..T
        PROVE  /\ DayLegs(legs, d) = [p \in 1..(cut[d] - cut[d - 1]) |-> legs[cut[d - 1] + p]]
               /\ \A p \in DOMAIN DayLegs(legs, d) :
                    \E k \in DOMAIN legs : DayLegs(legs, d)[p] = legs[k] /\ legs[k].day = d
    <2>1. d - 1 \in 0..T /\ d \in 0..T
      OBVIOUS
    <2>2. PICK a \in Nat, c \in Nat : a = cut[d - 1] /\ c = cut[d] /\ a <= c
      BY <1>1, <2>1 DEF Cuts
    <2>3. PICK b \in Nat : a + b = c /\ b = c - a
      <3>1. c - a \in Nat /\ a + (c - a) = c
        BY <2>2
      <3>2. QED
        BY <3>1
    <2>4. OnDay(legs, d, a, b)
      <3>1. {i \in 1..l : legs[i].day = d} = (a + 1)..c
        BY <1>1, <2>2 DEF Cuts
      <3>2. DOMAIN legs = 1..l
        OBVIOUS
      <3>3. QED
        BY <2>3, <3>1, <3>2 DEF OnDay
    <2>5. DayLegs(legs, d) = [p \in 1..b |-> legs[a + p]]
      <3>1. a \in Nat /\ b \in Nat
        BY ONLY <2>2, <2>3
      <3>2. RunOf(DayLegs(legs, d), legs, a, b)
        BY ONLY <2>4, <3>1, DayLegsAre
      <3>3. QED
        BY <3>2 DEF RunOf
    <2>6. ASSUME NEW p \in DOMAIN DayLegs(legs, d)
          PROVE  \E k \in DOMAIN legs : DayLegs(legs, d)[p] = legs[k] /\ legs[k].day = d
      <3>1. p \in 1..b /\ DayLegs(legs, d)[p] = legs[a + p]
        BY ONLY <2>5, <2>6
      <3>2. a + p \in (a + 1)..(a + b)
        BY ONLY <2>2, <2>3, <3>1
      <3>3. a + p \in DOMAIN legs /\ legs[a + p].day = d
        BY ONLY <2>4, <3>2 DEF OnDay
      <3>4. QED
        BY ONLY <3>1, <3>3
    <2>7. QED
      BY <2>2, <2>3, <2>5, <2>6
  <1>3. [d \in 1..T |-> DayLegs(legs, d)] = Runs(legs, cut, T)
    BY <1>2 DEF Runs
  <1>4. FlattenSeq(Runs(legs, cut, T)) = legs
    <2>1. /\ cut \in [0..T -> Nat] /\ cut[0] = 0 /\ cut[T] = l
          /\ \A d \in 1..T : cut[d - 1] <= cut[d]
      BY <1>1 DEF Cuts
    <2>2. QED
      BY <2>1, RunsJoin
  <1>5. OfTheDay(legs, T)
    BY <1>2 DEF OfTheDay
  <1>6. QED
    BY <1>3, <1>4, <1>5

-----------------------------------------------------------------------------
(***************************************************************************)
(* The days delivered.                                                     *)
(*                                                                         *)
(* What leaves the gate is laid over the days of the route as it was       *)
(* shaped, or over one stay of the whole trip without legs.                *)
(***************************************************************************)

DeliveredAs(lodged, recommended) ==
  [d \in DOMAIN Allocations |-> Delivered(d, lodged, recommended)]

DaysInv ==
  /\ days \in Nat
  /\ stage \in {"gate", "done"} => days \in Nat \ {0}
  /\ stage # "routing" =>
       IF plan.status = "multi_stop_provisional"
         THEN \E n \in Nat \ {0} : \E ids, ns : Made(proposal, days, plan, n, ids, ns)
         ELSE plan.legs = <<>>
  /\ stage = "done" =>
       \E lodged : \E recommended \in BOOLEAN : itinerary = DeliveredAs(lodged, recommended)

\* What inject_stays and inject_transport make of the days.
Lodged(lodged) ==
  \A d \in 1..days :
    itinerary[d].nights = IF Allocations[d].stop \in lodged
                            THEN Cardinality(AllocationsFor(Allocations[d].stop)) ELSE 0

Moved(recommended) ==
  \A d \in 1..days :
    itinerary[d].legs = IF plan.legs = <<>> /\ recommended /\ d = 1
                          THEN << SingleTransfer >> ELSE DayLegs(plan.legs, d)

Stayed(here, nights) ==
  \/ \A d \in here : itinerary[d].nights = nights
  \/ \A d \in here : itinerary[d].nights = 0

LEMMA DeliveredDays ==
  ASSUME stage = "done", DaysInv, DOMAIN Allocations = 1..days
  PROVE  /\ days \in Nat \ {0} /\ Len(itinerary) = days
         /\ \E lodged : Lodged(lodged)
         /\ \E recommended \in BOOLEAN : Moved(recommended)
         /\ \A d \in 1..days :
              /\ itinerary[d].stop = Allocations[d].stop
              /\ itinerary[d].checkin = Allocations[d].checkin
              /\ itinerary[d].legs # <<>> => itinerary[d].travel
  <1>1. PICK lodged : \E recommended \in BOOLEAN : itinerary = DeliveredAs(lodged, recommended)
    BY DEF DaysInv
  <1>2. PICK recommended \in BOOLEAN : itinerary = DeliveredAs(lodged, recommended)
    BY <1>1
  <1>3. days \in Nat \ {0} /\ itinerary = [d \in 1..days |-> Delivered(d, lodged, recommended)]
    BY <1>2 DEF DaysInv, DeliveredAs
  <1>4. Len(itinerary) = days
    BY <1>3
  <1>5. ASSUME NEW d \in 1..days
        PROVE  /\ itinerary[d].stop = Allocations[d].stop
               /\ itinerary[d].nights = IF Allocations[d].stop \in lodged
                                          THEN Cardinality(AllocationsFor(Allocations[d].stop)) ELSE 0
               /\ itinerary[d].checkin = Allocations[d].checkin
               /\ itinerary[d].legs = IF plan.legs = <<>> /\ recommended /\ d = 1
                                        THEN << SingleTransfer >> ELSE DayLegs(plan.legs, d)
               /\ itinerary[d].legs # <<>> => itinerary[d].travel
    <2>1. itinerary[d] = Delivered(d, lodged, recommended)
      BY <1>3
    <2>2. LegsOn(d) = DayLegs(plan.legs, d)
      BY DEF LegsOn, DayLegs
    <2>3. PICK legs : legs = TransfersOn(d, recommended)
      OBVIOUS
    <2>4. legs = IF plan.legs = <<>> /\ recommended /\ d = 1
                   THEN << SingleTransfer >> ELSE DayLegs(plan.legs, d)
      BY <2>2, <2>3 DEF TransfersOn
    <2>5. PICK nights : nights = IF Allocations[d].stop \in lodged
                                   THEN Cardinality(AllocationsFor(Allocations[d].stop)) ELSE 0
      OBVIOUS
    <2>6. itinerary[d] = [stop |-> Allocations[d].stop, nights |-> nights,
                          checkin |-> Allocations[d].checkin, checkout |-> Allocations[d].checkout,
                          legs |-> legs, travel |-> Allocations[d].travel \/ legs # <<>>]
      BY <2>1, <2>3, <2>5 DEF Delivered
    <2>7. itinerary[d].travel = (Allocations[d].travel \/ legs # <<>>)
      BY <2>6
    <2>8. legs # <<>> => itinerary[d].travel
      BY ONLY <2>7, Zenon
    <2>9. /\ itinerary[d].stop = Allocations[d].stop /\ itinerary[d].nights = nights
          /\ itinerary[d].checkin = Allocations[d].checkin /\ itinerary[d].legs = legs
      BY <2>6
    <2>10. QED
      BY <2>4, <2>5, <2>8, <2>9
  <1>6. Lodged(lodged) /\ Moved(recommended)
    BY <1>5 DEF Lodged, Moved
  <1>7. QED
    BY <1>3, <1>4, <1>5, <1>6

LEMMA DeliveredLegs ==
  ASSUME stage = "done", DaysInv, DOMAIN Allocations = 1..days, plan.legs # <<>>,
         NEW l \in Nat, NEW legs, legs = plan.legs, legs = [i \in 1..l |-> legs[i]],
         \A k \in 1..l : legs[k].day \in 1..days,
         \A k \in 1..(l - 1) : legs[k].day <= legs[k + 1].day
  PROVE  FlattenSeq([d \in 1..days |-> itinerary[d].legs]) = plan.legs /\ OfTheDay(legs, days)
  <1>1. days \in Nat \ {0} /\ \A d \in 1..days : itinerary[d].legs = DayLegs(plan.legs, d)
    BY DeliveredDays DEF Moved
  <1>2. [d \in 1..days |-> itinerary[d].legs] = [d \in 1..days |-> DayLegs(legs, d)]
    BY <1>1
  <1>3. FlattenSeq([d \in 1..days |-> DayLegs(legs, d)]) = legs /\ OfTheDay(legs, days)
    BY <1>1, LegsByDay
  <1>4. QED
    BY <1>2, <1>3

\* A single destination: one stay, and no leg but the transfer out.
LEMMA SingleFollows ==
  ASSUME stage = "done", DaysInv, plan.status # "multi_stop_provisional"
  PROVE  DaysFollowRoute
  <1>1. days \in Nat \ {0} /\ plan.legs = <<>>
    BY DEF DaysInv
  <1>2. Allocations = [d \in 1..days |-> [stop |-> <<Destination, 1>>, checkin |-> d = 1,
                                          checkout |-> d = days, travel |-> FALSE]]
    BY DEF Allocations, SingleStop
  <1>3. DOMAIN Allocations = 1..days /\ \A d \in 1..days : Allocations[d].stop = <<Destination, 1>>
    BY <1>2
  <1>4. \A d \in 1..days : Allocations[d].checkin = (d = 1)
    BY <1>2
  <1>5. AllocationsFor(<<Destination, 1>>) = 1..days
    BY <1>3 DEF AllocationsFor
  <1>6. IsFiniteSet(1..days) /\ Cardinality(1..days) = days
    BY <1>1, FS_Interval
  <1>7. /\ Len(itinerary) = days
        /\ \A d \in 1..days : /\ itinerary[d].stop = <<Destination, 1>>
                              /\ itinerary[d].checkin = (d = 1)
                              /\ itinerary[d].legs # <<>> => itinerary[d].travel
        /\ \E lodged : Lodged(lodged)
        /\ \E recommended \in BOOLEAN : Moved(recommended)
    BY <1>3, <1>4, DeliveredDays
  <1>8. RouteStops = << [id |-> <<Destination, 1>>, nights |-> days] >>
    BY DEF RouteStops, SingleStop
  <1>9. DOMAIN RouteStops = {1} /\ RouteStops[1].id = <<Destination, 1>> /\ RouteStops[1].nights = days
    BY <1>8
  <1>10. {d \in 1..days : itinerary[d].stop = <<Destination, 1>>} = 1..days
    BY <1>7
  <1>11. Cardinality({d \in 1..days : itinerary[d].checkin}) = 1
    <2>1. \A d \in 1..days : itinerary[d].checkin <=> d = 1
      BY ONLY <1>7, Zenon
    <2>2. {d \in 1..days : itinerary[d].checkin} = {1}
      BY <1>1, <2>1
    <2>3. QED
      BY <2>2, FS_Singleton
  <1>12. Stayed(1..days, days)
    <2>1. PICK lodged : Lodged(lodged)
      BY <1>7
    <2>2. QED
      BY <1>3, <1>5, <1>6, <2>1 DEF Lodged, Stayed
  <1>13. \E l \in {0, 1} : \E legs :
           /\ legs = [k \in 1..l |-> SingleTransfer]
           /\ \A d \in 1..days : itinerary[d].legs = DayLegs(legs, d)
    <2>1. PICK recommended \in BOOLEAN : Moved(recommended)
      BY <1>7
    <2>2. CASE ~recommended
      <3>1. PICK legs : legs = [k \in 1..0 |-> SingleTransfer]
        OBVIOUS
      <3>2. legs = plan.legs
        BY <1>1, <3>1
      <3>3. \A d \in 1..days : itinerary[d].legs = DayLegs(legs, d)
        BY <2>1, <2>2, <3>2 DEF Moved
      <3>4. QED
        BY <3>1, <3>3
    <2>3. CASE recommended
      <3>1. PICK legs : legs = [k \in 1..1 |-> SingleTransfer]
        OBVIOUS
      <3>2. SingleTransfer.day = 1
        BY DEF SingleTransfer, Leg
      <3>3. ASSUME NEW d \in 1..days PROVE itinerary[d].legs = DayLegs(legs, d)
        <4>1. CASE d = 1
          <5>1. {i \in DOMAIN legs : legs[i].day = d} = (0 + 1)..(0 + 1)
            BY <3>1, <3>2, <4>1
          <5>2. DayLegs(legs, d) = [p \in 1..1 |-> legs[0 + p]]
            <6>1. OnDay(legs, d, 0, 1)
              BY <5>1 DEF OnDay
            <6>2. RunOf(DayLegs(legs, d), legs, 0, 1)
              BY <6>1, DayLegsAre
            <6>3. QED
              BY <6>2 DEF RunOf
          <5>3. itinerary[d].legs = << SingleTransfer >>
            BY <1>1, <2>1, <2>3, <4>1 DEF Moved
          <5>4. QED
            BY <3>1, <5>2, <5>3
        <4>2. CASE d # 1
          <5>1. {i \in DOMAIN legs : legs[i].day = d} = (0 + 1)..(0 + 0)
            BY <3>1, <3>2, <4>2
          <5>2. DayLegs(legs, d) = [p \in 1..0 |-> legs[0 + p]]
            <6>1. OnDay(legs, d, 0, 0)
              BY <5>1 DEF OnDay
            <6>2. QED
              BY <6>1, DayLegsAre DEF RunOf
          <5>3. itinerary[d].legs = DayLegs(plan.legs, d)
            BY <2>1, <4>2 DEF Moved
          <5>4. {i \in DOMAIN plan.legs : plan.legs[i].day = d} = (0 + 1)..(0 + 0)
            BY <1>1
          <5>5. DayLegs(plan.legs, d) = [p \in 1..0 |-> plan.legs[0 + p]]
            <6>1. OnDay(plan.legs, d, 0, 0)
              BY <5>4 DEF OnDay
            <6>2. QED
              BY <6>1, DayLegsAre DEF RunOf
          <5>6. QED
            BY <5>2, <5>3, <5>5
        <4>3. QED
          BY <4>1, <4>2
      <3>4. QED
        BY <3>1, <3>3
    <2>4. QED
      BY <2>2, <2>3
  <1>14. PICK l \in {0, 1} : \E legs :
           /\ legs = [k \in 1..l |-> SingleTransfer]
           /\ \A d \in 1..days : itinerary[d].legs = DayLegs(legs, d)
    BY <1>13
  <1>15. PICK legs : /\ legs = [k \in 1..l |-> SingleTransfer]
                     /\ \A d \in 1..days : itinerary[d].legs = DayLegs(legs, d)
    BY <1>14
  <1>16. ASSUME NEW i \in DOMAIN RouteStops, NEW here,
                here = {d \in 1..days : itinerary[d].stop = RouteStops[i].id}
         PROVE  /\ Cardinality(here) = RouteStops[i].nights
                /\ Stayed(here, RouteStops[i].nights)
                /\ Cardinality({d \in here : itinerary[d].checkin}) = 1
    <2>1. i = 1 /\ RouteStops[i].id = <<Destination, 1>> /\ RouteStops[i].nights = days
      BY <1>9
    <2>2. here = 1..days
      BY <1>10, <1>16, <2>1
    <2>3. QED
      BY <1>6, <1>11, <1>12, <2>1, <2>2
  <1>17. /\ FlattenSeq([d \in 1..days |-> itinerary[d].legs]) = legs
         /\ OfTheDay(legs, days)
    <2>1. legs = [k \in 1..l |-> legs[k]] /\ l \in Nat
      BY <1>15
    <2>2. \A k \in 1..l : legs[k].day \in 1..days
      BY <1>1, <1>15 DEF SingleTransfer, Leg
    <2>3. \A k \in 1..(l - 1) : legs[k].day <= legs[k + 1].day
      BY <1>15
    <2>4. FlattenSeq([d \in 1..days |-> DayLegs(legs, d)]) = legs /\ OfTheDay(legs, days)
      BY <1>1, <2>1, <2>2, <2>3, LegsByDay
    <2>5. [d \in 1..days |-> itinerary[d].legs] = [d \in 1..days |-> DayLegs(legs, d)]
      BY <1>15
    <2>6. QED
      BY <2>4, <2>5
  <1>18. legs = plan.legs \/ (plan.legs = <<>> /\ legs = << SingleTransfer >>)
    BY <1>1, <1>15
  <1>19. \A d \in 1..days : \A k \in DOMAIN itinerary[d].legs :
           LET leg == itinerary[d].legs[k]
           IN  /\ itinerary[d].travel
               /\ itinerary[d].stop \in {leg.from, leg.to} \/ plan.gateway \in {leg.from, leg.to}
    <2> SUFFICES ASSUME NEW d \in 1..days, NEW k \in DOMAIN itinerary[d].legs
                 PROVE  /\ itinerary[d].travel
                        /\ itinerary[d].stop \in {itinerary[d].legs[k].from, itinerary[d].legs[k].to}
      BY Zenon
    <2>1. itinerary[d].legs = DayLegs(legs, d) /\ itinerary[d].legs # <<>>
      BY <1>15
    <2>2. PICK j \in DOMAIN legs : itinerary[d].legs[k] = legs[j]
      BY <1>17, <2>1 DEF OfTheDay
    <2>3. legs[j].to = <<Destination, 1>>
      BY <1>15 DEF SingleTransfer, Leg, SingleStop
    <2>4. QED
      BY <1>7, <2>1, <2>2, <2>3
  <1>20. Len(itinerary) = days
    BY <1>7
  <1>21. QED
    BY <1>16, <1>17, <1>18, <1>19, <1>20 DEF DaysFollowRoute, Stayed

\* Each stop has its nights of the days in a row, and is entered on the first.
LEMMA ShapedStays ==
  ASSUME stage = "done", DaysInv, plan.status = "multi_stop_provisional",
         NEW n \in Nat \ {0}, NEW ids, NEW ns, Made(proposal, days, plan, n, ids, ns)
  PROVE  /\ DOMAIN Allocations = 1..days
         /\ \A i \in 1..n : \A m \in 1..ns[i] : itinerary[Before(ns, i) + m].stop = ids[i]
         /\ DOMAIN RouteStops = 1..n
         /\ \A i \in 1..n :
              LET here == {d \in 1..days : itinerary[d].stop = RouteStops[i].id}
              IN  /\ Cardinality(here) = RouteStops[i].nights
                  /\ Stayed(here, RouteStops[i].nights)
                  /\ Cardinality({d \in here : itinerary[d].checkin}) = 1
  <1>1. /\ ns \in Nights(n) /\ Total(ns) = days /\ DOMAIN ids = 1..n /\ Distinct(ids, n)
        /\ plan.byDay = StopsByDay(ids, ns)
        /\ plan.stops = [i \in 1..n |-> [id |-> ids[i], nights |-> ns[i], arrival |-> Before(ns, i) + 1,
                                         departure |-> Before(ns, i + 1) + 1]]
    BY DEF Made
  <1>2. Allocations = StopsByDay(ids, ns)
    BY <1>1 DEF Allocations
  <1>3. /\ DOMAIN Allocations = 1..days
        /\ \A i \in 1..n : \A m \in 1..ns[i] : Allocations[Before(ns, i) + m] = DayAt(ids, ns, i, m)
    BY <1>1, <1>2, DaysInARow
  <1>4. \A i \in 1..n : AllocationsFor(ids[i]) = (Before(ns, i) + 1)..Before(ns, i + 1)
    <2> TAKE i \in 1..n
    <2>1. DaysOf(StopsByDay(ids, ns), ids[i]) = (Before(ns, i) + 1)..Before(ns, i + 1)
      BY <1>1, StopsDays
    <2>2. QED
      BY <1>2, <2>1 DEF AllocationsFor, DaysOf
  <1>5. /\ DOMAIN RouteStops = 1..n
        /\ \A i \in 1..n : RouteStops[i].id = ids[i] /\ RouteStops[i].nights = ns[i]
    <2>1. RouteStops = [i \in DOMAIN plan.stops |-> [id |-> plan.stops[i].id, nights |-> plan.stops[i].nights]]
      BY DEF RouteStops
    <2>2. DOMAIN plan.stops = 1..n /\ \A i \in 1..n : plan.stops[i].id = ids[i] /\ plan.stops[i].nights = ns[i]
      BY <1>1
    <2>3. QED
      BY <2>1, <2>2
  <1>6. /\ \A d \in 1..days : /\ itinerary[d].stop = Allocations[d].stop
                              /\ itinerary[d].checkin = Allocations[d].checkin
        /\ \E lodged : Lodged(lodged)
    BY <1>3, DeliveredDays
  <1>7. ASSUME NEW i \in 1..n
        PROVE  /\ \A m \in 1..ns[i] : itinerary[Before(ns, i) + m].stop = ids[i]
               /\ \E b \in Nat : \E t \in Nat \ {0} :
                    /\ b = Before(ns, i) /\ t = ns[i]
                    /\ AllocationsFor(ids[i]) = (b + 1)..(b + t) /\ b + t <= days
    <2>1. PICK b \in Nat, t \in Nat \ {0} : b = Before(ns, i) /\ t = ns[i] /\ Before(ns, i + 1) = b + t
      <3>1. ns[i] \in Nat \ {0}
        BY <1>1 DEF Nights
      <3>2. /\ Before(ns, i) \in Nat /\ Before(ns, i + 1) \in Nat
            /\ Before(ns, i + 1) = Before(ns, i) + ns[i]
        BY <1>1, BeforeNext
      <3>3. QED
        BY <3>1, <3>2
    <2>2. b + t <= days
      <3>1. i + 1 \in 1..(n + 1) /\ n + 1 \in 1..(n + 1) /\ i + 1 <= n + 1
        OBVIOUS
      <3>2. Before(ns, i + 1) <= Before(ns, n + 1)
        BY <1>1, <3>1, BeforeGrows
      <3>3. Before(ns, n + 1) = days
        BY <1>1, BeforeNext
      <3>4. QED
        BY <2>1, <3>2, <3>3
    <2>3. AllocationsFor(ids[i]) = (b + 1)..(b + t)
      BY <1>4, <2>1
    <2>4. ASSUME NEW m \in 1..ns[i] PROVE itinerary[Before(ns, i) + m].stop = ids[i]
      <3>0. m \in 1..t /\ days \in Nat
        BY <2>1, <2>4 DEF DaysInv
      <3>1. b + m \in 1..days
        BY <2>2, <3>0
      <3>2. Allocations[b + m].stop = ids[i]
        <4>1. Allocations[Before(ns, i) + m] = DayAt(ids, ns, i, m)
          BY <1>3
        <4>2. QED
          BY <2>1, <4>1 DEF DayAt
      <3>3. QED
        BY <1>6, <2>1, <3>1, <3>2
    <2>5. QED
      BY <2>1, <2>2, <2>3, <2>4
  <1>8. ASSUME NEW i \in 1..n, NEW here, here = {d \in 1..days : itinerary[d].stop = RouteStops[i].id}
        PROVE  /\ Cardinality(here) = RouteStops[i].nights
               /\ Stayed(here, RouteStops[i].nights)
               /\ Cardinality({d \in here : itinerary[d].checkin}) = 1
    <2>1. PICK b \in Nat : \E t \in Nat \ {0} :
            /\ b = Before(ns, i) /\ t = ns[i]
            /\ AllocationsFor(ids[i]) = (b + 1)..(b + t) /\ b + t <= days
      BY <1>7
    <2>2. PICK t \in Nat \ {0} : /\ b = Before(ns, i) /\ t = ns[i]
                                 /\ AllocationsFor(ids[i]) = (b + 1)..(b + t) /\ b + t <= days
      BY <2>1
    <2>3. here = AllocationsFor(ids[i])
      BY <1>3, <1>5, <1>6, <1>8 DEF AllocationsFor
    <2>4. Cardinality((b + 1)..(b + t)) = t
      <3>1. b + 1 \in Int /\ b + t \in Int
        BY <2>2
      <3>2. Cardinality((b + 1)..(b + t)) = IF b + 1 > b + t THEN 0 ELSE (b + t) - (b + 1) + 1
        BY <3>1, FS_Interval
      <3>3. QED
        BY <3>2
    <2>5. Cardinality(here) = RouteStops[i].nights
      BY <1>5, <2>2, <2>3, <2>4
    <2>6. Stayed(here, RouteStops[i].nights)
      <3>1. PICK lodged : Lodged(lodged)
        BY <1>6
      <3>2. \A d \in here : d \in 1..days /\ Allocations[d].stop = ids[i]
        BY <1>3, <2>3 DEF AllocationsFor
      <3>3. \A d \in here : itinerary[d].nights = IF ids[i] \in lodged THEN Cardinality(here) ELSE 0
        BY <2>3, <3>1, <3>2 DEF Lodged
      <3>4. QED
        BY <2>5, <3>3 DEF Stayed
    <2>7. ASSUME NEW d \in here PROVE itinerary[d].checkin = (d = b + 1)
      <3>1. d \in (b + 1)..(b + t) /\ d \in 1..days
        BY <1>8, <2>2, <2>3
      <3>2. PICK m \in 1..t : d = b + m
        <4>1. d - b \in 1..t /\ d = b + (d - b)
          BY <3>1
        <4>2. QED
          BY <4>1
      <3>3. Allocations[d] = DayAt(ids, ns, i, m)
        BY <1>3, <2>2, <3>2
      <3>4. Allocations[d].checkin = (m = 1)
        BY <3>3 DEF DayAt
      <3>5. itinerary[d].checkin = (m = 1)
        BY <1>6, <3>1, <3>4
      <3>6. m = 1 <=> d = b + 1
        BY <3>2
      <3>7. QED
        BY ONLY <3>5, <3>6, Zenon
    <2>8. {d \in here : itinerary[d].checkin} = {b + 1}
      <3>1. b + 1 \in here
        BY <2>2, <2>3
      <3>2. \A d \in here : itinerary[d].checkin <=> d = b + 1
        BY ONLY <2>7, Zenon
      <3>3. QED
        BY <3>1, <3>2
    <2>9. Cardinality({d \in here : itinerary[d].checkin}) = 1
      BY <2>8, FS_Singleton
    <2>10. QED
      BY <2>5, <2>6, <2>9
  <1>9. \A i \in 1..n : \A m \in 1..ns[i] : itinerary[Before(ns, i) + m].stop = ids[i]
    BY <1>7
  <1>10. QED
    BY <1>3, <1>5, <1>8, <1>9

\* Each leg is on a day at one of its ends.
LEMMA ShapedLegs ==
  ASSUME stage = "done", DaysInv, plan.status = "multi_stop_provisional",
         NEW n \in Nat \ {0}, NEW ids, NEW ns, Made(proposal, days, plan, n, ids, ns)
  PROVE  /\ plan.legs # <<>>
         /\ FlattenSeq([d \in 1..days |-> itinerary[d].legs]) = plan.legs
         /\ OfTheDay(plan.legs, days)
         /\ \A k \in DOMAIN plan.legs :
              LET leg == plan.legs[k]
              IN  itinerary[leg.day].stop \in {leg.from, leg.to} \/ plan.gateway \in {leg.from, leg.to}
  <1>1. /\ DOMAIN Allocations = 1..days
        /\ \A i \in 1..n : \A m \in 1..ns[i] : itinerary[Before(ns, i) + m].stop = ids[i]
    BY ShapedStays
  <1>2. ns \in Nights(n) /\ Total(ns) = days
    BY DEF Made
  <1>3. PICK g : \E c \in {0, 1} : /\ Tour(plan.legs, n, ids, ns, g, c) /\ g[2] = 0
                                   /\ plan.gateway = IF c = 0 THEN ids[1] ELSE g
    BY MadeIsTour
  <1>4. PICK c \in {0, 1} : /\ Tour(plan.legs, n, ids, ns, g, c)
                            /\ plan.gateway = IF c = 0 THEN ids[1] ELSE g
    BY <1>3
  <1>5. PICK legs : legs = plan.legs
    OBVIOUS
  <1>6. Tour(legs, n, ids, ns, g, c)
    BY <1>4, <1>5
  <1>7. PICK l \in Nat : l = Len(legs) /\ l = n + 1 + 2 * c /\ DOMAIN legs = 1..l
    BY <1>6 DEF Tour
  <1>8. legs = [k \in 1..l |-> legs[k]]
    BY <1>5, <1>7 DEF Made, Sorted
  <1>9. LegsFrom(legs, n, ids, ns, g, c) /\ LegsTo(legs, n, ids, g, c)
    BY <1>2, <1>6, TourLegs
  <1>10. \A k \in 1..l :
           \/ k <= c + 1 /\ legs[k].from \in {Source, g} /\ legs[k].day = 1
           \/ \E i \in 1..n : k = c + i + 1 /\ legs[k].from = ids[i] /\ legs[k].day = Before(ns, i + 1)
           \/ c = 1 /\ k = n + 3 /\ legs[k].from = g /\ legs[k].day = Total(ns)
    BY <1>7, <1>9 DEF LegsFrom
  <1>11. /\ days \in Nat \ {0}
         /\ \A i \in 2..(n + 1) : Before(ns, i) \in Nat /\ Before(ns, i) > 0 /\ Before(ns, i) <= days
    BY <1>2, BeforeBounds DEF DaysInv
  <1>12. ASSUME NEW k \in 1..l PROVE legs[k].day \in 1..days
    <2>1. CASE legs[k].day = 1 \/ legs[k].day = Total(ns)
      BY <1>2, <1>11, <2>1
    <2>2. CASE \E i \in 1..n : legs[k].day = Before(ns, i + 1)
      <3>1. PICK i \in 1..n : legs[k].day = Before(ns, i + 1)
        BY <2>2
      <3>2. i + 1 \in 2..(n + 1)
        OBVIOUS
      <3>3. QED
        BY <1>11, <3>1, <3>2
    <2>3. QED
      BY <1>10, <2>1, <2>2
  <1>13. \A k \in 1..(l - 1) : legs[k].day <= legs[k + 1].day
    <2>1. \A k \in 1..(Len(legs) - 1) : legs[k].to = legs[k + 1].from /\ legs[k].day <= legs[k + 1].day
      BY <1>2, <1>6, TourFollows
    <2>2. QED
      BY <1>7, <2>1
  <1>14. /\ plan.legs # <<>>
         /\ FlattenSeq([d \in 1..days |-> itinerary[d].legs]) = plan.legs /\ OfTheDay(legs, days)
    <2>1. plan.legs # <<>>
      BY <1>5, <1>7
    <2>2. QED
      BY <1>1, <1>5, <1>8, <1>12, <1>13, <2>1, DeliveredLegs
  <1>15. ASSUME NEW k \in 1..l
         PROVE  itinerary[legs[k].day].stop \in {legs[k].from, legs[k].to} \/ plan.gateway \in {legs[k].from, legs[k].to}
    <2>1. CASE k <= c + 1 /\ legs[k].day = 1
      <3>1. CASE c = 0
        <4>1. k = 1 /\ 1 \in 1..n /\ c + 1 = 1
          BY <2>1, <3>1
        <4>2. legs[1].to = ids[1]
          <5>1. legs[c + 1].to = ids[1]
            BY <1>6, <4>1 DEF Tour
          <5>2. QED
            BY <4>1, <5>1
        <4>3. plan.gateway = ids[1]
          BY <1>4, <3>1
        <4>4. QED
          BY <4>1, <4>2, <4>3
      <3>2. CASE c = 1
        <4>1. plan.gateway = g /\ legs[1].to = g /\ legs[2].from = g
          BY <1>4, <1>6, <3>2 DEF Tour
        <4>2. k = 1 \/ k = 2
          BY <2>1, <3>2
        <4>3. QED
          BY <4>1, <4>2
      <3>3. QED
        BY <3>1, <3>2
    <2>2. CASE \E i \in 1..n : legs[k].from = ids[i] /\ legs[k].day = Before(ns, i + 1)
      <3>1. PICK i \in 1..n : legs[k].from = ids[i] /\ legs[k].day = Before(ns, i + 1)
        BY <2>2
      <3>2. ns[i] \in 1..ns[i] /\ Before(ns, i + 1) = Before(ns, i) + ns[i]
        BY <1>2, BeforeNext DEF Nights
      <3>3. itinerary[legs[k].day].stop = ids[i]
        BY <1>1, <3>1, <3>2
      <3>4. QED
        BY <3>1, <3>3
    <2>3. CASE c = 1 /\ legs[k].from = g
      BY <1>4, <2>3
    <2>4. QED
      BY <1>10, <2>1, <2>2, <2>3
  <1>16. QED
    BY <1>5, <1>7, <1>14, <1>15

LEMMA ShapedFollows ==
  ASSUME stage = "done", DaysInv, plan.status = "multi_stop_provisional"
  PROVE  DaysFollowRoute
  <1>1. PICK n \in Nat \ {0} : \E ids, ns : Made(proposal, days, plan, n, ids, ns)
    BY DEF DaysInv
  <1>2. PICK ids, ns : Made(proposal, days, plan, n, ids, ns)
    BY <1>1
  <1>3. /\ DOMAIN Allocations = 1..days /\ DOMAIN RouteStops = 1..n
        /\ \A i \in 1..n :
             LET here == {d \in 1..days : itinerary[d].stop = RouteStops[i].id}
             IN  /\ Cardinality(here) = RouteStops[i].nights
                 /\ Stayed(here, RouteStops[i].nights)
                 /\ Cardinality({d \in here : itinerary[d].checkin}) = 1
    BY <1>2, ShapedStays
  <1>4. /\ plan.legs # <<>>
        /\ FlattenSeq([d \in 1..days |-> itinerary[d].legs]) = plan.legs
        /\ OfTheDay(plan.legs, days)
        /\ \A k \in DOMAIN plan.legs :
             LET leg == plan.legs[k]
             IN  itinerary[leg.day].stop \in {leg.from, leg.to} \/ plan.gateway \in {leg.from, leg.to}
    BY <1>2, ShapedLegs
  <1>5. /\ Len(itinerary) = days
        /\ \A d \in 1..days : /\ itinerary[d].legs = DayLegs(plan.legs, d)
                              /\ itinerary[d].legs # <<>> => itinerary[d].travel
    BY <1>3, <1>4, DeliveredDays DEF Moved
  <1>6. ASSUME NEW d \in 1..days, NEW k \in DOMAIN itinerary[d].legs
        PROVE  LET leg == itinerary[d].legs[k]
               IN  /\ itinerary[d].travel
                   /\ itinerary[d].stop \in {leg.from, leg.to} \/ plan.gateway \in {leg.from, leg.to}
    <2>1. itinerary[d].legs = DayLegs(plan.legs, d) /\ DayLegs(plan.legs, d) # <<>>
      BY <1>5
    <2>2. PICK j \in DOMAIN plan.legs : plan.legs[j] = itinerary[d].legs[k] /\ plan.legs[j].day = d
      BY <1>4, <2>1 DEF OfTheDay
    <2>3. itinerary[d].travel
      BY <1>5, <2>1
    <2>4. QED
      BY <1>4, <2>2, <2>3
  <1>7. QED
    BY <1>3, <1>4, <1>5, <1>6 DEF DaysFollowRoute, Stayed

LEMMA AllocationsKept ==
  ASSUME plan' = plan, days' = days
  PROVE  \A lodged, recommended :
           DeliveredAs(lodged, recommended)' = DeliveredAs(lodged, recommended)
  <1> TAKE lodged, recommended
  <1>1. Allocations' = Allocations
    BY DEF Allocations, SingleStop
  <1>2. \A d : TransfersOn(d, recommended)' = TransfersOn(d, recommended)
    <2> TAKE d
    <2>1. LegsOn(d) = DayLegs(plan.legs, d)
      BY DEF LegsOn, DayLegs
    <2>2. LegsOn(d)' = DayLegs(plan'.legs, d)
      BY DEF LegsOn, DayLegs, InOrder
    <2>3. QED
      BY <2>1, <2>2 DEF TransfersOn, SingleTransfer, Leg, SingleStop
  <1>3. \A d : AllocationsFor(Allocations[d].stop)' = AllocationsFor(Allocations[d].stop)
    BY <1>1 DEF AllocationsFor
  <1>4. \A d : Delivered(d, lodged, recommended)' = Delivered(d, lodged, recommended)
    BY <1>1, <1>2, <1>3 DEF Delivered
  <1>5. QED
    BY <1>1, <1>4 DEF DeliveredAs

LEMMA DaysInit ==
  ASSUME CompilerInit
  PROVE  DaysInv
  <1>1. days \in Nat
    BY BoundsAssumption DEF CompilerInit, RouteInit
  <1>2. stage = "routing"
    BY DEF CompilerInit
  <1>3. QED
    BY <1>1, <1>2 DEF DaysInv

\* A discovered route is shaped, or has no legs.
LEMMA DiscoveredRoute ==
  ASSUME DaysInv, Discover
  PROVE  DaysInv'
  <1>1. /\ days' = days /\ days \in Nat /\ stage' \in {"stopped", "planning"}
    BY DEF Discover, RouteNext, NothingToAsk, ModelFails, ModelAnswers, DaysInv
  <1>2. ASSUME plan'.status = "multi_stop_provisional"
        PROVE  \E n \in Nat \ {0} : \E ids, ns : Made(proposal', days', plan', n, ids, ns)
    <2>1. PICK route \in Proposal : proposal' = route /\ plan' = ShapeRoute(route, days) /\ days > 0
      BY <1>2 DEF Discover, RouteNext, NothingToAsk, ModelFails, ModelAnswers, EmptyResult
    <2>2. days \in Nat \ {0}
      BY <1>1, <2>1
    <2>3. PICK n \in Nat \ {0} : \E ids, ns : Made(route, days, ShapeRoute(route, days), n, ids, ns)
      BY <1>2, <2>1, <2>2, ShapedIsMade
    <2>4. QED
      BY <1>1, <2>1, <2>3
  <1>3. ASSUME plan'.status # "multi_stop_provisional" PROVE plan'.legs = <<>>
    <2>1. CASE NothingToAsk \/ ModelFails
      BY <2>1 DEF NothingToAsk, ModelFails, EmptyResult
    <2>2. CASE ModelAnswers
      <3>1. PICK route \in Proposal : plan' = ShapeRoute(route, days)
        BY <2>2 DEF ModelAnswers
      <3>2. route.status = "single_destination" \/ route.stops = <<>>
        BY <1>3, <3>1 DEF ShapeRoute
      <3>3. QED
        BY <3>1, <3>2 DEF ShapeRoute, EmptyResult
    <2>3. QED
      BY <2>1, <2>2 DEF Discover, RouteNext
  <1>4. QED
    BY <1>1, <1>2, <1>3 DEF DaysInv

LEMMA DaysStep ==
  ASSUME DaysInv, [CompilerNext]_vars
  PROVE  DaysInv'
  <1>1. CASE Discover
    BY <1>1, DiscoveredRoute
  <1>2. CASE ~Discover
    <2>1. /\ days' = days /\ plan' = plan /\ proposal' = proposal
          /\ stage = "routing" => stage' = stage
          /\ stage' \in {"gate", "done"} => stage \in {"gate", "done"} \/ (stage = "planning" /\ days > 0)
          /\ stage' = "done" =>
               \/ \E lodged : \E recommended \in BOOLEAN : itinerary' = DeliveredAs(lodged, recommended)
               \/ stage = "done" /\ itinerary' = itinerary
      <3>1. CASE Refuse
        BY <3>1 DEF Refuse, routeVars
      <3>2. CASE CompileStop
        BY <3>2 DEF CompileStop, routeVars
      <3>3. CASE GatePasses
        BY <3>3 DEF GatePasses, Deliver, DeliveredAs, routeVars
      <3>4. CASE GateResolves
        BY <3>4 DEF GateResolves, Deliver, DeliveredAs, routeVars
      <3>5. CASE UNCHANGED vars
        BY <3>5 DEF vars, routeVars
      <3>6. QED
        BY <1>2, <3>1, <3>2, <3>3, <3>4, <3>5 DEF CompilerNext
    <2>2. \A lodged, recommended :
            DeliveredAs(lodged, recommended)' = DeliveredAs(lodged, recommended)
      BY <2>1, AllocationsKept
    <2>3. days' \in Nat /\ (stage' \in {"gate", "done"} => days' \in Nat \ {0})
      BY <2>1 DEF DaysInv
    <2>4. stage' # "routing" => stage # "routing"
      BY <2>1
    <2>5. QED
      BY <2>1, <2>2, <2>3, <2>4 DEF DaysInv
  <1>3. QED
    BY <1>1, <1>2

\* The days delivered follow the route day by day, a stay is on all the days of
\* its stop and as long as its nights, and the legs are those of the route in
\* order, or at most one transfer out when it has none, each on a day at one of
\* its ends.
THEOREM DaysFollowRouteHolds == CompilerSpec => []DaysFollowRoute
  <1>1. DaysInv => DaysFollowRoute
    BY SingleFollows, ShapedFollows DEF DaysFollowRoute
  <1>2. QED
    BY <1>1, DaysInit, DaysStep, PTL DEF CompilerSpec
=============================================================================
