---------------------------- MODULE SegmentsProofs ----------------------------
(***************************************************************************)
(* Proofs about Segments, for any number of users, segments, votes and     *)
(* decisions: the types with any number of requests in flight, the rest    *)
(* with one at a time, which is what the runs check as well.               *)
(***************************************************************************)
EXTENDS Segments, FiniteSetTheorems, TLAPS

-----------------------------------------------------------------------------
(* Sums.  A fold over a finite set adds up its elements, whatever order it *)
(* takes them in.                                                          *)

(* Induction over the subsets of a finite set, towards a set G of them. *)
LEMMA SubsetInduction ==
  ASSUME NEW S, IsFiniteSet(S), NEW G,
         \A T \in SUBSET S :
           (\A U \in SUBSET T : U # T => U \in G) => T \in G
  PROVE  \A T \in SUBSET S : T \in G
<1> DEFINE Bad == {T \in SUBSET S : T \notin G}
<1>1. SUFFICES ASSUME Bad # {} PROVE FALSE
  OBVIOUS
<1>2. IsWellFoundedOn(StrictSubsetOrdering(S), SUBSET S)
  BY FS_StrictSubsetOrderingWellFounded, FS_FiniteSubsetsOfFinite
<1>3. PICK T \in Bad : \A U \in Bad : <<U, T>> \notin StrictSubsetOrdering(S)
  <2>1. Bad \subseteq SUBSET S
    OBVIOUS
  <2> HIDE DEF Bad
  <2> QED BY <1>1, <1>2, <2>1, WFMin
<1>4. ASSUME NEW U \in SUBSET T, U # T PROVE U \in G
  <2>1. <<U, T>> \in StrictSubsetOrdering(S)
    BY <1>3, <1>4 DEF StrictSubsetOrdering
  <2> QED BY <1>3, <1>4, <2>1
<1> QED BY <1>3, <1>4

(* The function that MapThenSumSet computes for the terms w[x]. *)
Some(s) == CHOOSE x \in s : TRUE
Rest(s) == s \ {Some(s)}
Added(w, S, f) ==
  [s \in SUBSET S |-> IF s = {} THEN 0 ELSE w[Some(s)] + f[Rest(s)]]
Sums(w, S) == CHOOSE f : f = Added(w, S, f)
Total(w, S) == Sums(w, S)[S]

LEMMA RestIsSmaller ==
  ASSUME NEW s, s # {}
  PROVE  Rest(s) \in SUBSET s /\ Rest(s) # s /\ Some(s) \in s
BY DEF Rest, Some

(* A set has the same total, whichever set the fold started from. *)
LEMMA SumsCohere ==
  ASSUME NEW w, NEW S, IsFiniteSet(S)
  PROVE  /\ Sums(w, S) = Added(w, S, Sums(w, S))
         /\ \A U \in SUBSET S : Sums(w, S)[U] = Total(w, U)
<1> DEFINE Sound(T) == /\ Sums(w, T) = Added(w, T, Sums(w, T))
                       /\ \A U \in SUBSET T : Sums(w, T)[U] = Total(w, U)
           G == {T \in SUBSET S : Sound(T)}
<1>1. ASSUME NEW T \in SUBSET S, \A U \in SUBSET T : U # T => U \in G
      PROVE  T \in G
  <2> DEFINE g == [s \in SUBSET T |->
                     IF s = {} THEN 0 ELSE w[Some(s)] + Total(w, Rest(s))]
  <2>1. ASSUME NEW c \in SUBSET T, c # T PROVE g[c] = Total(w, c)
    <3>1. Sound(c)
      BY <1>1, <2>1
    <3>2. Total(w, c) = IF c = {} THEN 0 ELSE w[Some(c)] + Sums(w, c)[Rest(c)]
      BY <3>1 DEF Added, Total
    <3>3. c # {} => Sums(w, c)[Rest(c)] = Total(w, Rest(c))
      BY <3>1, RestIsSmaller
    <3> QED BY <3>2, <3>3
  <2>2. g = Added(w, T, g)
    <3>1. ASSUME NEW s \in SUBSET T, s # {}
          PROVE  g[Rest(s)] = Total(w, Rest(s))
      <4>1. Rest(s) \in SUBSET T /\ Rest(s) # T
        BY <3>1, RestIsSmaller
      <4> QED BY <2>1, <4>1
    <3> QED BY <3>1 DEF Added
  <2> HIDE DEF g
  <2>3. Sums(w, T) = Added(w, T, Sums(w, T))
    BY <2>2 DEF Sums
  <2> DEFINE H == {U \in SUBSET T : Sums(w, T)[U] = Total(w, U)}
  <2>4. ASSUME NEW U \in SUBSET T, \A V \in SUBSET U : V # U => V \in H
        PROVE  U \in H
    <3>1. CASE U = T
      BY <3>1 DEF Total
    <3>2. CASE U # T
      <4>1. Sound(U)
        BY <1>1, <3>2
      <4>2. Sums(w, T)[U] = IF U = {} THEN 0 ELSE w[Some(U)] + Sums(w, T)[Rest(U)]
        BY <2>3 DEF Added
      <4>3. Total(w, U) = IF U = {} THEN 0 ELSE w[Some(U)] + Sums(w, U)[Rest(U)]
        BY <4>1 DEF Added, Total
      <4>4. U # {} => Sums(w, T)[Rest(U)] = Total(w, Rest(U))
        BY <2>4, RestIsSmaller
      <4>5. U # {} => Sums(w, U)[Rest(U)] = Total(w, Rest(U))
        BY <4>1, RestIsSmaller
      <4> QED BY <4>2, <4>3, <4>4, <4>5
    <3> QED BY <3>1, <3>2
  <2>5. IsFiniteSet(T)
    BY FS_Subset
  <2>6. \A U \in SUBSET T : U \in H
    <3> HIDE DEF H
    <3> QED BY <2>4, <2>5, SubsetInduction
  <2> QED BY <2>3, <2>6
<1>2. \A T \in SUBSET S : T \in G
  <2> HIDE DEF G
  <2> QED BY <1>1, SubsetInduction
<1> QED BY <1>2

LEMMA TotalUnfolds ==
  ASSUME NEW w, NEW S, IsFiniteSet(S)
  PROVE  Total(w, S) = IF S = {} THEN 0 ELSE w[Some(S)] + Total(w, Rest(S))
<1> DEFINE f == Sums(w, S)
<1>1. f = Added(w, S, f)
  BY SumsCohere
<1> HIDE DEF f
<1>2. f[S] = IF S = {} THEN 0 ELSE w[Some(S)] + f[Rest(S)]
  BY <1>1 DEF Added
<1>3. S # {} => f[Rest(S)] = Total(w, Rest(S))
  BY SumsCohere, RestIsSmaller DEF f
<1> QED BY <1>2, <1>3 DEF f, Total

(* From here on the terms are natural numbers. *)
NaturalTerms(w, S) == IsFiniteSet(S) /\ \A x \in S : w[x] \in Nat

LEMMA Parts ==
  ASSUME NEW w, NEW S, NaturalTerms(w, S), NEW T \in SUBSET S
  PROVE  NaturalTerms(w, T)
BY FS_Subset DEF NaturalTerms

LEMMA TotalIsNatural ==
  ASSUME NEW w, NEW S, NaturalTerms(w, S)
  PROVE  Total(w, S) \in Nat
<1> DEFINE G == {T \in SUBSET S : Total(w, T) \in Nat}
<1>1. ASSUME NEW T \in SUBSET S, \A U \in SUBSET T : U # T => U \in G
      PROVE  T \in G
  <2>1. NaturalTerms(w, T)
    BY Parts
  <2>2. Total(w, T) = IF T = {} THEN 0 ELSE w[Some(T)] + Total(w, Rest(T))
    BY <2>1, TotalUnfolds DEF NaturalTerms
  <2>3. T # {} => Total(w, Rest(T)) \in Nat /\ w[Some(T)] \in Nat
    BY <1>1, <2>1, RestIsSmaller DEF NaturalTerms
  <2> QED BY <2>2, <2>3
<1>2. IsFiniteSet(S)
  BY DEF NaturalTerms
<1>3. \A T \in SUBSET S : T \in G
  <2> HIDE DEF G
  <2> QED BY <1>1, <1>2, SubsetInduction
<1> QED BY <1>3

(* The order in which the fold takes the elements does not matter. *)
LEMMA TotalWithout ==
  ASSUME NEW w, NEW S, NaturalTerms(w, S), NEW x \in S
  PROVE  Total(w, S) = w[x] + Total(w, S \ {x})
<1> DEFINE G == {T \in SUBSET S :
                   \A y \in T : Total(w, T) = w[y] + Total(w, T \ {y})}
<1>1. ASSUME NEW T \in SUBSET S, \A U \in SUBSET T : U # T => U \in G
      PROVE  T \in G
  <2> SUFFICES ASSUME NEW y \in T
               PROVE  Total(w, T) = w[y] + Total(w, T \ {y})
    OBVIOUS
  <2> DEFINE c == Some(T)
             both == T \ {y, c}
  <2>1. NaturalTerms(w, T) /\ NaturalTerms(w, both)
    BY Parts
  <2>2. c \in T /\ T \ {c} # T /\ Total(w, T) = w[c] + Total(w, T \ {c})
    BY <2>1, TotalUnfolds, RestIsSmaller DEF NaturalTerms, Rest
  <2>3. CASE y = c
    BY <2>2, <2>3
  <2>4. CASE y # c
    <3>1. T \ {c} \in G /\ T \ {y} \in G
      BY <1>1, <2>2
    <3>2. (T \ {c}) \ {y} = both /\ (T \ {y}) \ {c} = both
      OBVIOUS
    <3>3. Total(w, T \ {c}) = w[y] + Total(w, both)
      BY <2>4, <3>1, <3>2
    <3>4. Total(w, T \ {y}) = w[c] + Total(w, both)
      BY <2>2, <2>4, <3>1, <3>2
    <3>5. w[y] \in Nat /\ w[c] \in Nat
      BY <2>1, <2>2 DEF NaturalTerms
    <3>6. Total(w, both) \in Nat
      BY <2>1, TotalIsNatural
    <3> HIDE DEF c, both
    <3> QED BY <2>2, <3>3, <3>4, <3>5, <3>6
  <2> QED BY <2>3, <2>4
<1>2. IsFiniteSet(S)
  BY DEF NaturalTerms
<1>3. \A T \in SUBSET S : T \in G
  <2> HIDE DEF G
  <2> QED BY <1>1, <1>2, SubsetInduction
<1> QED BY <1>3

(* Elements may be left out: the total does not grow, and stays the same   *)
(* if their terms are zero.                                                *)
LEMMA TotalOfPart ==
  ASSUME NEW w, NEW S, NaturalTerms(w, S), NEW P \in SUBSET S
  PROVE  /\ Total(w, P) <= Total(w, S)
         /\ (\A x \in S \ P : w[x] = 0) => Total(w, P) = Total(w, S)
<1> DEFINE Below(Q, T) ==
             /\ Total(w, Q) <= Total(w, T)
             /\ (\A x \in T \ Q : w[x] = 0) => Total(w, Q) = Total(w, T)
           G == {T \in SUBSET S : \A Q \in SUBSET T : Below(Q, T)}
<1>1. ASSUME NEW T \in SUBSET S, \A U \in SUBSET T : U # T => U \in G
      PROVE  T \in G
  <2> SUFFICES ASSUME NEW Q \in SUBSET T PROVE Below(Q, T)
    OBVIOUS
  <2>1. NaturalTerms(w, T) /\ NaturalTerms(w, Q)
    BY Parts
  <2>2. Total(w, Q) \in Nat /\ Total(w, T) \in Nat
    BY <2>1, TotalIsNatural
  <2>3. CASE Q = T
    BY <2>2, <2>3
  <2>4. CASE Q # T
    <3>1. PICK x \in T : x \notin Q
      BY <2>4
    <3>2. Below(Q, T \ {x})
      BY <1>1, <3>1
    <3>3. Total(w, T) = w[x] + Total(w, T \ {x}) /\ w[x] \in Nat
      BY <2>1, TotalWithout DEF NaturalTerms
    <3>4. Total(w, T \ {x}) \in Nat
      BY <2>1, Parts, TotalIsNatural
    <3> QED BY <2>2, <3>1, <3>2, <3>3, <3>4
  <2> QED BY <2>3, <2>4
<1>2. IsFiniteSet(S)
  BY DEF NaturalTerms
<1>3. \A T \in SUBSET S : T \in G
  <2> HIDE DEF G
  <2> QED BY <1>1, <1>2, SubsetInduction
<1> QED BY <1>3

-----------------------------------------------------------------------------
(* Factor C: the agreed share of the weight, scaled by the completeness of *)
(* the sample, lies between 0 and 1.                                       *)

Anns == {A \in SUBSET Annotation : IsFiniteSet(A)}

WeightStep(S, f) ==
  [s \in SUBSET S |-> IF s = {} THEN 0 ELSE Some(s).weight + f[Rest(s)]]
WeightSums(S) == CHOOSE f : f = WeightStep(S, f)

LEMMA WeightIsTotal ==
  ASSUME NEW S, NEW w, \A n \in S : w[n] = n.weight
  PROVE  Weight(S) = Total(w, S)
<1>1. Weight(S) = WeightSums(S)[S]
  BY DEF Weight, MapThenSumSet, MapThenFoldSet, WeightSums, WeightStep, Some, Rest
<1>2. \A f : WeightStep(S, f) = Added(w, S, f)
  BY RestIsSmaller DEF WeightStep, Added
<1>3. WeightSums(S) = Sums(w, S)
  BY <1>2, Zenon DEF WeightSums, Sums
<1> QED BY <1>1, <1>3 DEF Total

LEMMA WeightOfPart ==
  ASSUME NEW A \in Anns, NEW P \in SUBSET A
  PROVE  /\ Weight(P) \in Nat /\ Weight(A) \in Nat
         /\ Weight(P) <= Weight(A)
         /\ A # {} => Weight(A) > 0
<1> DEFINE w == [n \in A |-> n.weight]
<1>1. \A n \in A : w[n] = n.weight /\ w[n] \in Nat \ {0}
  BY DEF Anns, Annotation, Reputation, ReputationMin, ReputationMax
<1> HIDE DEF w
<1>2. NaturalTerms(w, A) /\ NaturalTerms(w, P)
  BY <1>1, Parts DEF NaturalTerms, Anns
<1>3. Weight(A) = Total(w, A) /\ Weight(P) = Total(w, P)
  BY <1>1, WeightIsTotal
<1>4. Total(w, A) \in Nat /\ Total(w, P) \in Nat /\ Total(w, P) <= Total(w, A)
  BY <1>2, TotalIsNatural, TotalOfPart
<1>5. ASSUME NEW n \in A PROVE Total(w, A) > 0
  <2>1. Total(w, A) = w[n] + Total(w, A \ {n})
    BY <1>2, TotalWithout
  <2>2. Total(w, A \ {n}) \in Nat
    BY <1>2, Parts, TotalIsNatural
  <2> QED BY <1>1, <2>1, <2>2
<1> QED BY <1>3, <1>4, <1>5

LEMMA ShareIsBounded ==
  ASSUME NEW part \in Nat, NEW whole \in Nat \ {0}, part <= whole
  PROVE  (100 * part) \div whole \in 0 .. 100
OBVIOUS

LEMMA ProductsCompare ==
  ASSUME NEW a \in Nat, NEW b \in Nat, NEW c \in Nat, NEW d \in Nat,
         a <= b, c <= d
  PROVE  a * c <= b * d /\ a * c \in Nat /\ b * d \in Nat
<1>1. a * c <= b * c
  OBVIOUS
<1>2. b * c <= b * d
  OBVIOUS
<1> QED BY <1>1, <1>2

LEMMA VotesAreNatural ==
  ASSUME NEW A \in Anns
  PROVE  /\ Cardinality(A) \in Nat /\ Votes(A) \in Nat
         /\ \A P \in SUBSET A : P \in Anns /\ Votes(P) <= Votes(A)
<1>1. \A P \in SUBSET A : P \in Anns
  BY FS_Subset DEF Anns
<1>2. \A P \in SUBSET A : Problems(P) \in SUBSET Problems(A)
  BY DEF Problems
<1>3. Problems(A) \in Anns
  BY <1>1 DEF Problems
<1>4. Cardinality(A) \in Nat /\ Cardinality(Problems(A)) \in Nat
  BY <1>3, FS_CardinalityType DEF Anns
<1>5. \A P \in SUBSET A : Cardinality(Problems(P)) <= Cardinality(Problems(A))
  BY <1>2, <1>3, FS_Subset DEF Anns
<1> QED BY <1>1, <1>4, <1>5 DEF Votes

LEMMA FactorCIsFactor ==
  ASSUME NEW A \in Anns
  PROVE  FactorC(A) \in Factor
<1> DEFINE n == Cardinality(A)
           sample == IF n < VotesRequired THEN n ELSE VotesRequired
           part == Weight(Problems(A))
           all == Weight(A)
<1>1. CASE n = 0
  BY <1>1 DEF FactorC, Factor
<1>2. CASE n # 0
  <2>1. n \in Nat /\ A # {}
    BY <1>2, VotesAreNatural, FS_EmptySet
  <2>2. sample \in Nat /\ sample <= VotesRequired /\ VotesRequired \in Nat \ {0}
    BY <2>1, ConsensusAssumption
  <2>3. part \in Nat /\ all \in Nat \ {0} /\ part <= all
    BY <2>1, WeightOfPart DEF Problems
  <2>4. FactorC(A) = (100 * part * sample) \div (all * VotesRequired)
    BY <1>2 DEF FactorC
  <2> HIDE DEF n, sample, part, all
  <2>5. part * sample <= all * VotesRequired /\ part * sample \in Nat
    BY <2>2, <2>3, ProductsCompare
  <2>6. all * VotesRequired \in Nat \ {0}
    BY <2>2, <2>3
  <2>7. 100 * part * sample = 100 * (part * sample)
    BY <2>2, <2>3
  <2> QED BY <2>4, <2>5, <2>6, <2>7, ShareIsBounded DEF Factor
<1> QED BY <1>1, <1>2

-----------------------------------------------------------------------------
(* What the operators of a row and of a user return. *)

LEMMA ClampIsFactor ==
  ASSUME NEW x \in Int
  PROVE  Clamp01(x) \in Factor
BY DEF Clamp01, Factor

LEMMA IndexIsFactor ==
  ASSUME NEW s \in Factor, NEW c \in Factor, NEW t \in Factor, NEW a \in Factor
  PROVE  ComputeIndex(s, c, t, a) \in Factor
BY DEF ComputeIndex, Round100, Factor

LEMMA RecencyIsFactor ==
  ASSUME NEW d \in Nat
  PROVE  ComputeRecency(d) \in Factor
BY DEF ComputeRecency, SaturationDays, Factor

IndexOf(x) == ComputeIndex(x.s, x.c, x.t, x.a)
Kept == {"s", "c", "a", "since", "votes", "queued", "verified", "status",
         "pool", "truth", "type"}

LEMMA RecalculatedRow ==
  ASSUME NEW x \in Row
  PROVE  /\ Recalculate(x) \in Row
         /\ Recalculate(x).index = IndexOf(Recalculate(x))
         /\ \A f \in Kept : Recalculate(x)[f] = x[f]
<1> DEFINE t == ComputeRecency(x.since)
           i == ComputeIndex(x.s, x.c, t, x.a)
<1>1. t \in Factor /\ i \in Factor
  BY RecencyIsFactor, IndexIsFactor DEF Row
<1>2. Recalculate(x) = [x EXCEPT !.t = t, !.index = i]
  BY DEF Recalculate
<1> DEFINE y == [x EXCEPT !.t = t, !.index = i]
<1>3. y.t = t /\ y.index = i /\ y.s = x.s /\ y.c = x.c /\ y.a = x.a
  BY DEF Row
<1>4. y.index = IndexOf(y)
  BY <1>3 DEF IndexOf
<1> HIDE DEF t, i
<1>5. y \in Row /\ \A f \in Kept : y[f] = x[f]
  BY <1>1 DEF Row, Kept
<1> QED BY <1>2, <1>4, <1>5

LEMMA FlushedRow ==
  ASSUME NEW x \in Row, NEW y \in Row, NEW z \in Row
  PROVE  /\ Flush(x, y, z) \in Row
         /\ x = y => Flush(x, y, z) = z
BY DEF Flush, Row

LEMMA FlushedUser ==
  ASSUME NEW x \in UserRow, NEW y \in UserRow, NEW z \in UserRow
  PROVE  /\ Flush(x, y, z) \in UserRow
         /\ x = y => Flush(x, y, z) = z
BY DEF Flush, UserRow

LEMMA BoundedIsReputation ==
  ASSUME NEW x \in Int
  PROVE  Bounded(x) \in Reputation
BY DEF Bounded, Reputation, ReputationMin, ReputationMax

LEMMA AdjustedIsReputation ==
  ASSUME NEW x \in Reputation, NEW approved \in BOOLEAN
  PROVE  AdjustReputation(x, approved) \in Reputation
BY BoundedIsReputation DEF AdjustReputation, Reputation, ReputationMin, ReputationMax

LEMMA BlendIsReputation ==
  ASSUME NEW x \in UserRow
  PROVE  BlendReputation(x) \in Reputation
<1> DEFINE share == (100 * x.tasks) \div 40
           confidence == IF share < 70 THEN share ELSE 70
           accuracy == (100 * x.correct) \div x.tasks
           known == (accuracy * 150) \div 100
           blend == (x.reputation * (100 - confidence) + known * confidence) \div 100
<1>1. x.reputation \in Reputation /\ x.tasks \in Nat /\ x.correct \in Nat
  BY DEF UserRow
<1>2. CASE x.tasks < MinControlTasks
  BY <1>1, <1>2 DEF BlendReputation
<1>3. CASE ~(x.tasks < MinControlTasks)
  <2>1. x.tasks \in Nat \ {0}
    BY <1>1, <1>3, ConsensusAssumption
  <2>2. share \in Int /\ accuracy \in Int
    BY <1>1, <2>1
  <2> HIDE DEF share, accuracy
  <2>3. confidence \in Int /\ known \in Int /\ x.reputation \in Int
    BY <1>1, <2>2 DEF Reputation, ReputationMin, ReputationMax
  <2> HIDE DEF confidence, known
  <2>4. x.reputation * (100 - confidence) \in Int /\ known * confidence \in Int
    BY <2>3
  <2>5. blend \in Int
    BY <2>4
  <2>6. BlendReputation(x) = Bounded(blend)
    BY <1>3 DEF BlendReputation, blend, known, confidence, share, accuracy
  <2> HIDE DEF blend
  <2> QED BY <2>5, <2>6, BoundedIsReputation
<1> QED BY <1>2, <1>3

LEMMA PrevailingTypes ==
  ASSUME NEW A \in SUBSET Annotation, NEW v \in PrevailingVerdicts(A)
  PROVE  v \in Verdicts \cup {NoVerdict}
BY DEF PrevailingVerdicts, Annotation

(* A row with agreed votes, and one repaired, decided on or cleaned. *)
LEMMA AgreedRow ==
  ASSUME NEW x \in Row, NEW A \in Anns, NEW v \in Verdicts \cup {NoVerdict}
  PROVE  LET y == [WithConsensus(x, A) EXCEPT !.type = v]
         IN /\ WithConsensus(x, A) \in Row /\ y \in Row
            /\ \A z \in {y, WithConsensus(x, A)} :
                 /\ z.index = IndexOf(z)
                 /\ z.votes = Votes(A)
                 /\ z.queued = (x.queued \/ Reached(A))
                 /\ z.status = IF Reached(A) /\ ~x.queued /\ x.status = "watch"
                               THEN "problem" ELSE x.status
                 /\ \A f \in {"s", "a", "since", "verified", "pool", "truth"} :
                      z[f] = x[f]
<1> DEFINE votes == Votes(A)
           c == FactorC(A)
           status == IF Reached(A) /\ ~x.queued /\ x.status = "watch"
                     THEN "problem" ELSE x.status
           queued == x.queued \/ Reached(A)
           w == [x EXCEPT !.votes = votes, !.c = c, !.queued = queued,
                          !.status = status]
           z == Recalculate(w)
           y == [z EXCEPT !.type = v]
<1>1. votes \in Nat /\ c \in Factor /\ status \in Statuses /\ queued \in BOOLEAN
  BY VotesAreNatural, FactorCIsFactor DEF Row, Statuses, Reached
<1>2. WithConsensus(x, A) = z
  BY DEF WithConsensus, Row, Reached
<1> HIDE DEF votes, c, status, queued
<1>3. /\ w \in Row /\ w.votes = votes /\ w.queued = queued /\ w.status = status
      /\ \A f \in {"s", "a", "since", "verified", "pool", "truth"} : w[f] = x[f]
  BY <1>1 DEF Row
<1> HIDE DEF w
<1>4. /\ z \in Row /\ z.index = IndexOf(z) /\ \A f \in Kept : z[f] = w[f]
  BY <1>3, RecalculatedRow
<1> HIDE DEF z
<1>5. /\ y \in Row /\ IndexOf(y) = IndexOf(z) /\ y.index = z.index
      /\ \A f \in Kept \ {"type"} : y[f] = z[f]
  BY <1>4 DEF Row, IndexOf, Kept
<1> HIDE DEF y
<1> QED BY <1>2, <1>3, <1>4, <1>5 DEF votes, queued, status, Kept, y

LEMMA RepairedRow ==
  ASSUME NEW x \in Row, NEW A \in Anns
  PROVE  LET z == Repaired(x, A)
         IN /\ z \in Row
            /\ x.index = IndexOf(x) => z.index = IndexOf(z)
            /\ z.votes = Votes(A)
            /\ \/ z.queued = x.queued /\ z.status = x.status
               \/ A = {} /\ ~z.queued /\ z.status = "watch"
            /\ \A f \in {"s", "a", "since", "verified", "pool", "truth"} :
                 z[f] = x[f]
<1> DEFINE votes == Votes(A)
           c == FactorC(A)
           w == [x EXCEPT !.votes = votes, !.c = c]
           fixed == Recalculate(w)
           out == [fixed EXCEPT !.queued = FALSE, !.status = "watch"]
           Same(z) == \A f \in {"s", "a", "since", "verified", "pool", "truth"} :
                        z[f] = x[f]
<1>1. votes \in Nat /\ c \in Factor
  BY VotesAreNatural, FactorCIsFactor
<1>2. Repaired(x, A) = IF x.votes = votes /\ x.c = c THEN x
                       ELSE IF A = {} THEN out ELSE fixed
  BY DEF Repaired
<1> HIDE DEF votes, c
<1>3. /\ w \in Row /\ w.votes = votes /\ Same(w)
      /\ w.queued = x.queued /\ w.status = x.status
  BY <1>1 DEF Row
<1> HIDE DEF w
<1>4. /\ fixed \in Row /\ fixed.index = IndexOf(fixed) /\ fixed.votes = votes
      /\ Same(fixed) /\ fixed.queued = x.queued /\ fixed.status = x.status
  BY <1>3, RecalculatedRow DEF Kept
<1> HIDE DEF fixed
<1>5. /\ out \in Row /\ out.index = IndexOf(out) /\ out.votes = votes
      /\ Same(out) /\ ~out.queued /\ out.status = "watch"
  BY <1>4 DEF Row, IndexOf, Statuses
<1> HIDE DEF out
<1> QED BY <1>2, <1>4, <1>5 DEF votes

LEMMA DecidedRow ==
  ASSUME NEW x \in Row, NEW approved \in BOOLEAN
  PROVE  LET z == Recalculate(Decision(x, approved))
         IN /\ z \in Row
            /\ z.index = IndexOf(z)
            /\ z.verified = approved
            /\ z.status = IF approved THEN "work" ELSE "watch"
            /\ z.queued = (approved /\ x.queued)
            /\ z.votes = IF approved THEN x.votes ELSE 0
            /\ \A f \in {"s", "a", "since", "pool", "truth"} : z[f] = x[f]
<1> DEFINE yes == [x EXCEPT !.verified = TRUE, !.status = "work"]
           c == Clamp01(x.c - 25)
           no == [x EXCEPT !.verified = FALSE, !.queued = FALSE, !.votes = 0,
                           !.status = "watch", !.c = c]
<1>1. c \in Factor /\ x.queued \in BOOLEAN
  BY ClampIsFactor DEF Row, Factor
<1>2. Decision(x, approved) = IF approved THEN yes ELSE no
  BY DEF Decision, Row
<1> HIDE DEF c
<1>3. /\ yes \in Row /\ yes.verified = TRUE /\ yes.status = "work"
      /\ yes.queued = x.queued /\ yes.votes = x.votes
      /\ \A f \in {"s", "a", "since", "pool", "truth"} : yes[f] = x[f]
  BY DEF Row, Statuses
<1>4. /\ no \in Row /\ no.verified = FALSE /\ no.status = "watch"
      /\ no.queued = FALSE /\ no.votes = 0
      /\ \A f \in {"s", "a", "since", "pool", "truth"} : no[f] = x[f]
  BY <1>1 DEF Row, Statuses
<1> HIDE DEF yes, no
<1>5. CASE approved
  <2>1. Decision(x, approved) = yes
    BY <1>2, <1>5
  <2> DEFINE z == Recalculate(yes)
  <2>2. /\ z \in Row /\ z.index = IndexOf(z)
        /\ z.verified = yes.verified /\ z.status = yes.status
        /\ z.queued = yes.queued /\ z.votes = yes.votes
        /\ \A f \in {"s", "a", "since", "pool", "truth"} : z[f] = yes[f]
    BY <1>3, RecalculatedRow DEF Kept
  <2> HIDE DEF z
  <2>3. approved = TRUE /\ z.queued = (approved /\ x.queued)
    BY <1>1, <1>3, <1>5, <2>2
  <2> QED BY <1>3, <1>5, <2>1, <2>2, <2>3 DEF z
<1>6. CASE ~approved
  <2>1. Decision(x, approved) = no
    BY <1>2, <1>6
  <2> DEFINE z == Recalculate(no)
  <2>2. /\ z \in Row /\ z.index = IndexOf(z)
        /\ z.verified = no.verified /\ z.status = no.status
        /\ z.queued = no.queued /\ z.votes = no.votes
        /\ \A f \in {"s", "a", "since", "pool", "truth"} : z[f] = no[f]
    BY <1>4, RecalculatedRow DEF Kept
  <2> HIDE DEF z
  <2> QED BY <1>4, <1>6, <2>1, <2>2 DEF z
<1> QED BY <1>5, <1>6

LEMMA PooledRow ==
  ASSUME NEW x \in Row, NEW truth \in Verdicts \cup {NoVerdict}
  PROVE  LET z == [x EXCEPT !.pool = TRUE, !.truth = truth]
         IN /\ z \in Row /\ z.pool /\ z.truth = truth
            /\ \A f \in {"queued", "votes"} : z[f] = x[f]
BY DEF Row

(* The columns that neither a scene nor a cleanup touches. *)
Judged == {"votes", "queued", "verified", "pool", "truth"}

LEMMA SignalledRow ==
  ASSUME NEW x \in Row, NEW n \in Int
  PROVE  LET z == Recalculate([x EXCEPT !.s = Clamp01(n)])
         IN /\ z \in Row /\ z.index = IndexOf(z) /\ z.status = x.status
            /\ \A f \in Judged : z[f] = x[f]
<1> DEFINE s == Clamp01(n)
           y == [x EXCEPT !.s = s]
<1>1. s \in Factor
  BY ClampIsFactor
<1> HIDE DEF s
<1>2. y \in Row /\ y.status = x.status /\ \A f \in Judged : y[f] = x[f]
  BY <1>1 DEF Row, Judged
<1> HIDE DEF y
<1>3. Recalculate(y) \in Row /\ Recalculate(y).index = IndexOf(Recalculate(y))
      /\ \A f \in Judged \cup {"status"} : Recalculate(y)[f] = y[f]
  BY <1>2, RecalculatedRow DEF Kept, Judged
<1> QED BY <1>2, <1>3 DEF y, s

LEMMA CleanedRow ==
  ASSUME NEW x \in Row
  PROVE  LET z == ApplyCleanup([x EXCEPT !.status = "clean"])
         IN /\ z \in Row /\ z.index = IndexOf(z) /\ z.status = "clean"
            /\ \A f \in Judged : z[f] = x[f]
<1> DEFINE c == Clamp01(x.c - 35)
           s == Clamp01(x.s - 30)
           y == [x EXCEPT !.status = "clean", !.since = 0, !.c = c, !.s = s]
<1>1. c \in Factor /\ s \in Factor
  BY ClampIsFactor DEF Row, Factor
<1>2. ApplyCleanup([x EXCEPT !.status = "clean"]) = Recalculate(y)
  BY DEF ApplyCleanup, Row
<1> HIDE DEF c, s
<1>3. y \in Row /\ y.status = "clean" /\ \A f \in Judged : y[f] = x[f]
  BY <1>1 DEF Row, Judged, Statuses
<1> HIDE DEF y
<1>4. /\ Recalculate(y) \in Row
      /\ Recalculate(y).index = IndexOf(Recalculate(y))
      /\ \A f \in Judged \cup {"status"} : Recalculate(y)[f] = y[f]
  BY <1>3, RecalculatedRow DEF Kept, Judged
<1> QED BY <1>2, <1>3, <1>4

-----------------------------------------------------------------------------
(* Types, with any number of requests in flight. *)

AnnotateTxn == [op: {"annotate"}, row: Row, author: UserRow, mine: Annotation]
InsertedTxn == [op: {"inserted"}, row: Row, author: UserRow, mine: Annotation,
                read: Anns, count: Nat]
QueueTxn == [op: {"queue"}, rows: [SegmentIds -> Row], anns: Anns]
DecisionTxn == [op: {"decide", "batch"}, ids: SUBSET SegmentIds,
                approved: BOOLEAN, rows: [SegmentIds -> Row], anns: Anns,
                users: [Users -> UserRow]]
SegmentTxn == [op: {"ingest", "cleanup"}, id: SegmentIds, row: Row]

(* What a slot holds follows from the operation it is in.  Of operations   *)
(* of other modules nothing is said here.                                  *)
SlotType(t) ==
  /\ t.op = "annotate" => t \in AnnotateTxn
  /\ t.op = "inserted" => t \in InsertedTxn
  /\ t.op = "queue" => t \in QueueTxn
  /\ t.op \in {"decide", "batch"} => t \in DecisionTxn
  /\ t.op \in {"ingest", "cleanup"} => t \in SegmentTxn

TInv == TypeOK /\ annotations \in Anns /\ \A r \in Requests : SlotType(txn[r])

LEMMA InitTypes == Init => TInv
<1> SUFFICES ASSUME Init PROVE TInv
  OBVIOUS
<1>1. ASSUME NEW s \in SegmentIds
      PROVE  segment[s] \in Row /\ segment[s].index = IndexOf(segment[s])
  <2> DEFINE first == [s |-> FirstSignal, c |-> 0, t |-> 0, a |-> Access[s],
               index |-> 0, since |-> 0, votes |-> 0, queued |-> FALSE,
               verified |-> FALSE, status |-> "watch", pool |-> FALSE,
               truth |-> NoVerdict, type |-> NoVerdict]
  <2>1. first \in Row
    BY SegmentsAssumption DEF Row, Factor, Statuses
  <2>2. segment[s] = Recalculate(first)
    BY DEF Init, NewSegment
  <2> QED BY <2>1, <2>2, RecalculatedRow
<1>2. segment \in [SegmentIds -> Row]
  BY <1>1 DEF Init
<1>3. NewUser \in UserRow
  BY DEF NewUser, UserRow, Reputation, ReputationMin, ReputationMax
<1>4. annotations \in Anns
  BY FS_EmptySet DEF Init, Anns
<1>5. \A r \in Requests : SlotType(txn[r])
  BY DEF Init, Idle, SlotType
<1> QED BY <1>2, <1>3, <1>4, <1>5 DEF Init, TInv, TypeOK

LEMMA BeginTypes ==
  ASSUME TInv, NEW r \in Requests, NEW t, Begin(r, t), SlotType(t)
  PROVE  TInv'
BY DEF TInv, TypeOK, Begin

LEMMA FinishTypes ==
  ASSUME TInv, NEW r \in Requests, Finish(r)
  PROVE  /\ DOMAIN txn' = Requests
         /\ \A q \in Requests : SlotType(txn'[q])
BY DEF TInv, TypeOK, Finish, SlotType, Idle

LEMMA OneMoreAnnotation ==
  ASSUME NEW A \in Anns, NEW n \in Annotation
  PROVE  /\ A \cup {n} \in Anns
         /\ \A P \in SUBSET A : /\ P \in Anns
                                /\ n \notin P => Cardinality(P \cup {n})
                                                  = Cardinality(P) + 1
<1>1. IsFiniteSet(A \cup {n})
  BY FS_AddElement DEF Anns
<1>2. ASSUME NEW P \in SUBSET A
      PROVE  P \in Anns /\ (n \notin P => Cardinality(P \cup {n}) = Cardinality(P) + 1)
  <2>1. IsFiniteSet(P)
    BY FS_Subset DEF Anns
  <2> QED BY <2>1, FS_AddElement DEF Anns
<1> QED BY <1>1, <1>2 DEF Anns

LEMMA OfSegment ==
  ASSUME TInv, NEW s
  PROVE  On(s) \in Anns /\ Counted(s) \in Anns /\ Counted(s) \subseteq On(s)
BY VotesAreNatural DEF TInv, On, Counted

LEMMA RatedTypes ==
  ASSUME TInv, NEW t \in DecisionTxn
  PROVE  Rated(t) \in [Users -> UserRow]
<1> SUFFICES ASSUME NEW u \in Users PROVE Rated(t)[u] \in UserRow
  BY DEF Rated
<1> DEFINE rep == AdjustReputation(t.users[u].reputation, t.approved)
           new == [t.users[u] EXCEPT !.reputation = rep]
<1>1. t.users[u] \in UserRow /\ user[u] \in UserRow
  BY DEF DecisionTxn, TInv, TypeOK
<1>2. rep \in Reputation
  BY <1>1, AdjustedIsReputation DEF UserRow, DecisionTxn
<1>3. new \in UserRow
  BY <1>1, <1>2 DEF UserRow
<1>4. Rated(t)[u] \in {Flush(user[u], t.users[u], new), user[u]}
  BY DEF Rated
<1> HIDE DEF new
<1> QED BY <1>1, <1>3, <1>4, FlushedUser

LEMMA MeasuredUser ==
  ASSUME NEW t, t.author \in UserRow, t.count \in Nat
  PROVE  /\ Measured(t) \in UserRow
         /\ Measured(t).reputation = t.author.reputation
         /\ Measured(t).count = t.count
<1> DEFINE a == t.author
           tasks == a.tasks + 1
           correct == a.correct + Hit(t)
           new == [a EXCEPT !.tasks = tasks, !.correct = correct, !.count = t.count]
<1>1. a.tasks \in Nat /\ a.correct \in Nat /\ Hit(t) \in {0, 1}
  BY DEF UserRow, Hit
<1>2. tasks \in Nat /\ correct \in Nat
  BY <1>1
<1>3. Measured(t) = new
  BY DEF Measured
<1> HIDE DEF tasks, correct
<1>4. new \in UserRow /\ new.reputation = a.reputation /\ new.count = t.count
  BY <1>2 DEF UserRow
<1> QED BY <1>3, <1>4

LEMMA RecordedTypes ==
  ASSUME TInv, NEW t \in DecisionTxn
  PROVE  Recorded(t) \in [SegmentIds -> Seq(AuditActions)]
BY DEF Recorded, TInv, TypeOK, AuditActions

(* Every commit writes rows. *)
LEMMA CommitRows ==
  ASSUME TInv, NEW r \in Requests,
         \/ AnnotateCommit(r) \/ QueueCommit(r) \/ DecideCommit(r)
         \/ BatchCommit(r) \/ IngestCommit(r) \/ CleanupCommit(r)
  PROVE  segment' \in [SegmentIds -> Row]
<1>0. segment \in [SegmentIds -> Row] /\ SlotType(txn[r])
  BY DEF TInv, TypeOK
<1> DEFINE t == txn[r]
<1>1. ASSUME AnnotateCommit(r) PROVE segment' \in [SegmentIds -> Row]
  <2>1. t \in InsertedTxn
    BY <1>0, <1>1 DEF SlotType, AnnotateCommit
  <2>2. t.row \in Row /\ t.read \in Anns /\ t.mine.segment \in SegmentIds
    BY <2>1 DEF InsertedTxn, Annotation
  <2>3. PICK type \in PrevailingVerdicts(t.read) :
          segment' = [segment EXCEPT ![t.mine.segment] =
            Flush(@, t.row, [WithConsensus(t.row, t.read) EXCEPT !.type = type])]
    BY <1>1 DEF AnnotateCommit
  <2> DEFINE new == [WithConsensus(t.row, t.read) EXCEPT !.type = type]
  <2>4. new \in Row
    BY <2>2, <2>3, PrevailingTypes, AgreedRow DEF Anns
  <2>5. segment' = [segment EXCEPT ![t.mine.segment] = Flush(@, t.row, new)]
    BY <2>3
  <2> HIDE DEF new
  <2>6. Flush(segment[t.mine.segment], t.row, new) \in Row
    BY <1>0, <2>2, <2>4, FlushedRow
  <2> QED BY <1>0, <2>5, <2>6
<1>2. ASSUME QueueCommit(r) PROVE segment' \in [SegmentIds -> Row]
  <2>1. t \in QueueTxn
    BY <1>0, <1>2 DEF SlotType, QueueCommit
  <2>2. ASSUME NEW s \in SegmentIds PROVE segment'[s] \in Row
    <3> DEFINE anns == {n \in t.anns : n.segment = s}
               new == Repaired(t.rows[s], anns)
    <3>1. t.rows[s] \in Row /\ anns \in Anns
      BY <2>1, VotesAreNatural DEF QueueTxn
    <3>2. new \in Row
      BY <3>1, RepairedRow
    <3>3. segment'[s] \in {Flush(segment[s], t.rows[s], new), segment[s]}
      BY <1>2 DEF QueueCommit
    <3> HIDE DEF new
    <3> QED BY <1>0, <3>1, <3>2, <3>3, FlushedRow
  <2> QED BY <1>2, <2>2 DEF QueueCommit
<1>3. ASSUME DecideCommit(r) PROVE segment' \in [SegmentIds -> Row]
  <2>1. t \in DecisionTxn
    BY <1>0, <1>3 DEF SlotType, DecideCommit
  <2> DEFINE Written(s, v) ==
        Recalculate(Decision([t.rows[s] EXCEPT !.pool = TRUE,
                    !.truth = TruthFromDecision(t.approved, v)], t.approved))
  <2>a. PICK s \in t.ids : \E v \in PrevailingVerdicts({n \in t.anns : n.segment = s}) :
          segment' = [segment EXCEPT ![s] = Flush(@, t.rows[s], Written(s, v))]
    BY <1>3 DEF DecideCommit
  <2>2. PICK v \in PrevailingVerdicts({n \in t.anns : n.segment = s}) :
          segment' = [segment EXCEPT ![s] = Flush(@, t.rows[s], Written(s, v))]
    BY <2>a
  <2> DEFINE truth == TruthFromDecision(t.approved, v)
             pooled == [t.rows[s] EXCEPT !.pool = TRUE, !.truth = truth]
             new == Recalculate(Decision(pooled, t.approved))
  <2>3. s \in SegmentIds /\ t.rows[s] \in Row /\ t.approved \in BOOLEAN
    BY <2>1 DEF DecisionTxn
  <2>4. v \in Verdicts \cup {NoVerdict}
    <3>1. {n \in t.anns : n.segment = s} \in SUBSET Annotation
      BY <2>1 DEF DecisionTxn, Anns
    <3> QED BY <2>2, <3>1, PrevailingTypes
  <2>5. truth \in Verdicts \cup {NoVerdict}
    BY <2>4 DEF TruthFromDecision, Verdicts
  <2>6. segment' = [segment EXCEPT ![s] = Flush(@, t.rows[s], new)]
    BY <2>2
  <2> HIDE DEF truth
  <2>7. pooled \in Row
    BY <2>3, <2>5, PooledRow
  <2> HIDE DEF pooled
  <2>8. new \in Row
    BY <2>3, <2>7, DecidedRow
  <2> HIDE DEF new
  <2> QED BY <1>0, <2>3, <2>6, <2>8, FlushedRow
<1>4. ASSUME BatchCommit(r) PROVE segment' \in [SegmentIds -> Row]
  <2>1. t \in DecisionTxn
    BY <1>0, <1>4 DEF SlotType, BatchCommit
  <2>2. ASSUME NEW s \in SegmentIds PROVE segment'[s] \in Row
    <3> DEFINE new == Recalculate(Decision(t.rows[s], t.approved))
    <3>1. t.rows[s] \in Row /\ new \in Row
      BY <2>1, DecidedRow DEF DecisionTxn
    <3>2. segment'[s] \in {Flush(segment[s], t.rows[s], new), segment[s]}
      BY <1>4 DEF BatchCommit
    <3> HIDE DEF new
    <3> QED BY <1>0, <3>1, <3>2, FlushedRow
  <2> QED BY <1>4, <2>2 DEF BatchCommit
<1>5. ASSUME IngestCommit(r) PROVE segment' \in [SegmentIds -> Row]
  <2>1. t \in SegmentTxn
    BY <1>0, <1>5 DEF SlotType, IngestCommit
  <2>2. PICK signal \in Signals \cup {t.row.s}, boost \in Boosts :
          segment' = [segment EXCEPT ![t.id] = Flush(@, t.row,
            Recalculate([t.row EXCEPT !.s = Clamp01(signal + boost)]))]
    BY <1>5 DEF IngestCommit
  <2> DEFINE new == Recalculate([t.row EXCEPT !.s = Clamp01(signal + boost)])
  <2>3. t.row \in Row /\ t.id \in SegmentIds /\ signal + boost \in Int
    <3>1. t.row \in Row /\ t.id \in SegmentIds
      BY <2>1 DEF SegmentTxn
    <3>2. t.row.s \in Factor
      BY <3>1 DEF Row
    <3>3. signal \in Factor /\ boost \in 0 .. 20
      BY <3>2, SegmentsAssumption
    <3> QED BY <3>1, <3>3 DEF Factor
  <2>4. new \in Row
    BY <2>3, SignalledRow
  <2>5. segment' = [segment EXCEPT ![t.id] = Flush(@, t.row, new)]
    BY <2>2
  <2> HIDE DEF new
  <2> QED BY <1>0, <2>3, <2>4, <2>5, FlushedRow
<1>6. ASSUME CleanupCommit(r) PROVE segment' \in [SegmentIds -> Row]
  <2>1. t \in SegmentTxn
    BY <1>0, <1>6 DEF SlotType, CleanupCommit
  <2> DEFINE new == ApplyCleanup([t.row EXCEPT !.status = "clean"])
  <2>2. t.row \in Row /\ t.id \in SegmentIds /\ new \in Row
    BY <2>1, CleanedRow DEF SegmentTxn
  <2>3. segment' \in {segment, [segment EXCEPT ![t.id] = Flush(@, t.row, new)]}
    BY <1>6 DEF CleanupCommit
  <2> HIDE DEF new
  <2> QED BY <1>0, <2>2, <2>3, FlushedRow
<1> QED BY <1>1, <1>2, <1>3, <1>4, <1>5, <1>6

LEMMA StepTypes ==
  ASSUME TInv, [Next]_vars
  PROVE  TInv'
<1>0. /\ segment \in [SegmentIds -> Row] /\ user \in [Users -> UserRow]
      /\ annotations \in Anns /\ \A r \in Requests : SlotType(txn[r])
  BY DEF TInv, TypeOK
<1>1. CASE UNCHANGED vars
  BY <1>1 DEF vars, TInv, TypeOK, SlotType
<1>2. CASE TimePasses
  <2>1. ASSUME NEW s \in SegmentIds PROVE segment'[s] \in Row
    <3> DEFINE since == IF segment[s].since + Period < SaturationDays
                        THEN segment[s].since + Period ELSE SaturationDays
    <3>1. since \in Nat
      BY <1>0, SegmentsAssumption DEF Row, SaturationDays
    <3>2. segment'[s] = [segment[s] EXCEPT !.since = since]
      BY <1>2, <1>0 DEF TimePasses, Row
    <3> HIDE DEF since
    <3> QED BY <1>0, <3>1, <3>2 DEF Row
  <2>2. segment' \in [SegmentIds -> Row]
    BY <1>2, <2>1 DEF TimePasses
  <2> QED BY <1>2, <2>2 DEF TimePasses, TInv, TypeOK, SlotType
<1>3. ASSUME NEW u \in Users, AccountRemoved(u) PROVE TInv'
  <2>1. NewUser \in UserRow
    BY DEF NewUser, UserRow, Reputation, ReputationMin, ReputationMax
  <2>2. annotations' \in Anns
    BY <1>0, <1>3, VotesAreNatural DEF AccountRemoved
  <2> QED BY <1>0, <1>3, <2>1, <2>2 DEF AccountRemoved, TInv, TypeOK, SlotType, Anns
<1>4. ASSUME NEW s \in SegmentIds, CreateEvent(s) PROVE TInv'
  BY <1>4 DEF CreateEvent, TInv, TypeOK, SlotType
<1>5. ASSUME NEW r \in Requests, NEW u \in Users, NEW s \in SegmentIds,
             NEW v \in Verdicts, AnnotateBegin(r, u, s, v)
      PROVE  TInv'
  <2> DEFINE control == segment[s].pool /\ segment[s].truth # NoVerdict
             w == BlendReputation(user[u])
             mine == [user |-> u, segment |-> s, verdict |-> v,
                      weight |-> w, control |-> control]
             t == [op |-> "annotate", row |-> segment[s], author |-> user[u],
                   mine |-> mine]
  <2>1. w \in Reputation /\ control \in BOOLEAN
    BY <1>0, BlendIsReputation DEF Row
  <2>2. Begin(r, t)
    BY <1>5 DEF AnnotateBegin
  <2> HIDE DEF w, control
  <2>3. mine \in Annotation
    BY <2>1 DEF Annotation
  <2> HIDE DEF mine
  <2>4. SlotType(t)
    BY <1>0, <2>3 DEF SlotType, AnnotateTxn
  <2> HIDE DEF t
  <2> QED BY <2>2, <2>4, BeginTypes
<1>6. ASSUME NEW r \in Requests, QueueBegin(r) PROVE TInv'
  <2> DEFINE t == [op |-> "queue", rows |-> segment, anns |-> annotations]
  <2>1. SlotType(t)
    BY <1>0 DEF SlotType, QueueTxn
  <2>2. Begin(r, t)
    BY <1>6 DEF QueueBegin
  <2> HIDE DEF t
  <2> QED BY <2>1, <2>2, BeginTypes
<1>7. ASSUME NEW op \in {"decide", "batch"}, NEW ids \in SUBSET SegmentIds,
             NEW approved \in BOOLEAN
      PROVE  SlotType(Load(op, ids, approved))
  BY <1>0 DEF SlotType, DecisionTxn, Load
<1>8. ASSUME NEW r \in Requests, NEW s \in SegmentIds, NEW a \in BOOLEAN,
             DecideBegin(r, s, a)
      PROVE  TInv'
  BY <1>7, <1>8, BeginTypes DEF DecideBegin
<1>9. ASSUME NEW r \in Requests, NEW ids \in SUBSET SegmentIds,
             NEW a \in BOOLEAN, BatchBegin(r, ids, a)
      PROVE  TInv'
  <2> DEFINE applied == {s \in ids : segment[s].queued}
  <2>1. applied \in SUBSET SegmentIds /\ Begin(r, Load("batch", applied, a))
    BY <1>9 DEF BatchBegin
  <2> HIDE DEF applied
  <2> QED BY <1>7, <2>1, BeginTypes
<1>10. ASSUME NEW r \in Requests, NEW s \in SegmentIds,
              IngestBegin(r, s) \/ CleanupBegin(r, s)
       PROVE  TInv'
  <2>1. ASSUME NEW op \in {"ingest", "cleanup"}
        PROVE  SlotType([op |-> op, id |-> s, row |-> segment[s]])
    BY <1>0 DEF SlotType, SegmentTxn
  <2> QED BY <1>10, <2>1, BeginTypes DEF IngestBegin, CleanupBegin
<1>11. ASSUME NEW r \in Requests, AnnotateInsert(r) PROVE TInv'
  <2> DEFINE t == txn[r]
             n == t.mine
             read == Counted(n.segment) \cup {n}
             count == Cardinality(Of(n.user)) + 1
             new == [op |-> "inserted", row |-> t.row, author |-> t.author,
                     mine |-> n, read |-> read, count |-> count]
  <2>1. t \in AnnotateTxn
    BY <1>0, <1>11 DEF SlotType, AnnotateInsert
  <2>2. n \in Annotation /\ t.row \in Row /\ t.author \in UserRow
    BY <2>1 DEF AnnotateTxn
  <2>3. read \in Anns /\ count \in Nat
    <3>1. Of(n.user) \in Anns
      BY <1>0, VotesAreNatural DEF Of
    <3> QED BY <2>2, <3>1, OfSegment, OneMoreAnnotation, VotesAreNatural
  <2>4. txn' = [txn EXCEPT ![r] = new]
    BY <1>11 DEF AnnotateInsert
  <2> HIDE DEF read, count
  <2>5. SlotType(new)
    BY <2>2, <2>3 DEF SlotType, InsertedTxn
  <2> HIDE DEF new
  <2> QED BY <1>11, <2>4, <2>5 DEF AnnotateInsert, TInv, TypeOK
<1>12. ASSUME NEW r \in Requests, AnnotateCommit(r) PROVE TInv'
  <2> DEFINE t == txn[r]
             author == [t.author EXCEPT !.count = t.count]
  <2>1. t \in InsertedTxn
    BY <1>0, <1>12 DEF SlotType, AnnotateCommit
  <2>2. t.mine \in Annotation /\ t.author \in UserRow /\ t.count \in Nat
    BY <2>1 DEF InsertedTxn
  <2>3. author \in UserRow /\ t.mine.user \in Users
    BY <2>2 DEF UserRow, Annotation
  <2>4. user' = [user EXCEPT ![t.mine.user] = Flush(@, t.author, author)]
    BY <1>12 DEF AnnotateCommit
  <2> HIDE DEF author
  <2>5. user' \in [Users -> UserRow]
    BY <1>0, <2>2, <2>3, <2>4, FlushedUser
  <2>6. annotations' \in Anns
    BY <1>0, <1>12, <2>2, OneMoreAnnotation DEF AnnotateCommit
  <2>7. segment' \in [SegmentIds -> Row]
    BY <1>12, CommitRows
  <2> QED BY <1>12, <2>5, <2>6, <2>7, FinishTypes
          DEF AnnotateCommit, TInv, TypeOK, Anns
<1>13. ASSUME NEW r \in Requests, ControlCommit(r) PROVE TInv'
  <2> DEFINE t == txn[r]
  <2>1. t \in InsertedTxn
    BY <1>0, <1>13 DEF SlotType, ControlCommit
  <2>2. t.mine \in Annotation /\ t.author \in UserRow /\ t.count \in Nat
    BY <2>1 DEF InsertedTxn
  <2>3. Measured(t) \in UserRow /\ t.mine.user \in Users
    BY <2>2, MeasuredUser DEF Annotation
  <2>4. user' = [user EXCEPT ![t.mine.user] = Flush(@, t.author, Measured(t))]
    BY <1>13 DEF ControlCommit
  <2>5. user' \in [Users -> UserRow]
    BY <1>0, <2>2, <2>3, <2>4, FlushedUser
  <2>6. annotations' \in Anns
    BY <1>0, <1>13, <2>2, OneMoreAnnotation DEF ControlCommit
  <2> QED BY <1>13, <2>5, <2>6, FinishTypes
          DEF ControlCommit, TInv, TypeOK, Anns
<1>14. ASSUME NEW r \in Requests, DecideCommit(r) \/ BatchCommit(r) PROVE TInv'
  <2>1. txn[r] \in DecisionTxn
    BY <1>0, <1>14 DEF SlotType, DecideCommit, BatchCommit
  <2>2. user' \in [Users -> UserRow] /\ audit' \in [SegmentIds -> Seq(AuditActions)]
    BY <1>14, <2>1, RatedTypes, RecordedTypes DEF DecideCommit, BatchCommit
  <2>3. segment' \in [SegmentIds -> Row]
    BY <1>14, CommitRows
  <2> QED BY <1>14, <2>2, <2>3, FinishTypes
          DEF DecideCommit, BatchCommit, TInv, TypeOK, Anns
<1>15. ASSUME NEW r \in Requests,
              QueueCommit(r) \/ IngestCommit(r) \/ CleanupCommit(r)
       PROVE  TInv'
  <2>1. segment' \in [SegmentIds -> Row]
    BY <1>15, CommitRows
  <2> QED BY <1>15, <2>1, FinishTypes
          DEF QueueCommit, IngestCommit, CleanupCommit, TInv, TypeOK, Anns
<1>16. ASSUME NEW r \in Requests, Abort(r) PROVE TInv'
  BY <1>16, FinishTypes DEF Abort, TInv, TypeOK, Anns
<1> QED BY <1>1, <1>2, <1>3, <1>4, <1>5, <1>6, <1>8, <1>9, <1>10, <1>11, <1>12,
        <1>13, <1>14, <1>15, <1>16 DEF Next, Environment, Start, Continue

(* Requests of other modules are neither started nor moved on here. *)
SegmentOps == {"idle", "annotate", "inserted", "queue", "decide", "batch",
               "ingest", "cleanup"}

LEMMA ForeignSlots ==
  ASSUME TInv, [Next]_vars, NEW r \in Requests, txn'[r].op \notin SegmentOps
  PROVE  txn'[r] = txn[r]
<1> DEFINE op == txn'[r].op
<1>0. DOMAIN txn = Requests
  BY DEF TInv, TypeOK
<1>a. /\ op # "idle" /\ op # "annotate" /\ op # "inserted" /\ op # "queue"
      /\ op # "decide" /\ op # "batch" /\ op # "ingest" /\ op # "cleanup"
  BY DEF SegmentOps
<1>1. ASSUME NEW q \in Requests, NEW t, t.op # op,
             txn' = [txn EXCEPT ![q] = t]
      PROVE  txn'[r] = txn[r]
  BY <1>0, <1>1
<1>2. ASSUME NEW q \in Requests, Finish(q) PROVE txn'[r] = txn[r]
  <2>1. Idle.op # op
    BY <1>a DEF Idle
  <2> QED BY <1>1, <1>2, <2>1 DEF Finish
<1>3. ASSUME NEW q \in Requests, NEW t, t.op # op, Begin(q, t)
      PROVE  txn'[r] = txn[r]
  BY <1>1, <1>3 DEF Begin
<1>4. ASSUME NEW q \in Requests, Start(q) PROVE txn'[r] = txn[r]
  BY <1>a, <1>3, <1>4 DEF Start, AnnotateBegin, QueueBegin, DecideBegin, BatchBegin,
     IngestBegin, CleanupBegin, Load
<1>5. ASSUME NEW q \in Requests, Continue(q) PROVE txn'[r] = txn[r]
  BY <1>a, <1>1, <1>2, <1>5 DEF Continue, AnnotateInsert, AnnotateCommit, ControlCommit,
     QueueCommit, DecideCommit, BatchCommit, IngestCommit, CleanupCommit, Abort
<1> QED BY <1>4, <1>5 DEF Next, Environment, TimePasses, AccountRemoved,
        CreateEvent, vars

(* Every row, user, annotation and log entry is of its type, whatever      *)
(* overlaps: no weight, vote, factor or reputation leaves its range.       *)
THEOREM SegmentsTypeCorrect == Spec => []TypeOK
<1>1. TInv /\ [Next]_vars => TInv'
  BY StepTypes
<1>2. TInv => TypeOK
  BY DEF TInv
<1> QED BY <1>1, <1>2, InitTypes, PTL DEF Spec

-----------------------------------------------------------------------------
(* One request at a time.  What a request loaded is then still what is     *)
(* stored when it commits.                                                 *)

OneAtATime == \E r : Requests = {r}

FreshSlot(t) ==
  /\ t.op \in {"annotate", "inserted"} =>
       /\ t.row = segment[t.mine.segment]
       /\ t.author = user[t.mine.user]
       /\ t.mine.control = (t.row.pool /\ t.row.truth # NoVerdict)
       /\ t.row.verified => t.mine.control
  /\ t.op = "inserted" =>
       /\ t.read = Counted(t.mine.segment) \cup {t.mine}
       /\ t.count = Cardinality(Of(t.mine.user)) + 1
       /\ t.mine \notin annotations
  /\ t.op = "queue" => t.rows = segment /\ t.anns = annotations
  /\ t.op \in {"decide", "batch"} =>
       t.rows = segment /\ t.anns = annotations /\ t.users = user
  /\ t.op = "decide" => \E s \in SegmentIds : t.ids = {s}
  /\ t.op \in {"ingest", "cleanup"} => t.row = segment[t.id]
  /\ t.op = "cleanup" => t.id \in trips

Fresh == \A r \in Requests : FreshSlot(txn[r])

tables == <<segment, annotations, user, deleted, trips, audit>>

LEMMA FreshStep ==
  ASSUME OneAtATime, TInv, Fresh, [Next]_vars
  PROVE  Fresh'
<1> PICK r : Requests = {r}
  BY DEF OneAtATime
<1>0. DOMAIN txn = Requests /\ SlotType(txn[r])
  BY DEF TInv, TypeOK
<1>1. CASE UNCHANGED vars
  BY <1>1 DEF vars, Fresh, FreshSlot, Counted, On, Of
<1>2. ASSUME Finish(r) PROVE Fresh'
  <2>1. txn'[r] = Idle
    BY <1>0, <1>2 DEF Finish
  <2> QED BY <2>1 DEF Fresh, FreshSlot, Idle
<1>3. CASE \/ TimePasses \/ \E u \in Users : AccountRemoved(u)
  <2>1. txn'[r] = Idle
    BY <1>3 DEF TimePasses, AccountRemoved
  <2> QED BY <2>1 DEF Fresh, FreshSlot, Idle
<1>4. ASSUME NEW s \in SegmentIds, CreateEvent(s) PROVE Fresh'
  BY <1>4 DEF CreateEvent, Fresh, FreshSlot, Counted, On, Of
<1>5. ASSUME NEW t, Begin(r, t), FreshSlot(t) PROVE Fresh'
  <2>1. txn'[r] = t
    BY <1>0, <1>5 DEF Begin
  <2>2. FreshSlot(t)'
    BY <1>5 DEF Begin, FreshSlot, Counted, On, Of
  <2>3. \A q \in Requests : txn'[q] = t
    BY <2>1
  <2> QED BY <2>2, <2>3 DEF Fresh, FreshSlot
<1>6. ASSUME NEW u \in Users, NEW s \in SegmentIds, NEW v \in Verdicts,
             AnnotateBegin(r, u, s, v)
      PROVE  Fresh'
  <2> DEFINE control == segment[s].pool /\ segment[s].truth # NoVerdict
             t == [op |-> "annotate", row |-> segment[s], author |-> user[u],
                   mine |-> [user |-> u, segment |-> s, verdict |-> v,
                             weight |-> BlendReputation(user[u]),
                             control |-> control]]
  <2>1. FreshSlot(t) /\ Begin(r, t)
    BY <1>6 DEF AnnotateBegin, FreshSlot
  <2> QED BY <1>5, <2>1
<1>7. ASSUME QueueBegin(r) PROVE Fresh'
  <2> DEFINE t == [op |-> "queue", rows |-> segment, anns |-> annotations]
  <2>1. FreshSlot(t) /\ Begin(r, t)
    BY <1>7 DEF QueueBegin, FreshSlot
  <2> QED BY <1>5, <2>1
<1>8. ASSUME NEW s \in SegmentIds, NEW a \in BOOLEAN, DecideBegin(r, s, a)
      PROVE  Fresh'
  <2>1. FreshSlot(Load("decide", {s}, a)) /\ Begin(r, Load("decide", {s}, a))
    BY <1>8 DEF DecideBegin, FreshSlot, Load
  <2> QED BY <1>5, <2>1
<1>9. ASSUME NEW ids \in SUBSET SegmentIds, NEW a \in BOOLEAN,
             BatchBegin(r, ids, a)
      PROVE  Fresh'
  <2> DEFINE t == Load("batch", {s \in ids : segment[s].queued}, a)
  <2>1. FreshSlot(t) /\ Begin(r, t)
    BY <1>9 DEF BatchBegin, FreshSlot, Load
  <2> QED BY <1>5, <2>1
<1>10. ASSUME NEW s \in SegmentIds, IngestBegin(r, s) PROVE Fresh'
  <2> DEFINE t == [op |-> "ingest", id |-> s, row |-> segment[s]]
  <2>1. FreshSlot(t) /\ Begin(r, t)
    BY <1>10 DEF IngestBegin, FreshSlot
  <2> QED BY <1>5, <2>1
<1>11. ASSUME NEW s \in SegmentIds, CleanupBegin(r, s) PROVE Fresh'
  <2> DEFINE t == [op |-> "cleanup", id |-> s, row |-> segment[s]]
  <2>1. FreshSlot(t) /\ Begin(r, t)
    BY <1>11 DEF CleanupBegin, FreshSlot
  <2> QED BY <1>5, <2>1
<1>12. ASSUME AnnotateInsert(r) PROVE Fresh'
  <2> DEFINE t == txn[r]
             n == t.mine
  <2>1. FreshSlot(t)
    BY DEF Fresh
  <2>2. txn'[r] = [op |-> "inserted", row |-> t.row, author |-> t.author,
                   mine |-> n, read |-> Counted(n.segment) \cup {n},
                   count |-> Cardinality(Of(n.user)) + 1]
    BY <1>0, <1>12 DEF AnnotateInsert
  <2>3. n \notin annotations
    BY <1>12 DEF AnnotateInsert, SameKey
  <2>4. t.op = "annotate"
    BY <1>12 DEF AnnotateInsert
  <2> QED BY <1>12, <2>1, <2>2, <2>3, <2>4
          DEF AnnotateInsert, Fresh, FreshSlot, Counted, On, Of
<1>13. CASE \/ AnnotateCommit(r) \/ ControlCommit(r) \/ QueueCommit(r)
            \/ DecideCommit(r) \/ BatchCommit(r) \/ IngestCommit(r)
            \/ CleanupCommit(r) \/ Abort(r)
  <2>1. Finish(r)
    BY <1>13 DEF AnnotateCommit, ControlCommit, QueueCommit, DecideCommit,
       BatchCommit, IngestCommit, CleanupCommit, Abort
  <2> QED BY <1>2, <2>1
<1> QED BY <1>1, <1>3, <1>4, <1>6, <1>7, <1>8, <1>9, <1>10, <1>11, <1>12, <1>13
        DEF Next, Environment, Start, Continue

-----------------------------------------------------------------------------
(* What a commit does to the tables when nothing has come between.  Each   *)
(* step of Segments has one of these effects (lemma Effects); the          *)
(* properties are proved from the effects.                                 *)

(* The columns z of a row that was x. *)
SameIn(z, x, columns) == \A f \in columns : z[f] = x[f]
Consistent(z) == z \in Row /\ z.index = IndexOf(z)

AgreedFrom(z, x, A) ==
  /\ Consistent(z)
  /\ z.votes = Votes(A) /\ z.queued = (x.queued \/ Reached(A))
  /\ z.status = IF Reached(A) /\ ~x.queued /\ x.status = "watch"
                THEN "problem" ELSE x.status
  /\ SameIn(z, x, {"verified", "pool", "truth"})

RepairedFrom(z, x, A) ==
  /\ z \in Row /\ (x.index = IndexOf(x) => z.index = IndexOf(z))
  /\ z.votes = Votes(A)
  /\ \/ z.queued = x.queued /\ z.status = x.status
     \/ A = {} /\ ~z.queued /\ z.status = "watch"
  /\ SameIn(z, x, {"verified", "pool", "truth"})

DecidedFrom(z, x, approved) ==
  /\ Consistent(z)
  /\ z.verified = approved
  /\ z.status = IF approved THEN "work" ELSE "watch"
  /\ z.queued = (approved /\ x.queued)
  /\ z.votes = IF approved THEN x.votes ELSE 0
  /\ \/ SameIn(z, x, {"pool", "truth"})
     \/ z.pool /\ z.truth # NoVerdict

VoteArrives(n) ==
  /\ n \in Annotation /\ n \notin annotations /\ ~n.control
  /\ LET x == segment[n.segment]
     IN /\ ~x.verified /\ ~(x.pool /\ x.truth # NoVerdict)
        /\ \E z \in Row : /\ segment' = [segment EXCEPT ![n.segment] = z]
                         /\ AgreedFrom(z, x, Counted(n.segment) \cup {n})
  /\ annotations' = annotations \cup {n}
  /\ UNCHANGED <<deleted, trips, audit>>

MeasureArrives(n) ==
  /\ n \in Annotation /\ n \notin annotations /\ n.control
  /\ segment[n.segment].pool
  /\ annotations' = annotations \cup {n}
  /\ UNCHANGED <<segment, deleted, trips, audit>>

(* The profile of the author of either. *)
ProfileCounts(n) ==
  \E w \in UserRow : /\ user' = [user EXCEPT ![n.user] = w]
                    /\ w.count = Cardinality(Of(n.user)) + 1
                    /\ w.reputation = user[n.user].reputation

QueueRepairs ==
  /\ \A s \in SegmentIds :
       \/ segment'[s] = segment[s]
       \/ InQueue(segment[s]) /\ RepairedFrom(segment'[s], segment[s], On(s))
  /\ UNCHANGED <<annotations, user, deleted, trips, audit>>

Signs(ids, approved) ==
  audit' = [s \in SegmentIds |->
    IF s \in ids THEN Append(audit[s], IF approved THEN "approved" ELSE "rejected")
    ELSE audit[s]]

Decides(ids, approved) ==
  /\ \A s \in SegmentIds :
       IF s \in ids THEN DecidedFrom(segment'[s], segment[s], approved)
       ELSE segment'[s] = segment[s]
  /\ Signs(ids, approved)
  /\ \A u \in Users :
       /\ user'[u].count = user[u].count
       /\ user'[u].reputation \in
            {user[u].reputation, AdjustReputation(user[u].reputation, approved)}
  /\ UNCHANGED <<annotations, deleted, trips>>

(* A scene, or a cleanup after a trip. *)
ShoreChanges(s) ==
  /\ \E z \in Row :
       /\ segment' = [segment EXCEPT ![s] = z]
       /\ Consistent(z) /\ SameIn(z, segment[s], Judged)
       /\ z.status = segment[s].status \/ (s \in trips /\ z.status = "clean")
  /\ UNCHANGED <<annotations, user, deleted, trips, audit>>

Effect ==
  \/ UNCHANGED tables
  \/ TimePasses
  \/ \E u \in Users : AccountRemoved(u)
  \/ \E s \in SegmentIds : CreateEvent(s)
  \/ \E n \in Annotation : (VoteArrives(n) \/ MeasureArrives(n)) /\ ProfileCounts(n)
  \/ QueueRepairs
  \/ \E ids \in SUBSET SegmentIds, a \in BOOLEAN : Decides(ids, a)
  \/ \E s \in SegmentIds : ShoreChanges(s)

LEMMA VoteEffect ==
  ASSUME TInv, Fresh, NEW r \in Requests, AnnotateCommit(r)
  PROVE  Effect
<1> DEFINE t == txn[r]
           n == t.mine
           author == [t.author EXCEPT !.count = t.count]
<1>1. t \in InsertedTxn /\ FreshSlot(t)
  BY DEF TInv, SlotType, AnnotateCommit, Fresh
<1>2. /\ t.row \in Row /\ t.author \in UserRow /\ n \in Annotation
      /\ t.read \in Anns /\ t.count \in Nat /\ t.op = "inserted"
  BY <1>1 DEF InsertedTxn
<1>3. /\ t.row = segment[n.segment] /\ t.author = user[n.user]
      /\ ~t.row.verified /\ ~(t.row.pool /\ t.row.truth # NoVerdict)
      /\ t.read = Counted(n.segment) \cup {n}
      /\ t.count = Cardinality(Of(n.user)) + 1 /\ n \notin annotations
      /\ ~n.control
  BY <1>1, <1>2 DEF FreshSlot, AnnotateCommit
<1>4. PICK type \in PrevailingVerdicts(t.read) :
        segment' = [segment EXCEPT ![n.segment] =
          Flush(@, t.row, [WithConsensus(t.row, t.read) EXCEPT !.type = type])]
  BY DEF AnnotateCommit
<1> DEFINE z == [WithConsensus(t.row, t.read) EXCEPT !.type = type]
<1>5. type \in Verdicts \cup {NoVerdict}
  BY <1>2, <1>4, PrevailingTypes DEF Anns
<1>6. z \in Row /\ AgreedFrom(z, t.row, t.read)
  BY <1>2, <1>5, AgreedRow DEF AgreedFrom, Consistent, SameIn
<1>7. segment' = [segment EXCEPT ![n.segment] = Flush(@, t.row, z)]
  BY <1>4
<1> HIDE DEF z
<1>8. n.segment \in SegmentIds /\ n.user \in Users
  BY <1>2 DEF Annotation
<1>9. segment' = [segment EXCEPT ![n.segment] = z]
  <2>1. Flush(segment[n.segment], t.row, z) = z
    BY <1>2, <1>3, <1>6, FlushedRow
  <2> QED BY <1>7, <2>1
<1>10. author \in UserRow /\ author.count = t.count
       /\ author.reputation = t.author.reputation
  BY <1>2 DEF UserRow
<1>11. user' = [user EXCEPT ![n.user] = Flush(@, t.author, author)]
  BY DEF AnnotateCommit
<1> HIDE DEF author
<1>12. user' = [user EXCEPT ![n.user] = author]
  BY <1>2, <1>3, <1>8, <1>10, <1>11, FlushedUser
<1>13. ProfileCounts(n)
  BY <1>3, <1>10, <1>12 DEF ProfileCounts
<1>14. annotations' = annotations \cup {n} /\ UNCHANGED <<deleted, trips, audit>>
  BY DEF AnnotateCommit
<1>15. VoteArrives(n)
  BY <1>2, <1>3, <1>6, <1>9, <1>14 DEF VoteArrives
<1> QED BY <1>2, <1>13, <1>15 DEF Effect

LEMMA MeasureEffect ==
  ASSUME TInv, Fresh, NEW r \in Requests, ControlCommit(r)
  PROVE  Effect
<1> DEFINE t == txn[r]
           n == t.mine
<1>1. t \in InsertedTxn /\ FreshSlot(t)
  BY DEF TInv, SlotType, ControlCommit, Fresh
<1>2. /\ t.author \in UserRow /\ n \in Annotation /\ t.row \in Row
      /\ t.count \in Nat /\ t.op = "inserted"
  BY <1>1 DEF InsertedTxn
<1>3. /\ t.author = user[n.user] /\ segment[n.segment].pool
      /\ t.count = Cardinality(Of(n.user)) + 1 /\ n \notin annotations
      /\ n.control
  BY <1>1, <1>2 DEF FreshSlot, ControlCommit
<1>4. n.user \in Users
  BY <1>2 DEF Annotation
<1>5. /\ Measured(t) \in UserRow /\ Measured(t).count = t.count
      /\ Measured(t).reputation = t.author.reputation
  BY <1>2, MeasuredUser
<1>6. user' = [user EXCEPT ![n.user] = Flush(@, t.author, Measured(t))]
  BY DEF ControlCommit
<1>7. user' = [user EXCEPT ![n.user] = Measured(t)]
  BY <1>2, <1>3, <1>4, <1>5, <1>6, FlushedUser
<1>8. ProfileCounts(n)
  BY <1>3, <1>5, <1>7 DEF ProfileCounts
<1>9. MeasureArrives(n)
  BY <1>2, <1>3 DEF MeasureArrives, ControlCommit
<1> QED BY <1>2, <1>8, <1>9 DEF Effect

LEMMA QueueEffect ==
  ASSUME TInv, Fresh, NEW r \in Requests, QueueCommit(r)
  PROVE  Effect
<1> DEFINE t == txn[r]
<1>1. t.rows = segment /\ t.anns = annotations
  BY DEF Fresh, FreshSlot, QueueCommit
<1>2. ASSUME NEW s \in SegmentIds
      PROVE  \/ segment'[s] = segment[s]
             \/ /\ InQueue(segment[s])
                /\ RepairedFrom(segment'[s], segment[s], On(s))
  <2>1. CASE ~InQueue(segment[s])
    BY <1>1, <2>1 DEF QueueCommit
  <2>2. CASE InQueue(segment[s])
    <3> DEFINE z == Repaired(segment[s], On(s))
    <3>1. segment[s] \in Row /\ On(s) \in Anns
      BY OfSegment DEF TInv, TypeOK
    <3>2. z \in Row /\ RepairedFrom(z, segment[s], On(s))
      BY <3>1, RepairedRow DEF RepairedFrom, SameIn
    <3>3. segment'[s] = Flush(segment[s], segment[s], z)
      BY <1>1, <2>2 DEF QueueCommit, On
    <3> HIDE DEF z
    <3>4. segment'[s] = z
      BY <3>1, <3>2, <3>3, FlushedRow
    <3> QED BY <2>2, <3>2, <3>4
  <2> QED BY <2>1, <2>2
<1>3. QueueRepairs
  BY <1>2 DEF QueueRepairs, QueueCommit
<1> QED BY <1>3 DEF Effect

(* A rating leaves the counters of the profile alone. *)
LEMMA RatedEffect ==
  ASSUME TInv, NEW t \in DecisionTxn, t.users = user, NEW u \in Users
  PROVE  /\ Rated(t)[u].count = user[u].count
         /\ Rated(t)[u].reputation \in
              {user[u].reputation, AdjustReputation(user[u].reputation, t.approved)}
<1> DEFINE rep == AdjustReputation(user[u].reputation, t.approved)
           new == [user[u] EXCEPT !.reputation = rep]
<1>1. user[u] \in UserRow
  BY DEF TInv, TypeOK
<1>2. rep \in Reputation
  BY <1>1, AdjustedIsReputation DEF UserRow, DecisionTxn
<1> HIDE DEF rep
<1>3. new \in UserRow /\ new.count = user[u].count /\ new.reputation = rep
  BY <1>1, <1>2 DEF UserRow
<1>4. Rated(t)[u] \in {Flush(user[u], user[u], new), user[u]}
  BY DEF Rated, rep
<1> HIDE DEF new
<1> QED BY <1>1, <1>3, <1>4, FlushedUser DEF rep

LEMMA DecideEffect ==
  ASSUME TInv, Fresh, NEW r \in Requests, DecideCommit(r)
  PROVE  Effect
<1> DEFINE t == txn[r]
           Written(s, v) ==
             Recalculate(Decision([t.rows[s] EXCEPT !.pool = TRUE,
                !.truth = TruthFromDecision(t.approved, v)], t.approved))
<1>1. t \in DecisionTxn /\ FreshSlot(t) /\ t.op = "decide"
  BY DEF TInv, SlotType, DecideCommit, Fresh
<1>2. t.rows = segment /\ t.anns = annotations /\ t.users = user
  BY <1>1 DEF FreshSlot
<1>3. PICK s \in SegmentIds : t.ids = {s}
  BY <1>1 DEF FreshSlot
<1>4. PICK v \in PrevailingVerdicts({n \in t.anns : n.segment = s}) :
        segment' = [segment EXCEPT ![s] = Flush(@, t.rows[s], Written(s, v))]
  BY <1>3 DEF DecideCommit
<1> DEFINE truth == TruthFromDecision(t.approved, v)
           pooled == [segment[s] EXCEPT !.pool = TRUE, !.truth = truth]
           z == Recalculate(Decision(pooled, t.approved))
<1>5. segment[s] \in Row /\ t.approved \in BOOLEAN /\ segment \in [SegmentIds -> Row]
  BY <1>1 DEF DecisionTxn, TInv, TypeOK
<1>6. truth \in Verdicts
  <2>1. {n \in t.anns : n.segment = s} \in SUBSET Annotation
    BY <1>1 DEF DecisionTxn, Anns
  <2>2. v \in Verdicts \cup {NoVerdict}
    BY <1>4, <2>1, PrevailingTypes
  <2> QED BY <2>2 DEF TruthFromDecision, Verdicts
<1>7. segment' = [segment EXCEPT ![s] = Flush(@, segment[s], z)]
  BY <1>2, <1>4
<1> HIDE DEF truth
<1>8. /\ pooled \in Row /\ pooled.pool /\ pooled.truth = truth
      /\ pooled.queued = segment[s].queued /\ pooled.votes = segment[s].votes
  BY <1>5, <1>6, PooledRow
<1> HIDE DEF pooled
<1>9. truth # NoVerdict
  BY <1>6 DEF Verdicts, NoVerdict
<1>10. z \in Row /\ DecidedFrom(z, segment[s], t.approved)
  BY <1>5, <1>8, <1>9, DecidedRow DEF DecidedFrom, Consistent
<1> HIDE DEF z
<1>11. Flush(segment[s], segment[s], z) = z
  BY <1>5, <1>10, FlushedRow
<1>12. /\ segment'[s] = z
       /\ \A q \in SegmentIds \ {s} : segment'[q] = segment[q]
  BY <1>5, <1>7, <1>11
<1>13. Signs({s}, t.approved)
  BY <1>3 DEF Signs, DecideCommit, Recorded
<1>14. Decides({s}, t.approved)
  BY <1>1, <1>2, <1>10, <1>12, <1>13, RatedEffect DEF Decides, DecideCommit
<1> QED BY <1>5, <1>14 DEF Effect

LEMMA BatchEffect ==
  ASSUME TInv, Fresh, NEW r \in Requests, BatchCommit(r)
  PROVE  Effect
<1> DEFINE t == txn[r]
<1>1. t \in DecisionTxn /\ FreshSlot(t) /\ t.op = "batch"
  BY DEF TInv, SlotType, BatchCommit, Fresh
<1>2. t.rows = segment /\ t.users = user
  BY <1>1 DEF FreshSlot
<1>3. t.ids \in SUBSET SegmentIds /\ t.approved \in BOOLEAN
  BY <1>1 DEF DecisionTxn
<1>4. ASSUME NEW s \in SegmentIds
      PROVE  IF s \in t.ids THEN DecidedFrom(segment'[s], segment[s], t.approved)
             ELSE segment'[s] = segment[s]
  <2> DEFINE z == Recalculate(Decision(segment[s], t.approved))
  <2>1. segment[s] \in Row
    BY DEF TInv, TypeOK
  <2>2. z \in Row /\ DecidedFrom(z, segment[s], t.approved)
    BY <1>3, <2>1, DecidedRow DEF DecidedFrom, Consistent, SameIn
  <2>3. segment'[s] = IF s \in t.ids THEN Flush(segment[s], segment[s], z)
                      ELSE segment[s]
    BY <1>2 DEF BatchCommit
  <2> HIDE DEF z
  <2> QED BY <2>1, <2>2, <2>3, FlushedRow
<1>5. Signs(t.ids, t.approved)
  BY DEF Signs, BatchCommit, Recorded
<1>6. Decides(t.ids, t.approved)
  BY <1>1, <1>2, <1>4, <1>5, RatedEffect DEF Decides, BatchCommit
<1> QED BY <1>3, <1>6 DEF Effect

LEMMA ShoreEffect ==
  ASSUME TInv, Fresh, NEW r \in Requests, IngestCommit(r) \/ CleanupCommit(r)
  PROVE  Effect
<1> DEFINE t == txn[r]
<1>1. t \in SegmentTxn /\ FreshSlot(t)
  BY DEF TInv, SlotType, IngestCommit, CleanupCommit, Fresh
<1>2. t.row = segment[t.id] /\ t.row \in Row /\ t.id \in SegmentIds
  BY <1>1 DEF FreshSlot, SegmentTxn, IngestCommit, CleanupCommit
<1>3. ASSUME NEW z \in Row, segment' = [segment EXCEPT ![t.id] = Flush(@, t.row, z)]
      PROVE  segment' = [segment EXCEPT ![t.id] = z]
  <2>1. Flush(segment[t.id], t.row, z) = z
    BY <1>2, FlushedRow
  <2> QED BY <1>3, <2>1
<1>4. UNCHANGED <<annotations, user, deleted, trips, audit>>
  BY DEF IngestCommit, CleanupCommit
<1>5. CASE IngestCommit(r)
  <2>1. PICK signal \in Signals \cup {t.row.s}, boost \in Boosts :
          segment' = [segment EXCEPT ![t.id] = Flush(@, t.row,
            Recalculate([t.row EXCEPT !.s = Clamp01(signal + boost)]))]
    BY <1>5 DEF IngestCommit
  <2> DEFINE z == Recalculate([t.row EXCEPT !.s = Clamp01(signal + boost)])
  <2>2. signal + boost \in Int
    <3>1. t.row.s \in Factor
      BY <1>2 DEF Row
    <3>2. signal \in Factor /\ boost \in 0 .. 20
      BY <3>1, SegmentsAssumption
    <3> QED BY <3>2 DEF Factor
  <2>3. /\ z \in Row /\ Consistent(z) /\ SameIn(z, t.row, Judged)
        /\ z.status = t.row.status
    BY <1>2, <2>2, SignalledRow DEF Consistent, SameIn
  <2>4. segment' = [segment EXCEPT ![t.id] = Flush(@, t.row, z)]
    BY <2>1
  <2> HIDE DEF z
  <2>5. ShoreChanges(t.id)
    BY <1>2, <1>3, <1>4, <2>3, <2>4 DEF ShoreChanges
  <2> QED BY <1>2, <2>5 DEF Effect
<1>6. CASE CleanupCommit(r) /\ t.row.status = "clean"
  BY <1>4, <1>6 DEF CleanupCommit, Effect, tables
<1>7. CASE CleanupCommit(r) /\ t.row.status # "clean"
  <2> DEFINE z == ApplyCleanup([t.row EXCEPT !.status = "clean"])
  <2>1. /\ z \in Row /\ Consistent(z) /\ SameIn(z, t.row, Judged)
        /\ z.status = "clean"
    BY <1>2, CleanedRow DEF Consistent, SameIn
  <2>2. segment' = [segment EXCEPT ![t.id] = Flush(@, t.row, z)]
    BY <1>7 DEF CleanupCommit
  <2>3. t.id \in trips
    BY <1>1, <1>7 DEF FreshSlot, CleanupCommit
  <2> HIDE DEF z
  <2>4. ShoreChanges(t.id)
    BY <1>2, <1>3, <1>4, <2>1, <2>2, <2>3 DEF ShoreChanges
  <2> QED BY <1>2, <2>4 DEF Effect
<1> QED BY <1>5, <1>6, <1>7

LEMMA Effects ==
  ASSUME TInv, Fresh, [Next]_vars
  PROVE  Effect
<1>1. CASE UNCHANGED vars
  BY <1>1 DEF vars, tables, Effect
<1>2. CASE Environment
  BY <1>2 DEF Environment, Effect
<1>3. ASSUME NEW r \in Requests, Start(r) \/ AnnotateInsert(r) \/ Abort(r)
      PROVE  Effect
  BY <1>3 DEF Start, AnnotateInsert, Abort, AnnotateBegin, QueueBegin, DecideBegin,
     BatchBegin, IngestBegin, CleanupBegin, Begin, tables, Effect
<1>4. ASSUME NEW r \in Requests, Continue(r) PROVE Effect
  BY <1>3, <1>4, VoteEffect, MeasureEffect, QueueEffect, DecideEffect,
     BatchEffect, ShoreEffect DEF Continue
<1> QED BY <1>1, <1>2, <1>3, <1>4 DEF Next

-----------------------------------------------------------------------------
(* The inductive invariant. *)

ConfirmedOnce(s) == \E i \in DOMAIN audit[s] : audit[s][i] = "approved"

(* A trip is only ever made to a segment that was confirmed. *)
TripsAreFounded == \A s \in trips : ConfirmedOnce(s)

(* A segment in the pool has its known answer, is not waiting for a        *)
(* decision, and is the only kind with control answers: so the repair of   *)
(* the queue, which does not tell answers apart, meets only votes.         *)
PoolsAreSettled ==
  /\ \A s \in SegmentIds :
       segment[s].pool => /\ segment[s].truth # NoVerdict
                          /\ ~InQueue(segment[s])
  /\ \A n \in annotations : n.control => segment[n.segment].pool

SInv == /\ IndexIsFormula /\ AuditTellsVerified /\ TripsAreFounded
        /\ PoolsAreSettled /\ QueuedIffAgreed /\ TalliesAreReal

(* Days change one column. *)
LEMMA DaysPass ==
  ASSUME TInv, TimePasses, NEW s \in SegmentIds
  PROVE  /\ \A f \in Kept \ {"since"} : segment'[s][f] = segment[s][f]
         /\ segment'[s].t = segment[s].t /\ segment'[s].index = segment[s].index
<1>1. segment[s] \in Row
  BY DEF TInv, TypeOK
<1> DEFINE since == IF segment[s].since + Period < SaturationDays
                    THEN segment[s].since + Period ELSE SaturationDays
<1>2. segment'[s] = [segment[s] EXCEPT !.since = since]
  BY <1>1 DEF TimePasses, Row
<1> HIDE DEF since
<1> QED BY <1>1, <1>2 DEF Row, Kept

(* Only these rows change, and this is how the others are affected. *)
LEMMA OneRow ==
  ASSUME TInv, NEW s \in SegmentIds, NEW z,
         segment' = [segment EXCEPT ![s] = z]
  PROVE  segment'[s] = z /\ \A q \in SegmentIds \ {s} : segment'[q] = segment[q]
BY DEF TInv, TypeOK

LEMMA IndexStep ==
  ASSUME TInv, IndexIsFormula, Effect
  PROVE  IndexIsFormula'
<1>0. \A s \in SegmentIds : segment[s].index = IndexOf(segment[s])
  BY DEF IndexIsFormula, IndexOf
<1> SUFFICES ASSUME NEW s \in SegmentIds
             PROVE  segment'[s].index = IndexOf(segment'[s])
  BY DEF IndexIsFormula, IndexOf
<1>1. CASE UNCHANGED segment
  BY <1>0, <1>1
<1>2. CASE TimePasses
  BY <1>0, <1>2, DaysPass DEF IndexOf, Kept
<1>3. ASSUME NEW n \in Annotation, VoteArrives(n)
      PROVE  segment'[s].index = IndexOf(segment'[s])
  <2>1. n.segment \in SegmentIds
    BY DEF Annotation
  <2> QED BY <1>0, <1>3, <2>1, OneRow DEF VoteArrives, AgreedFrom, Consistent
<1>4. CASE QueueRepairs
  BY <1>0, <1>4 DEF QueueRepairs, RepairedFrom
<1>5. ASSUME NEW ids \in SUBSET SegmentIds, NEW a \in BOOLEAN, Decides(ids, a)
      PROVE  segment'[s].index = IndexOf(segment'[s])
  BY <1>0, <1>5 DEF Decides, DecidedFrom, Consistent
<1>6. ASSUME NEW q \in SegmentIds, ShoreChanges(q)
      PROVE  segment'[s].index = IndexOf(segment'[s])
  BY <1>0, <1>6, OneRow DEF ShoreChanges, Consistent
<1> QED BY <1>1, <1>2, <1>3, <1>4, <1>5, <1>6
        DEF Effect, tables, AccountRemoved, CreateEvent, MeasureArrives

(* Of the judgements on a segment only a decision changes the confirmation *)
(* and the audit log.                                                      *)
LEMMA OnlyDecisionsConfirm ==
  ASSUME TInv, Effect,
         \A ids \in SUBSET SegmentIds, a \in BOOLEAN : ~Decides(ids, a)
  PROVE  /\ UNCHANGED audit
         /\ \A s \in SegmentIds : segment'[s].verified = segment[s].verified
<1> SUFFICES ASSUME NEW s \in SegmentIds
             PROVE  UNCHANGED audit /\ segment'[s].verified = segment[s].verified
  BY DEF Effect, tables, TimePasses, AccountRemoved, CreateEvent, VoteArrives,
     MeasureArrives, QueueRepairs, ShoreChanges
<1>1. CASE UNCHANGED segment /\ UNCHANGED audit
  BY <1>1
<1>2. CASE TimePasses
  BY <1>2, DaysPass DEF TimePasses, Kept
<1>3. ASSUME NEW n \in Annotation, VoteArrives(n)
      PROVE  UNCHANGED audit /\ segment'[s].verified = segment[s].verified
  <2>1. n.segment \in SegmentIds
    BY DEF Annotation
  <2> QED BY <1>3, <2>1, OneRow DEF VoteArrives, AgreedFrom, SameIn
<1>4. CASE QueueRepairs
  BY <1>4 DEF QueueRepairs, RepairedFrom, SameIn
<1>5. ASSUME NEW q \in SegmentIds, ShoreChanges(q)
      PROVE  UNCHANGED audit /\ segment'[s].verified = segment[s].verified
  BY <1>5, OneRow DEF ShoreChanges, SameIn, Judged
<1> QED BY <1>1, <1>2, <1>3, <1>4, <1>5
        DEF Effect, tables, AccountRemoved, CreateEvent, MeasureArrives

(* What a decision does to the log. *)
LEMMA Signed ==
  ASSUME TInv, NEW ids \in SUBSET SegmentIds, NEW a \in BOOLEAN, Signs(ids, a),
         NEW s \in SegmentIds
  PROVE  /\ s \notin ids => audit'[s] = audit[s]
         /\ s \in ids =>
              /\ audit'[s] # <<>> /\ Len(audit'[s]) = Len(audit[s]) + 1
              /\ audit'[s][Len(audit'[s])] = IF a THEN "approved" ELSE "rejected"
         /\ \A i \in DOMAIN audit[s] : i \in DOMAIN audit'[s]
                                     /\ audit'[s][i] = audit[s][i]
<1> DEFINE e == IF a THEN "approved" ELSE "rejected"
<1>1. audit[s] \in Seq(AuditActions) /\ e \in AuditActions
  BY DEF TInv, TypeOK, AuditActions
<1>2. audit'[s] = IF s \in ids THEN Append(audit[s], e) ELSE audit[s]
  BY DEF Signs
<1> HIDE DEF e
<1>3. /\ Append(audit[s], e) # <<>> /\ Len(Append(audit[s], e)) = Len(audit[s]) + 1
      /\ Append(audit[s], e)[Len(audit[s]) + 1] = e
      /\ \A i \in DOMAIN audit[s] : i \in DOMAIN Append(audit[s], e)
                                  /\ Append(audit[s], e)[i] = audit[s][i]
  BY <1>1
<1> QED BY <1>2, <1>3 DEF e

LEMMA AuditStep ==
  ASSUME TInv, AuditTellsVerified, Effect
  PROVE  AuditTellsVerified'
<1>1. CASE \A ids \in SUBSET SegmentIds, a \in BOOLEAN : ~Decides(ids, a)
  BY <1>1, OnlyDecisionsConfirm DEF AuditTellsVerified
<1>2. ASSUME NEW ids \in SUBSET SegmentIds, NEW a \in BOOLEAN, Decides(ids, a)
      PROVE  AuditTellsVerified'
  <2> SUFFICES ASSUME NEW s \in SegmentIds
               PROVE  segment'[s].verified <=>
                        /\ audit'[s] # <<>>
                        /\ audit'[s][Len(audit'[s])] = "approved"
    BY DEF AuditTellsVerified
  <2>1. Signs(ids, a)
    BY <1>2 DEF Decides
  <2>2. CASE s \in ids
    <3>1. segment'[s].verified = a
      BY <1>2, <2>2 DEF Decides, DecidedFrom
    <3>2. audit'[s] # <<>> /\ audit'[s][Len(audit'[s])] = IF a THEN "approved" ELSE "rejected"
      BY <2>1, <2>2, Signed
    <3> QED BY <3>1, <3>2
  <2>3. CASE s \notin ids
    <3>1. segment'[s] = segment[s]
      BY <1>2, <2>3 DEF Decides
    <3>2. audit'[s] = audit[s]
      BY <2>1, <2>3, Signed
    <3> QED BY <3>1, <3>2 DEF AuditTellsVerified
  <2> QED BY <2>2, <2>3
<1> QED BY <1>1, <1>2

LEMMA TripsStep ==
  ASSUME TInv, AuditTellsVerified, TripsAreFounded, Effect
  PROVE  TripsAreFounded'
<1>1. ASSUME NEW s \in SegmentIds, ConfirmedOnce(s) PROVE ConfirmedOnce(s)'
  <2>1. CASE \A ids \in SUBSET SegmentIds, a \in BOOLEAN : ~Decides(ids, a)
    BY <1>1, <2>1, OnlyDecisionsConfirm DEF ConfirmedOnce
  <2>2. ASSUME NEW ids \in SUBSET SegmentIds, NEW a \in BOOLEAN, Decides(ids, a)
        PROVE  ConfirmedOnce(s)'
    <3>1. Signs(ids, a)
      BY <2>2 DEF Decides
    <3>2. PICK i \in DOMAIN audit[s] : audit[s][i] = "approved"
      BY <1>1 DEF ConfirmedOnce
    <3>3. i \in DOMAIN audit'[s] /\ audit'[s][i] = "approved"
      BY <3>1, <3>2, Signed
    <3> QED BY <3>3 DEF ConfirmedOnce
  <2> QED BY <2>1, <2>2
<1>2. CASE UNCHANGED trips
  BY <1>1, <1>2 DEF TripsAreFounded, TInv, TypeOK
<1>3. ASSUME NEW s \in SegmentIds, CreateEvent(s) PROVE TripsAreFounded'
  <2>1. ConfirmedOnce(s)
    <3>1. audit[s] \in Seq(AuditActions) /\ audit[s] # <<>>
          /\ audit[s][Len(audit[s])] = "approved"
      BY <1>3 DEF CreateEvent, AuditTellsVerified, TInv, TypeOK
    <3>2. Len(audit[s]) \in DOMAIN audit[s]
      BY <3>1
    <3> QED BY <3>1, <3>2 DEF ConfirmedOnce
  <2>2. trips' = trips \cup {s}
    BY <1>3 DEF CreateEvent
  <2> QED BY <1>1, <2>1, <2>2 DEF TripsAreFounded, TInv, TypeOK
<1> QED BY <1>2, <1>3 DEF Effect, tables, TimePasses, AccountRemoved, VoteArrives,
        MeasureArrives, QueueRepairs, Decides, ShoreChanges

LEMMA PoolsStep ==
  ASSUME TInv, PoolsAreSettled, Effect
  PROVE  PoolsAreSettled'
<1> DEFINE Row1(s) ==
             /\ segment'[s].pool => /\ segment'[s].truth # NoVerdict
                                    /\ ~InQueue(segment'[s])
             /\ segment[s].pool => segment'[s].pool
<1>0. \A s \in SegmentIds : segment[s].pool =>
        segment[s].truth # NoVerdict /\ ~InQueue(segment[s])
  BY DEF PoolsAreSettled
<1>1. ASSUME NEW s \in SegmentIds PROVE Row1(s)
  <2>1. CASE UNCHANGED segment
    BY <1>0, <2>1
  <2>2. CASE TimePasses
    BY <1>0, <2>2, DaysPass DEF Kept, InQueue
  <2>3. ASSUME NEW n \in Annotation, VoteArrives(n) PROVE Row1(s)
    <3>1. n.segment \in SegmentIds
      BY DEF Annotation
    <3>2. CASE s = n.segment
      <4>1. ~segment[s].pool
        BY <1>0, <2>3, <3>2 DEF VoteArrives
      <4>2. segment'[s].pool = segment[s].pool
        BY <2>3, <3>1, <3>2, OneRow DEF VoteArrives, AgreedFrom, SameIn
      <4> QED BY <4>1, <4>2
    <3>3. CASE s # n.segment
      BY <1>0, <2>3, <3>1, <3>3, OneRow DEF VoteArrives
    <3> QED BY <3>2, <3>3
  <2>4. CASE QueueRepairs
    BY <1>0, <2>4 DEF QueueRepairs, RepairedFrom, SameIn, InQueue
  <2>5. ASSUME NEW ids \in SUBSET SegmentIds, NEW a \in BOOLEAN, Decides(ids, a)
        PROVE  Row1(s)
    <3>1. CASE s \in ids
      <4>1. DecidedFrom(segment'[s], segment[s], a)
        BY <2>5, <3>1 DEF Decides
      <4>2. ~InQueue(segment'[s])
        BY <4>1 DEF DecidedFrom, InQueue
      <4> QED BY <1>0, <4>1, <4>2 DEF DecidedFrom, SameIn
    <3>2. CASE s \notin ids
      BY <1>0, <2>5, <3>2 DEF Decides
    <3> QED BY <3>1, <3>2
  <2>6. ASSUME NEW q \in SegmentIds, ShoreChanges(q) PROVE Row1(s)
    <3>1. CASE s = q
      <4>1. SameIn(segment'[s], segment[s], Judged)
        BY <2>6, <3>1, OneRow DEF ShoreChanges
      <4> QED BY <1>0, <4>1 DEF SameIn, Judged, InQueue
    <3>2. CASE s # q
      BY <1>0, <2>6, <3>2, OneRow DEF ShoreChanges
    <3> QED BY <3>1, <3>2
  <2> QED BY <2>1, <2>2, <2>3, <2>4, <2>5, <2>6
          DEF Effect, tables, AccountRemoved, CreateEvent, MeasureArrives
<1>2. ASSUME NEW n \in annotations', n.control
      PROVE  segment'[n.segment].pool
  <2>1. n.segment \in SegmentIds \/ n \in annotations
    BY DEF Effect, tables, TimePasses, AccountRemoved, CreateEvent, VoteArrives,
       MeasureArrives, QueueRepairs, Decides, ShoreChanges, Annotation
  <2>2. n \in annotations => n.segment \in SegmentIds
    BY DEF TInv, TypeOK, Annotation
  <2>3. CASE n \in annotations
    BY <1>1, <1>2, <2>2, <2>3 DEF PoolsAreSettled
  <2>4. CASE n \notin annotations
    <3>1. PICK m \in Annotation : VoteArrives(m) \/ MeasureArrives(m)
      BY <1>2, <2>4 DEF Effect, tables, TimePasses, AccountRemoved, CreateEvent,
         QueueRepairs, Decides, ShoreChanges
    <3>2. annotations' = annotations \cup {m}
      BY <3>1 DEF VoteArrives, MeasureArrives
    <3>3. n = m
      BY <2>4, <3>2
    <3>4. segment[n.segment].pool
      BY <1>2, <3>1, <3>3 DEF VoteArrives, MeasureArrives
    <3> QED BY <1>1, <2>1, <2>4, <3>4
  <2> QED BY <2>3, <2>4
<1> QED BY <1>1, <1>2 DEF PoolsAreSettled, InQueue

LEMMA ReachedMonotonic ==
  ASSUME NEW A \in Anns, NEW n \in Annotation, Reached(A)
  PROVE  Reached(A \cup {n})
<1>1. A \cup {n} \in Anns
  BY OneMoreAnnotation
<1>2. Votes(A) <= Votes(A \cup {n}) /\ Votes(A \cup {n}) \in Nat /\ Votes(A) \in Nat
  BY <1>1, VotesAreNatural
<1> QED BY <1>2, ConsensusAssumption DEF Reached

LEMMA NobodyIsNotEnough == ~Reached({}) /\ Votes({}) = 0
<1>1. Votes({}) = 0
  BY FS_EmptySet DEF Votes, Problems
<1> QED BY <1>1, ConsensusAssumption DEF Reached

LEMMA AgreementStep ==
  ASSUME TInv, QueuedIffAgreed, Effect
  PROVE  QueuedIffAgreed'
<1> SUFFICES ASSUME deleted' = {}, NEW s \in SegmentIds, audit'[s] = <<>>
             PROVE  segment'[s].queued <=> Reached(Counted(s))'
  BY DEF QueuedIffAgreed
<1>1. deleted = {}
  BY DEF Effect, tables, TimePasses, AccountRemoved, CreateEvent, VoteArrives,
     MeasureArrives, QueueRepairs, Decides, ShoreChanges
<1>2. ASSUME NEW ids \in SUBSET SegmentIds, NEW a \in BOOLEAN, Decides(ids, a)
      PROVE  s \notin ids /\ audit[s] = <<>>
  <2>1. Signs(ids, a)
    BY <1>2 DEF Decides
  <2>2. s \notin ids
    BY <2>1, Signed
  <2> QED BY <2>1, <2>2, Signed
<1>3. audit[s] = <<>>
  BY <1>2 DEF Effect, tables, TimePasses, AccountRemoved, CreateEvent, VoteArrives,
     MeasureArrives, QueueRepairs, ShoreChanges
<1>4. segment[s].queued <=> Reached(Counted(s))
  BY <1>1, <1>3 DEF QueuedIffAgreed
<1>5. UNCHANGED annotations => Counted(s)' = Counted(s)
  BY DEF Counted, On
<1>6. CASE UNCHANGED <<segment, annotations>>
  BY <1>4, <1>5, <1>6 DEF Reached
<1>7. CASE TimePasses
  <2>1. segment'[s].queued = segment[s].queued
    BY <1>7, DaysPass DEF Kept
  <2> QED BY <1>4, <1>5, <1>7, <2>1 DEF TimePasses, Reached
<1>8. ASSUME NEW n \in Annotation, VoteArrives(n)
      PROVE  segment'[s].queued <=> Reached(Counted(s))'
  <2>1. n.segment \in SegmentIds /\ annotations' = annotations \cup {n} /\ ~n.control
    BY <1>8 DEF Annotation, VoteArrives
  <2>2. CASE s = n.segment
    <3>1. segment'[s].queued = (segment[s].queued \/ Reached(Counted(s) \cup {n}))
      BY <1>8, <2>1, <2>2, OneRow DEF VoteArrives, AgreedFrom
    <3>2. Counted(s)' = Counted(s) \cup {n}
      BY <2>1, <2>2 DEF Counted, On
    <3>3. Reached(Counted(s)) => Reached(Counted(s) \cup {n})
      BY OfSegment, ReachedMonotonic
    <3> QED BY <1>4, <3>1, <3>2, <3>3 DEF Reached
  <2>3. CASE s # n.segment
    <3>1. segment'[s] = segment[s]
      BY <1>8, <2>1, <2>3, OneRow DEF VoteArrives
    <3>2. Counted(s)' = Counted(s)
      BY <2>1, <2>3 DEF Counted, On
    <3> QED BY <1>4, <3>1, <3>2 DEF Reached
  <2> QED BY <2>2, <2>3
<1>9. ASSUME NEW n \in Annotation, MeasureArrives(n)
      PROVE  segment'[s].queued <=> Reached(Counted(s))'
  <2>1. Counted(s)' = Counted(s) /\ segment' = segment
    BY <1>9 DEF MeasureArrives, Counted, On
  <2> QED BY <1>4, <2>1 DEF Reached
<1>10. CASE QueueRepairs
  <2>1. Counted(s)' = Counted(s)
    BY <1>5, <1>10 DEF QueueRepairs
  <2>2. segment'[s].queued = segment[s].queued
    <3>1. SUFFICES ASSUME InQueue(segment[s]), On(s) = {} PROVE FALSE
      BY <1>10 DEF QueueRepairs, RepairedFrom
    <3>2. Counted(s) = {}
      BY <3>1 DEF Counted
    <3> QED BY <1>4, <3>1, <3>2, NobodyIsNotEnough DEF InQueue
  <2> QED BY <1>4, <2>1, <2>2 DEF Reached
<1>11. ASSUME NEW ids \in SUBSET SegmentIds, NEW a \in BOOLEAN, Decides(ids, a)
       PROVE  segment'[s].queued <=> Reached(Counted(s))'
  <2>1. segment'[s] = segment[s] /\ UNCHANGED annotations
    BY <1>2, <1>11 DEF Decides
  <2> QED BY <1>4, <1>5, <2>1 DEF Reached
<1>12. ASSUME NEW q \in SegmentIds, ShoreChanges(q)
       PROVE  segment'[s].queued <=> Reached(Counted(s))'
  <2>1. segment'[s].queued = segment[s].queued
    BY <1>12, OneRow DEF ShoreChanges, SameIn, Judged
  <2> QED BY <1>4, <1>5, <1>12, <2>1 DEF ShoreChanges, Reached
<1>13. ASSUME NEW u \in Users, AccountRemoved(u) PROVE FALSE
  BY <1>13 DEF AccountRemoved
<1> QED BY <1>6, <1>7, <1>8, <1>9, <1>10, <1>11, <1>12, <1>13
        DEF Effect, tables, CreateEvent

LEMMA TalliesStep ==
  ASSUME TInv, PoolsAreSettled, TalliesAreReal, Effect
  PROVE  TalliesAreReal'
<1> DEFINE Real(s) == \/ segment[s].votes = Votes(Counted(s))
                      \/ audit[s] # <<>> /\ segment[s].votes = 0
<1>1. ASSUME deleted' = {}, NEW s \in SegmentIds PROVE Real(s)'
  <2>1. deleted = {}
    BY <1>1 DEF Effect, tables, TimePasses, AccountRemoved, CreateEvent, VoteArrives,
       MeasureArrives, QueueRepairs, Decides, ShoreChanges
  <2>2. Real(s)
    BY <2>1 DEF TalliesAreReal
  <2>3. UNCHANGED annotations => Counted(s)' = Counted(s)
    BY DEF Counted, On
  <2>4. ASSUME segment'[s].votes = segment[s].votes, audit'[s] = audit[s],
               Counted(s)' = Counted(s)
        PROVE  Real(s)'
    BY <2>2, <2>4 DEF Votes
  <2>5. CASE UNCHANGED tables \/ (\E q \in SegmentIds : CreateEvent(q))
    BY <2>3, <2>4, <2>5 DEF tables, CreateEvent
  <2>6. CASE TimePasses
    <3>1. segment'[s].votes = segment[s].votes
      BY <2>6, DaysPass DEF Kept
    <3> QED BY <2>3, <2>4, <2>6, <3>1 DEF TimePasses
  <2>7. ASSUME NEW n \in Annotation, VoteArrives(n) PROVE Real(s)'
    <3>1. n.segment \in SegmentIds /\ annotations' = annotations \cup {n} /\ ~n.control
          /\ UNCHANGED audit
      BY <2>7 DEF Annotation, VoteArrives
    <3>2. CASE s = n.segment
      <4>1. segment'[s].votes = Votes(Counted(s) \cup {n})
        BY <2>7, <3>1, <3>2, OneRow DEF VoteArrives, AgreedFrom
      <4>2. Counted(s)' = Counted(s) \cup {n}
        BY <3>1, <3>2 DEF Counted, On
      <4> QED BY <4>1, <4>2 DEF Votes
    <3>3. CASE s # n.segment
      <4>1. segment'[s] = segment[s]
        BY <2>7, <3>1, <3>3, OneRow DEF VoteArrives
      <4>2. Counted(s)' = Counted(s)
        BY <3>1, <3>3 DEF Counted, On
      <4> QED BY <2>4, <3>1, <4>1, <4>2
    <3> QED BY <3>2, <3>3
  <2>8. ASSUME NEW n \in Annotation, MeasureArrives(n) PROVE Real(s)'
    <3>1. Counted(s)' = Counted(s)
      BY <2>8 DEF MeasureArrives, Counted, On
    <3> QED BY <2>4, <2>8, <3>1 DEF MeasureArrives
  <2>9. CASE QueueRepairs
    <3>1. CASE segment'[s] = segment[s]
      BY <2>3, <2>4, <2>9, <3>1 DEF QueueRepairs
    <3>2. CASE InQueue(segment[s]) /\ RepairedFrom(segment'[s], segment[s], On(s))
      <4>1. On(s) = Counted(s)
        <5>1. ~segment[s].pool
          BY <3>2 DEF PoolsAreSettled
        <5> QED BY <5>1 DEF PoolsAreSettled, On, Counted
      <4>2. segment'[s].votes = Votes(Counted(s))
        BY <3>2, <4>1 DEF RepairedFrom
      <4>3. Counted(s)' = Counted(s)
        BY <2>3, <2>9 DEF QueueRepairs
      <4> QED BY <4>2, <4>3 DEF Votes
    <3> QED BY <2>9, <3>1, <3>2 DEF QueueRepairs
  <2>10. ASSUME NEW ids \in SUBSET SegmentIds, NEW a \in BOOLEAN, Decides(ids, a)
         PROVE  Real(s)'
    <3>1. Signs(ids, a) /\ Counted(s)' = Counted(s)
      BY <2>3, <2>10 DEF Decides
    <3>2. CASE s \notin ids
      BY <2>4, <2>10, <3>1, <3>2, Signed DEF Decides
    <3>3. CASE s \in ids
      <4>1. DecidedFrom(segment'[s], segment[s], a) /\ audit'[s] # <<>>
        BY <2>10, <3>1, <3>3, Signed DEF Decides
      <4>2. segment'[s].votes = 0 \/ segment'[s].votes = segment[s].votes
        BY <4>1 DEF DecidedFrom
      <4> QED BY <2>2, <3>1, <4>1, <4>2 DEF Votes
    <3> QED BY <3>2, <3>3
  <2>11. ASSUME NEW q \in SegmentIds, ShoreChanges(q) PROVE Real(s)'
    <3>1. segment'[s].votes = segment[s].votes
      BY <2>11, OneRow DEF ShoreChanges, SameIn, Judged
    <3> QED BY <2>3, <2>4, <2>11, <3>1 DEF ShoreChanges
  <2>12. ASSUME NEW u \in Users, AccountRemoved(u) PROVE FALSE
    BY <1>1, <2>12 DEF AccountRemoved
  <2> QED BY <2>5, <2>6, <2>7, <2>8, <2>9, <2>10, <2>11, <2>12 DEF Effect
<1>2. ASSUME NEW u \in Users, u \notin deleted'
      PROVE  user'[u].count = Cardinality(Of(u))'
  <2>1. u \notin deleted
    BY <1>2 DEF Effect, tables, TimePasses, AccountRemoved, CreateEvent, VoteArrives,
       MeasureArrives, QueueRepairs, Decides, ShoreChanges
  <2>2. user[u].count = Cardinality(Of(u))
    BY <2>1 DEF TalliesAreReal
  <2>3. UNCHANGED annotations => Of(u)' = Of(u)
    BY DEF Of
  <2>4. CASE UNCHANGED <<user, annotations>>
    BY <2>2, <2>3, <2>4
  <2>5. ASSUME NEW v \in Users, AccountRemoved(v)
        PROVE  user'[u].count = Cardinality(Of(u))'
    <3>1. u # v
      BY <1>2, <2>5 DEF AccountRemoved
    <3>2. user'[u] = user[u]
      BY <2>5, <3>1 DEF AccountRemoved, TInv, TypeOK
    <3>3. Of(u)' = Of(u)
      BY <2>5, <3>1 DEF AccountRemoved, Of
    <3> QED BY <2>2, <3>2, <3>3
  <2>6. ASSUME NEW n \in Annotation, VoteArrives(n) \/ MeasureArrives(n),
               ProfileCounts(n)
        PROVE  user'[u].count = Cardinality(Of(u))'
    <3>1. n.user \in Users /\ annotations' = annotations \cup {n} /\ n \notin annotations
      BY <2>6 DEF Annotation, VoteArrives, MeasureArrives
    <3>2. PICK w \in UserRow : /\ user' = [user EXCEPT ![n.user] = w]
                              /\ w.count = Cardinality(Of(n.user)) + 1
      BY <2>6 DEF ProfileCounts
    <3>3. CASE u = n.user
      <4>1. user'[u].count = Cardinality(Of(u)) + 1
        BY <3>1, <3>2, <3>3 DEF TInv, TypeOK
      <4>2. Of(u)' = Of(u) \cup {n}
        BY <3>1, <3>3 DEF Of
      <4>3. Of(u) \in SUBSET annotations /\ n \notin Of(u)
        BY <3>1 DEF Of
      <4>4. Cardinality(Of(u) \cup {n}) = Cardinality(Of(u)) + 1
        BY <4>3, OneMoreAnnotation DEF TInv
      <4> QED BY <4>1, <4>2, <4>4
    <3>4. CASE u # n.user
      <4>1. user'[u] = user[u]
        BY <3>1, <3>2, <3>4 DEF TInv, TypeOK
      <4>2. Of(u)' = Of(u)
        BY <3>1, <3>4 DEF Of
      <4> QED BY <2>2, <4>1, <4>2
    <3> QED BY <3>3, <3>4
  <2>7. ASSUME NEW ids \in SUBSET SegmentIds, NEW a \in BOOLEAN, Decides(ids, a)
        PROVE  user'[u].count = Cardinality(Of(u))'
    BY <2>2, <2>3, <2>7 DEF Decides
  <2> QED BY <2>4, <2>5, <2>6, <2>7
          DEF Effect, tables, TimePasses, CreateEvent, QueueRepairs, ShoreChanges
<1> QED BY <1>1, <1>2 DEF TalliesAreReal

LEMMA InitHolds == Init => Fresh /\ SInv
<1> SUFFICES ASSUME Init PROVE Fresh /\ SInv
  OBVIOUS
<1>1. Fresh
  BY DEF Init, Fresh, FreshSlot, Idle
<1>2. ASSUME NEW s \in SegmentIds
      PROVE  /\ segment[s].index = IndexOf(segment[s])
             /\ ~segment[s].pool /\ ~segment[s].queued /\ ~segment[s].verified
             /\ segment[s].votes = 0
  <2> DEFINE first == [s |-> FirstSignal, c |-> 0, t |-> 0, a |-> Access[s],
               index |-> 0, since |-> 0, votes |-> 0, queued |-> FALSE,
               verified |-> FALSE, status |-> "watch", pool |-> FALSE,
               truth |-> NoVerdict, type |-> NoVerdict]
  <2>1. first \in Row
    BY SegmentsAssumption DEF Row, Factor, Statuses
  <2>2. segment[s] = Recalculate(first)
    BY DEF Init, NewSegment
  <2> QED BY <2>1, <2>2, RecalculatedRow DEF Kept
<1>3. \A s : Counted(s) = {} /\ Of(s) = {}
  BY DEF Init, Counted, On, Of
<1>4. IndexIsFormula
  BY <1>2 DEF IndexIsFormula, IndexOf
<1>5. AuditTellsVerified /\ TripsAreFounded /\ PoolsAreSettled
  BY <1>2 DEF Init, AuditTellsVerified, TripsAreFounded, PoolsAreSettled
<1>6. QueuedIffAgreed
  BY <1>2, <1>3, NobodyIsNotEnough DEF QueuedIffAgreed
<1>7. TalliesAreReal
  BY <1>2, <1>3, NobodyIsNotEnough, FS_EmptySet DEF Init, TalliesAreReal, NewUser
<1> QED BY <1>1, <1>4, <1>5, <1>6, <1>7 DEF SInv

LEMMA EffectKeeps ==
  ASSUME TInv, SInv, Effect
  PROVE  SInv'
BY IndexStep, AuditStep, TripsStep, PoolsStep, AgreementStep, TalliesStep DEF SInv

LEMMA StepHolds ==
  ASSUME OneAtATime, TInv, Fresh, SInv, [Next]_vars
  PROVE  TInv' /\ Fresh' /\ SInv'
BY StepTypes, FreshStep, Effects, EffectKeeps

LEMMA AlwaysHolds == OneAtATime /\ Spec => [](TInv /\ Fresh /\ SInv)
<1> SUFFICES ASSUME OneAtATime PROVE Spec => [](TInv /\ Fresh /\ SInv)
  OBVIOUS
<1>1. TInv /\ Fresh /\ SInv /\ [Next]_vars => (TInv /\ Fresh /\ SInv)'
  BY StepHolds
<1> QED BY <1>1, InitTypes, InitHolds, PTL DEF Spec

(* One after the other, the handlers leave the stored index the formula of *)
(* the stored factors, whatever they change.                               *)
THEOREM IndexIsCurrent == OneAtATime /\ Spec => []IndexIsFormula
<1>1. SInv => IndexIsFormula
  BY DEF SInv
<1> QED BY <1>1, AlwaysHolds, PTL

(* The last entry of the audit log tells whether a segment is confirmed.   *)
THEOREM AuditIsTrue == OneAtATime /\ Spec => []AuditTellsVerified
<1>1. SInv => AuditTellsVerified
  BY DEF SInv
<1> QED BY <1>1, AlwaysHolds, PTL

(* A segment nobody has decided on is queued exactly when enough votes     *)
(* agree.                                                                  *)
THEOREM QueueIsAgreement == OneAtATime /\ Spec => []QueuedIffAgreed
<1>1. SInv => QueuedIffAgreed
  BY DEF SInv
<1> QED BY <1>1, AlwaysHolds, PTL

(* Votes and profiles count the annotations there are.                     *)
THEOREM TalliesCount == OneAtATime /\ Spec => []TalliesAreReal
<1>1. SInv => TalliesAreReal
  BY DEF SInv
<1> QED BY <1>1, AlwaysHolds, PTL

-----------------------------------------------------------------------------
(* What a step may never do. *)

(* Annotations come and go with these effects alone, and none of them      *)
(* touches the row of a confirmed segment.                                 *)
LEMMA ClosedStep ==
  ASSUME TInv, Effect, NEW s \in SegmentIds, segment[s].verified, On(s)' # On(s)
  PROVE  segment'[s] = segment[s]
<1>1. annotations' # annotations
  BY DEF On
<1>2. ASSUME NEW n \in Annotation, VoteArrives(n) PROVE segment'[s] = segment[s]
  <2>1. n.segment \in SegmentIds /\ n.segment # s
    BY <1>2 DEF Annotation, VoteArrives
  <2> QED BY <1>2, <2>1, OneRow DEF VoteArrives
<1> QED BY <1>1, <1>2 DEF Effect, tables, TimePasses, CreateEvent, QueueRepairs,
        Decides, ShoreChanges, MeasureArrives, AccountRemoved

(* A confirmed segment is closed to the annotators.                        *)
THEOREM ConfirmedIsClosed == OneAtATime /\ Spec => VerifiedIsClosed
<1>1. TInv /\ Fresh /\ SInv /\ [Next]_vars =>
        [\A s \in SegmentIds :
           segment[s].verified /\ On(s)' # On(s) => segment'[s] = segment[s]]_vars
  BY Effects, ClosedStep
<1> QED BY <1>1, AlwaysHolds, PTL DEF Spec, VerifiedIsClosed

LEMMA RatedStep ==
  ASSUME TInv, Effect, NEW u \in Users, u \notin deleted'
  PROVE  user'[u].reputation \in
           {user[u].reputation, AdjustReputation(user[u].reputation, TRUE),
            AdjustReputation(user[u].reputation, FALSE)}
<1>0. user \in [Users -> UserRow]
  BY DEF TInv, TypeOK
<1>1. ASSUME NEW n \in Annotation, ProfileCounts(n)
      PROVE  user'[u].reputation = user[u].reputation
  BY <1>0, <1>1 DEF ProfileCounts
<1>2. ASSUME NEW ids \in SUBSET SegmentIds, NEW a \in BOOLEAN, Decides(ids, a)
      PROVE  user'[u].reputation \in
               {user[u].reputation, AdjustReputation(user[u].reputation, a)}
  BY <1>2 DEF Decides
<1>3. ASSUME NEW w \in Users, AccountRemoved(w) PROVE user'[u] = user[u]
  <2>1. w # u
    BY <1>3 DEF AccountRemoved
  <2> QED BY <1>0, <1>3, <2>1 DEF AccountRemoved
<1> QED BY <1>1, <1>2, <1>3 DEF Effect, tables, TimePasses, CreateEvent,
        QueueRepairs, ShoreChanges

(* No decision rates an annotator twice, over however many segments.       *)
THEOREM DecisionRatesOnce == OneAtATime /\ Spec => RatedOnce
<1>1. TInv /\ Fresh /\ SInv /\ [Next]_vars =>
        [\A u \in Users \ deleted' : user'[u].reputation \in
           {user[u].reputation, AdjustReputation(user[u].reputation, TRUE),
            AdjustReputation(user[u].reputation, FALSE)}]_vars
  BY Effects, RatedStep
<1> QED BY <1>1, AlwaysHolds, PTL DEF Spec, RatedOnce

-----------------------------------------------------------------------------
(* Segments implements SegmentLife: the effects are its actions. *)

LEMMA LifeInit == Init => Life!Init
<1> SUFFICES ASSUME Init PROVE Life!Init
  OBVIOUS
<1>1. ASSUME NEW s \in SegmentIds
      PROVE  segment[s].status = "watch" /\ segment[s].verified = FALSE
  <2> DEFINE first == [s |-> FirstSignal, c |-> 0, t |-> 0, a |-> Access[s],
               index |-> 0, since |-> 0, votes |-> 0, queued |-> FALSE,
               verified |-> FALSE, status |-> "watch", pool |-> FALSE,
               truth |-> NoVerdict, type |-> NoVerdict]
  <2>1. first \in Row
    BY SegmentsAssumption DEF Row, Factor, Statuses
  <2>2. segment[s] = Recalculate(first)
    BY DEF Init, NewSegment
  <2> QED BY <2>1, <2>2, RecalculatedRow DEF Kept
<1> QED BY <1>1 DEF Init, Life!Init

LEMMA LifeStutters ==
  ASSUME UNCHANGED audit,
         \A s \in SegmentIds : /\ segment'[s].status = segment[s].status
                               /\ segment'[s].verified = segment[s].verified
  PROVE  UNCHANGED Life!lvars
BY DEF Life!lvars

LEMMA VoteSuspects ==
  ASSUME TInv, NEW n \in Annotation, VoteArrives(n)
  PROVE  [Life!Next]_(Life!lvars)
<1> DEFINE q == n.segment
<1>1. q \in SegmentIds
  BY DEF Annotation
<1>2. PICK z \in Row : /\ segment' = [segment EXCEPT ![q] = z]
                      /\ AgreedFrom(z, segment[q], Counted(q) \cup {n})
  BY DEF VoteArrives
<1>3. segment'[q] = z /\ \A s \in SegmentIds \ {q} : segment'[s] = segment[s]
  BY <1>1, <1>2, OneRow
<1>4. z.verified = segment[q].verified /\ ~segment[q].verified /\ UNCHANGED audit
  BY <1>2 DEF AgreedFrom, SameIn, VoteArrives
<1>5. CASE z.status = segment[q].status
  BY <1>3, <1>4, <1>5, LifeStutters
<1>6. CASE z.status # segment[q].status
  <2>1. segment[q].status = "watch" /\ z.status = "problem"
    BY <1>2, <1>6 DEF AgreedFrom
  <2>2. Life!Suspect(q)
    BY <1>1, <1>3, <1>4, <2>1 DEF Life!Suspect
  <2> QED BY <1>1, <2>2 DEF Life!Next
<1> QED BY <1>5, <1>6

LEMMA RepairWithdraws ==
  ASSUME TInv, QueueRepairs
  PROVE  [Life!Next]_(Life!lvars)
<1>0. PICK S \in SUBSET SegmentIds : \A s \in SegmentIds :
        s \in S <=> segment'[s].status # segment[s].status
  <2>1. {s \in SegmentIds : segment'[s].status # segment[s].status}
          \in SUBSET SegmentIds
    OBVIOUS
  <2> QED BY <2>1
<1>1. ASSUME NEW s \in SegmentIds
      PROVE  /\ segment'[s].verified = segment[s].verified
             /\ s \in S => segment'[s].status = "watch" /\ ~segment[s].verified
  BY <1>0 DEF QueueRepairs, RepairedFrom, SameIn, InQueue
<1>2. UNCHANGED audit
  BY DEF QueueRepairs
<1>3. Life!Withdraw(S)
  BY <1>0, <1>1, <1>2 DEF Life!Withdraw
<1> QED BY <1>3 DEF Life!Next

LEMMA DecisionSettles ==
  ASSUME TInv, NEW ids \in SUBSET SegmentIds, NEW a \in BOOLEAN, Decides(ids, a)
  PROVE  Life!Next
<1>1. ASSUME NEW s \in SegmentIds
      PROVE  /\ segment'[s].status =
                  IF s \in ids THEN IF a THEN "work" ELSE "watch"
                               ELSE segment[s].status
             /\ segment'[s].verified = IF s \in ids THEN a ELSE segment[s].verified
  BY DEF Decides, DecidedFrom
<1>2. Signs(ids, a)
  BY DEF Decides
<1>3. Life!Settle(ids, a)
  BY <1>1, <1>2 DEF Life!Settle, Signs
<1> QED BY <1>3 DEF Life!Next

LEMMA ShoreCleans ==
  ASSUME TInv, TripsAreFounded, NEW q \in SegmentIds, ShoreChanges(q)
  PROVE  [Life!Next]_(Life!lvars)
<1>1. PICK z \in Row :
        /\ segment' = [segment EXCEPT ![q] = z]
        /\ SameIn(z, segment[q], Judged)
        /\ z.status = segment[q].status \/ (q \in trips /\ z.status = "clean")
  BY DEF ShoreChanges
<1>2. segment'[q] = z /\ \A s \in SegmentIds \ {q} : segment'[s] = segment[s]
  BY <1>1, OneRow
<1>3. z.verified = segment[q].verified /\ UNCHANGED audit
  BY <1>1 DEF SameIn, Judged, ShoreChanges
<1>4. CASE z.status = segment[q].status
  BY <1>2, <1>3, <1>4, LifeStutters
<1>5. CASE q \in trips /\ z.status = "clean"
  <2>1. \E i \in DOMAIN audit[q] : audit[q][i] = "approved"
    BY <1>5 DEF TripsAreFounded, ConfirmedOnce
  <2>2. Life!CleanUp(q)
    BY <1>2, <1>3, <1>5, <2>1 DEF Life!CleanUp
  <2> QED BY <2>2 DEF Life!Next
<1> QED BY <1>1, <1>4, <1>5

LEMMA LifeStep ==
  ASSUME TInv, TripsAreFounded, Effect
  PROVE  [Life!Next]_(Life!lvars)
<1>1. CASE UNCHANGED <<segment, audit>>
  BY <1>1, LifeStutters
<1>2. CASE TimePasses
  <2>1. \A s \in SegmentIds : /\ segment'[s].status = segment[s].status
                              /\ segment'[s].verified = segment[s].verified
    BY <1>2, DaysPass DEF Kept
  <2> QED BY <1>2, <2>1, LifeStutters DEF TimePasses
<1> QED BY <1>1, <1>2, VoteSuspects, RepairWithdraws, DecisionSettles, ShoreCleans
        DEF Effect, tables, AccountRemoved, CreateEvent, MeasureArrives

(* The life of a segment is that of SegmentLife: only annotators who agree *)
(* raise a suspicion, only an inspector settles it and signs, and a shore  *)
(* is clean only after a confirmation.                                     *)
THEOREM SegmentsImplementLife == OneAtATime /\ Spec => ImplementsLife
<1>1. TInv /\ Fresh /\ SInv /\ [Next]_vars => [Life!Next]_(Life!lvars)
  BY Effects, LifeStep DEF SInv
<1> QED BY <1>1, LifeInit, AlwaysHolds, PTL DEF Spec, ImplementsLife, Life!Spec
=============================================================================
