------------------------- MODULE PaperSessionProofs -------------------------
(***************************************************************************)
(* Proofs about PaperSession and PaperReadiness, for all markets, batches  *)
(* of risk events, bars, cost models, quotes and any number of days.       *)
(*                                                                         *)
(* The replay's lemmas are EventTimeReplayProofs', taken for a day's call. *)
(* What the session adds is the dealing out of the results to the events   *)
(* (Positions), and sums over the events selected for a list (SumAdds).    *)
(***************************************************************************)
EXTENDS PaperReadiness, FiniteSetTheorems, WellFoundedInduction, TLAPS

Sim == INSTANCE EventTimeReplayProofs WITH
  IntentSequences <- {ApprovedIntents(b) : b \in Batches},
  bars <- call.bars, intents <- ApprovedIntents(call.batch), cost <- call.cost,
  account <- call.funded, outcome <- stage, state <- gateway

-----------------------------------------------------------------------------
(* Numbers.  UpToBound is induction without an operator parameter. *)

\* A set of naturals has a least member, "<" being well-founded.
LEMMA LeastNatural ==
  ASSUME NEW S \in SUBSET Nat, S # {}
  PROVE  \E m \in S : \A n \in S : m <= n
<1> DEFINE R == OpToRel(<, Nat)
<1>1. IsWellFoundedOn(R, Nat)
  BY NatLessThanWellFounded
<1>2. \A x, y \in Nat : x < y => <<x, y>> \in R
  BY DEF OpToRel
<1> HIDE DEF R
<1>3. PICK m \in S : \A n \in S : ~ (<<n, m>> \in R)
  BY <1>1, WFMin
<1>4. m \in Nat /\ \A n \in S : n \in Nat /\ ~ (n < m)
  BY <1>2, <1>3
<1> QED BY <1>4

\* Induction up to a bound, over a set: the least number it misses is neither
\* 0 nor a successor.
LEMMA UpToBound ==
  ASSUME NEW bound \in Nat, NEW Good, 0 \in Good,
         \A n \in 0..(bound - 1) : n \in Good => n + 1 \in Good
  PROVE  \A n \in 0..bound : n \in Good
<1> DEFINE missed == {n \in 0..bound : n \notin Good}
<1> SUFFICES ASSUME missed # {} PROVE FALSE
  OBVIOUS
<1>1. PICK m \in missed : \A n \in missed : m <= n
  <2>1. missed \in SUBSET Nat
    OBVIOUS
  <2> HIDE DEF missed
  <2> QED BY <2>1, LeastNatural
<1>2. m # 0 /\ m \in Nat /\ m \notin Good /\ m <= bound
  OBVIOUS
<1>3. m - 1 \in 0..(bound - 1) /\ m - 1 \notin missed
  BY <1>1, <1>2
<1>4. m - 1 \in Good
  BY <1>2, <1>3
<1>5. (m - 1) + 1 \in Good
  BY <1>3, <1>4
<1> QED BY <1>2, <1>5

-----------------------------------------------------------------------------
(* Sums. *)

Choice(s) == CHOOSE x \in s : TRUE

\* The recursion by which SumFunctionOnSet adds up.
IsSum(sum, f, S) ==
  sum = [s \in SUBSET S |-> IF s = {} THEN 0 ELSE f[Choice(s)] + sum[s \ {Choice(s)}]]

LEMMA ChoiceIn == ASSUME NEW s, s # {} PROVE Choice(s) \in s
<1> QED BY DEF Choice

\* Taking a member away leaves one less.
LEMMA OneLess ==
  ASSUME NEW S, IsFiniteSet(S), NEW s \in SUBSET S, NEW x \in s
  PROVE  /\ s \ {x} \in SUBSET S /\ IsFiniteSet(s)
         /\ Cardinality(s) \in Nat \ {0} /\ Cardinality(s \ {x}) = Cardinality(s) - 1
<1>1. IsFiniteSet(s)
  BY FS_Subset
<1>2. Cardinality(s \ {x}) = Cardinality(s) - 1
  BY <1>1, FS_RemoveElement
<1>3. Cardinality(s) \in Nat /\ Cardinality(s) # 0
  BY <1>1, FS_CardinalityType, FS_EmptySet
<1> QED BY <1>1, <1>2, <1>3

\* The recursion has a solution, smaller sets first.
LEMMA SumExists ==
  ASSUME NEW S, IsFiniteSet(S), NEW f
  PROVE  \E sum : IsSum(sum, f, S)
<1> DEFINE Solves(g, n) ==
             \A s \in SUBSET S : Cardinality(s) <= n =>
               g[s] = IF s = {} THEN 0 ELSE f[Choice(s)] + g[s \ {Choice(s)}]
           Good == {n \in 0..Cardinality(S) : \E g : Solves(g, n)}
<1>1. \A s \in SUBSET S : /\ IsFiniteSet(s) /\ Cardinality(s) \in Nat
                          /\ Cardinality(s) <= Cardinality(S)
                          /\ (Cardinality(s) = 0 <=> s = {})
  BY FS_Subset, FS_CardinalityType, FS_EmptySet
<1>2. Cardinality(S) \in Nat
  BY FS_CardinalityType
<1>3. 0 \in Good
  <2>1. Solves([s \in SUBSET S |-> 0], 0)
    <3> SUFFICES ASSUME NEW s \in SUBSET S, Cardinality(s) <= 0 PROVE s = {}
      OBVIOUS
    <3> QED BY <1>1
  <2> HIDE DEF Solves
  <2> QED BY <1>2, <2>1
<1>4. ASSUME NEW n \in 0..(Cardinality(S) - 1), n \in Good PROVE n + 1 \in Good
  <2>1. PICK g : Solves(g, n)
    BY <1>4
  <2> DEFINE h == [s \in SUBSET S |-> IF Cardinality(s) <= n THEN g[s]
                                      ELSE f[Choice(s)] + g[s \ {Choice(s)}]]
  <2>2. ASSUME NEW s \in SUBSET S, Cardinality(s) <= n + 1
        PROVE  h[s] = IF s = {} THEN 0 ELSE f[Choice(s)] + h[s \ {Choice(s)}]
    <3>1. CASE s = {}
      <4>1. Cardinality(s) <= n
        BY <1>1, <3>1
      <4>2. h[s] = g[s]
        BY <4>1
      <4> QED BY <2>1, <3>1, <4>1, <4>2
    <3>2. CASE s # {}
      <4> DEFINE less == s \ {Choice(s)}
      <4>1. Choice(s) \in s
        BY <3>2, ChoiceIn
      <4>2. less \in SUBSET S /\ Cardinality(less) = Cardinality(s) - 1
            /\ Cardinality(s) \in Nat
        BY <4>1, OneLess
      <4>3. Cardinality(less) <= n
        BY <2>2, <4>2
      <4>4. h[less] = g[less]
        BY <4>2, <4>3
      <4>5. h[s] = f[Choice(s)] + g[less]
        <5>1. CASE Cardinality(s) <= n
          <6>1. h[s] = g[s]
            BY <5>1
          <6> QED BY <2>1, <3>2, <5>1, <6>1
        <5>2. CASE ~ (Cardinality(s) <= n)
          BY <5>2
        <5> QED BY <5>1, <5>2
      <4> QED BY <3>2, <4>4, <4>5
    <3> QED BY <3>1, <3>2
  <2>3. Solves(h, n + 1)
    <3> HIDE DEF h
    <3> QED BY <2>2
  <2> HIDE DEF Solves
  <2> QED BY <1>2, <2>3
<1>5. Cardinality(S) \in Good
  <2> HIDE DEF Good
  <2>1. \A n \in 0..Cardinality(S) : n \in Good
    BY <1>2, <1>3, <1>4, UpToBound
  <2> QED BY <1>2, <2>1
<1>6. PICK g : Solves(g, Cardinality(S))
  BY <1>5
<1> DEFINE sum == [s \in SUBSET S |-> g[s]]
<1>7. \A s \in SUBSET S : sum[s] = IF s = {} THEN 0 ELSE f[Choice(s)] + sum[s \ {Choice(s)}]
  BY <1>1, <1>6
<1>8. IsSum(sum, f, S)
  BY <1>7 DEF IsSum
<1> QED BY <1>8

\* What SumFunctionOnSet is: the value its recursion has at the whole set.
LEMMA SumIs ==
  ASSUME NEW S, IsFiniteSet(S), NEW f
  PROVE  \E sum : IsSum(sum, f, S) /\ SumFunctionOnSet(f, S) = sum[S]
<1> DEFINE sum == CHOOSE g : IsSum(g, f, S)
<1>1. IsSum(sum, f, S)
  BY SumExists
<1>2. SumFunctionOnSet(f, S) = sum[S]
  BY DEF SumFunctionOnSet, FoldFunctionOnSet, MapThenFoldSet, IsSum, Choice
<1> QED BY <1>1, <1>2

\* Whichever member comes first.
LEMMA SumAnyFirst ==
  ASSUME NEW S, IsFiniteSet(S), NEW f, \A x \in S : f[x] \in Int, NEW sum, IsSum(sum, f, S)
  PROVE  \A s \in SUBSET S : sum[s] \in Int /\ \A x \in s : sum[s] = f[x] + sum[s \ {x}]
<1> DEFINE Adds(s) == sum[s] \in Int /\ \A x \in s : sum[s] = f[x] + sum[s \ {x}]
           Good == {n \in 0..Cardinality(S) :
                      \A s \in SUBSET S : Cardinality(s) <= n => Adds(s)}
<1>1. \A s \in SUBSET S : /\ IsFiniteSet(s) /\ Cardinality(s) \in Nat
                          /\ Cardinality(s) <= Cardinality(S)
                          /\ (Cardinality(s) = 0 <=> s = {})
  BY FS_Subset, FS_CardinalityType, FS_EmptySet
<1>2. Cardinality(S) \in Nat
  BY FS_CardinalityType
<1>3. \A s \in SUBSET S : sum[s] = IF s = {} THEN 0 ELSE f[Choice(s)] + sum[s \ {Choice(s)}]
  BY DEF IsSum
<1>4. 0 \in Good
  <2> SUFFICES ASSUME NEW s \in SUBSET S, Cardinality(s) <= 0 PROVE Adds(s)
    BY <1>2
  <2>1. s = {}
    BY <1>1
  <2>2. sum[s] = 0
    BY <1>3, <2>1
  <2> QED BY <2>1, <2>2
<1>5. ASSUME NEW n \in 0..(Cardinality(S) - 1), n \in Good PROVE n + 1 \in Good
  <2> SUFFICES ASSUME NEW s \in SUBSET S, Cardinality(s) <= n + 1 PROVE Adds(s)
    <3> HIDE DEF Adds
    <3> QED BY <1>2
  <2>1. CASE s = {}
    BY <1>3, <2>1
  <2>2. CASE s # {}
    <3> DEFINE c == Choice(s)
    <3>1. c \in s /\ f[c] \in Int
      BY <2>2, ChoiceIn
    <3>2. ASSUME NEW x \in s PROVE s \ {x} \in SUBSET S /\ Adds(s \ {x})
      <4>1. s \ {x} \in SUBSET S /\ Cardinality(s \ {x}) = Cardinality(s) - 1
            /\ Cardinality(s) \in Nat
        BY OneLess
      <4>2. Cardinality(s \ {x}) <= n
        BY <4>1
      <4> QED BY <1>5, <4>1, <4>2
    <3>3. sum[s] = f[c] + sum[s \ {c}]
      BY <1>3, <2>2
    <3>4. sum[s] \in Int
      <4>1. sum[s \ {c}] \in Int
        BY <3>1, <3>2
      <4> HIDE DEF c
      <4> QED BY <3>1, <3>3, <4>1
    <3>5. ASSUME NEW x \in s PROVE sum[s] = f[x] + sum[s \ {x}]
      <4>1. CASE x = c
        BY <3>3, <4>1
      <4>2. CASE x # c
        <5> HIDE DEF c
        <5>1. sum[s \ {c}] = f[x] + sum[(s \ {c}) \ {x}]
          <6>1. x \in s \ {c}
            BY <4>2
          <6> QED BY <3>1, <3>2, <6>1
        <5>2. sum[s \ {x}] = f[c] + sum[(s \ {x}) \ {c}]
          <6>1. c \in s \ {x}
            BY <3>1, <4>2
          <6> QED BY <3>2, <6>1
        <5>3. (s \ {c}) \ {x} = (s \ {x}) \ {c}
          OBVIOUS
        <5>4. sum[s \ {x}] \in Int /\ sum[s \ {c}] \in Int /\ f[x] \in Int
          BY <3>1, <3>2
        <5>5. sum[(s \ {c}) \ {x}] \in Int
          <6>1. (s \ {c}) \ {x} \in SUBSET S /\ Cardinality((s \ {c}) \ {x}) <= n
            <7>1. s \ {c} \in SUBSET S /\ x \in s \ {c}
              BY <3>1, <3>2, <4>2
            <7>2. Cardinality((s \ {c}) \ {x}) = Cardinality(s \ {c}) - 1
                  /\ Cardinality(s \ {c}) = Cardinality(s) - 1
                  /\ Cardinality(s) \in Nat
              BY <3>1, <7>1, OneLess
            <7> QED BY <7>1, <7>2
          <6> QED BY <1>5, <6>1
        <5>6. sum[s \ {x}] = f[c] + sum[(s \ {c}) \ {x}]
          BY <5>2, <5>3
        <5> QED BY <3>1, <3>3, <5>1, <5>4, <5>5, <5>6
      <4> QED BY <4>1, <4>2
    <3> QED BY <3>4, <3>5
  <2> QED BY <2>1, <2>2
<1>6. Cardinality(S) \in Good
  <2> HIDE DEF Good
  <2>1. \A n \in 0..Cardinality(S) : n \in Good
    BY <1>2, <1>4, <1>5, UpToBound
  <2> QED BY <1>2, <2>1
<1> QED BY <1>1, <1>6
-----------------------------------------------------------------------------
(* The approved intents of a batch. *)

Extended(list, e) == IF IsApproved(e) THEN Append(list, e.approved) ELSE list

IsUpTo(upto, batch, bound) ==
  upto = [n \in 0..bound |-> IF n = 0 THEN <<>> ELSE Extended(upto[n - 1], batch[n])]

LEMMA UpToExists ==
  ASSUME NEW batch, NEW bound \in Nat
  PROVE  \E upto : IsUpTo(upto, batch, bound)
<1> DEFINE Good == {n \in 0..bound : \E upto : IsUpTo(upto, batch, n)}
<1>1. 0 \in Good
  <2>1. IsUpTo([n \in 0..0 |-> <<>>], batch, 0)
    BY DEF IsUpTo
  <2> QED BY <2>1
<1>2. ASSUME NEW n \in 0..(bound - 1), n \in Good PROVE n + 1 \in Good
  <2>1. PICK upto : IsUpTo(upto, batch, n)
    BY <1>2
  <2> DEFINE longer == [k \in 0..(n + 1) |-> IF k = n + 1 THEN Extended(upto[n], batch[n + 1]) ELSE upto[k]]
  <2>2. \A k \in 0..n : upto[k] = IF k = 0 THEN <<>> ELSE Extended(upto[k - 1], batch[k])
    BY <2>1 DEF IsUpTo
  <2>3. \A k \in 0..(n + 1) : longer[k] = IF k = 0 THEN <<>> ELSE Extended(longer[k - 1], batch[k])
    BY <2>2
  <2>4. IsUpTo(longer, batch, n + 1)
    BY <2>3 DEF IsUpTo
  <2> QED BY <2>4
<1>3. \A n \in 0..bound : n \in Good
  <2> HIDE DEF Good
  <2> QED BY <1>1, <1>2, UpToBound
<1> QED BY <1>3

\* One event after the other: an approved one adds its intent.
LEMMA UpToStep ==
  ASSUME NEW batch, Len(batch) \in Nat
  PROVE  LET upto == ApprovedUpTo(batch)
         IN /\ upto[0] = <<>>
            /\ \A n \in 0..(Len(batch) - 1) : upto[n + 1] = Extended(upto[n], batch[n + 1])
<1> DEFINE upto == CHOOSE u : IsUpTo(u, batch, Len(batch))
<1>1. IsUpTo(upto, batch, Len(batch))
  BY UpToExists
<1>2. ApprovedUpTo(batch) = upto
  BY DEF ApprovedUpTo, IsUpTo, Extended
<1> HIDE DEF upto
<1>3. upto[0] = <<>>
  BY <1>1 DEF IsUpTo
<1>4. ASSUME NEW n \in 0..(Len(batch) - 1)
      PROVE  upto[n + 1] = Extended(upto[n], batch[n + 1])
  <2>1. n + 1 \in 0..Len(batch) /\ n + 1 # 0 /\ (n + 1) - 1 = n
    OBVIOUS
  <2> QED BY <1>1, <2>1 DEF IsUpTo
<1> QED BY <1>2, <1>3, <1>4

LEMMA BatchTyped ==
  ASSUME NEW batch \in Batches
  PROVE  /\ batch \in Seq(RiskEvents) /\ Len(batch) \in Nat /\ DOMAIN batch = 1..Len(batch)
         /\ \A i \in 1..Len(batch) :
              /\ batch[i] \in RiskEvents
              /\ batch[i].requested \in Simulator!OrderIntent
              /\ batch[i].approved \in Simulator!OrderIntent
<1>1. batch \in Seq(RiskEvents)
  BY RiskEventsAssumption
<1>2. \A i \in 1..Len(batch) : batch[i] \in RiskEvents
  BY <1>1
<1> QED BY <1>1, <1>2, RiskEventsAssumption

\* What is listed stays where it is: each list is the start of the later ones.
StartOf(u, v) ==
  Len(u) \in Nat /\ Len(u) <= Len(v) /\ \A k \in 1..Len(u) : v[k] = u[k]

LEMMA UpToTyped ==
  ASSUME NEW batch \in Batches
  PROVE  LET upto == ApprovedUpTo(batch)
         IN \A m \in 0..Len(batch) :
              /\ upto[m] \in Seq(Simulator!OrderIntent)
              /\ \A n \in 0..m : StartOf(upto[n], upto[m])
<1> DEFINE upto == ApprovedUpTo(batch)
           Good == {m \in 0..Len(batch) : /\ upto[m] \in Seq(Simulator!OrderIntent)
                                          /\ \A n \in 0..m : StartOf(upto[n], upto[m])}
<1>1. /\ upto[0] = <<>>
      /\ \A n \in 0..(Len(batch) - 1) : upto[n + 1] = Extended(upto[n], batch[n + 1])
  BY BatchTyped, UpToStep
<1>2. Len(batch) \in Nat
  BY BatchTyped
<1> HIDE DEF upto
<1>3. 0 \in Good
  <2>1. upto[0] \in Seq(Simulator!OrderIntent) /\ StartOf(upto[0], upto[0])
    BY <1>1 DEF StartOf
  <2> QED BY <1>2, <2>1
<1>4. ASSUME NEW m \in 0..(Len(batch) - 1), m \in Good PROVE m + 1 \in Good
  <2> DEFINE o == batch[m + 1].approved
  <2>1. m + 1 \in 1..Len(batch) /\ m + 1 \in 0..Len(batch)
    BY <1>2
  <2>2. o \in Simulator!OrderIntent
    BY <2>1, BatchTyped
  <2>3. upto[m] \in Seq(Simulator!OrderIntent) /\ \A n \in 0..m : StartOf(upto[n], upto[m])
    BY <1>4
  <2>4. upto[m + 1] = Append(upto[m], o) \/ upto[m + 1] = upto[m]
    BY <1>1 DEF Extended
  <2> HIDE DEF o
  <2>5. upto[m + 1] \in Seq(Simulator!OrderIntent) /\ StartOf(upto[m], upto[m + 1])
    <3> DEFINE Intents == Simulator!OrderIntent
    <3>1. upto[m] \in Seq(Intents) /\ o \in Intents
      BY <2>2, <2>3
    <3> HIDE DEF Intents
    <3>2. Append(upto[m], o) \in Seq(Intents) /\ StartOf(upto[m], Append(upto[m], o))
      BY <3>1 DEF StartOf
    <3>3. StartOf(upto[m], upto[m])
      BY <3>1 DEF StartOf
    <3>4. upto[m + 1] \in Seq(Intents) /\ StartOf(upto[m], upto[m + 1])
      BY <2>4, <3>1, <3>2, <3>3
    <3> QED BY <3>4 DEF Intents
  <2>6. StartOf(upto[m + 1], upto[m + 1])
    BY <2>5 DEF StartOf
  <2>7. ASSUME NEW n \in 0..m PROVE StartOf(upto[n], upto[m + 1])
    <3>1. n \in 0..Len(batch) /\ StartOf(upto[n], upto[m]) /\ StartOf(upto[m], upto[m + 1])
      BY <1>2, <2>3, <2>5
    <3>2. Len(upto[m]) \in Nat /\ Len(upto[m + 1]) \in Nat
      BY <2>3, <2>5
    <3> QED BY <3>1, <3>2 DEF StartOf
  <2>8. \A n \in 0..(m + 1) : StartOf(upto[n], upto[m + 1])
    BY <2>6, <2>7
  <2> QED BY <2>1, <2>5, <2>8
<1>5. \A m \in 0..Len(batch) : m \in Good
  <2> HIDE DEF Good
  <2> QED BY <1>2, <1>3, <1>4, UpToBound
<1> QED BY <1>5 DEF upto

\* Where _replay_results_by_risk_id finds the result of an approved event: at
\* its own intent.
LEMMA Positions ==
  ASSUME NEW batch \in Batches, NEW i \in 1..Len(batch), IsApproved(batch[i])
  PROVE  LET upto == ApprovedUpTo(batch)
         IN /\ Len(upto[i]) \in 1..Len(ApprovedIntents(batch))
            /\ ApprovedIntents(batch)[Len(upto[i])] = batch[i].approved
<1> DEFINE upto == ApprovedUpTo(batch)
           all == Len(batch)
<1>1. all \in Nat /\ i - 1 \in 0..(all - 1) /\ (i - 1) + 1 = i /\ i - 1 \in 0..all
      /\ i \in 0..all /\ all \in 0..all
  BY BatchTyped
<1>2. upto[i] = Append(upto[i - 1], batch[i].approved)
  BY <1>1, UpToStep DEF Extended
<1>3. /\ upto[i - 1] \in Seq(Simulator!OrderIntent) /\ upto[i] \in Seq(Simulator!OrderIntent)
      /\ upto[all] \in Seq(Simulator!OrderIntent) /\ StartOf(upto[i], upto[all])
  BY <1>1, UpToTyped
<1>4. ApprovedIntents(batch) = upto[all]
  BY DEF ApprovedIntents
<1>5. Len(upto[i]) \in 1..Len(upto[i]) /\ upto[i][Len(upto[i])] = batch[i].approved
  <2> DEFINE before == upto[i - 1]
  <2>1. Len(before) \in Nat
    BY <1>3
  <2> HIDE DEF before
  <2>2. Len(Append(before, batch[i].approved)) = Len(before) + 1
        /\ Append(before, batch[i].approved)[Len(before) + 1] = batch[i].approved
    <3>1. before \in Seq(Simulator!OrderIntent) /\ batch[i].approved \in Simulator!OrderIntent
      BY <1>3, BatchTyped DEF before
    <3> QED BY <3>1
  <2> QED BY <1>2, <2>1, <2>2 DEF before
<1>6. Len(upto[all]) \in Nat
  BY <1>3
<1> HIDE DEF upto, all
<1> QED BY <1>3, <1>4, <1>5, <1>6 DEF StartOf, upto
-----------------------------------------------------------------------------
(* The replay of a day's call. *)

CallTyped ==
  /\ call.batch \in Batches /\ call.bars \in BarSequences
  /\ call.cost \in {{}} \cup {{m} : m \in CostModels} /\ call.funded \in BOOLEAN

LEMMA ReplayAssumptions ==
  /\ Sim!OpeningAssumption /\ Sim!ScaleAssumption /\ Sim!BarsAssumption
  /\ Sim!IntentsAssumption /\ Sim!CostModelsAssumption
<1>1. Sim!OpeningAssumption /\ Sim!ScaleAssumption
  BY SimulatorAssumption DEF Sim!OpeningAssumption, Simulator!OpeningAssumption,
     Sim!ScaleAssumption, Simulator!ScaleAssumption, Sim!Assets, Simulator!Assets
<1>2. Sim!BarsAssumption
  BY SimulatorAssumption DEF Sim!BarsAssumption, Simulator!BarsAssumption,
     Sim!OHLCTVBar, Simulator!OHLCTVBar
<1>3. Sim!CostModelsAssumption
  BY SimulatorAssumption DEF Sim!CostModelsAssumption, Simulator!CostModelsAssumption,
     Sim!ExecutionCostModel, Simulator!ExecutionCostModel
<1>4. Sim!IntentsAssumption
  <2>1. \A batch \in Batches : ApprovedIntents(batch) \in Seq(Simulator!OrderIntent)
    <3> TAKE batch \in Batches
    <3>1. Len(batch) \in 0..Len(batch)
      BY BatchTyped
    <3> QED BY <3>1, UpToTyped DEF ApprovedIntents
  <2>2. Simulator!OrderIntent = Sim!OrderIntent
    BY DEF Simulator!OrderIntent, Sim!OrderIntent
  <2> QED BY <2>1, <2>2 DEF Sim!IntentsAssumption
<1> QED BY <1>1, <1>2, <1>3, <1>4

\* The replay PaperSession takes and the one the lemmas are about are one.
LEMMA SameReplay ==
  ASSUME NEW bs, NEW opening, NEW is
  PROVE  /\ Simulator!OrderIntent = Sim!OrderIntent /\ Simulator!Assets = Sim!Assets
         /\ Simulator!Model = Sim!Model
         /\ \A o : \A latency : Simulator!FillBar(bs, o, latency) = Sim!FillBar(bs, o, latency)
         /\ \A bar : \A i : \A o : \A q : Simulator!Filled(bar, i, o, q) = Sim!Filled(bar, i, o, q)
         /\ \A o : \A reason : Simulator!Unfilled(o, reason) = Sim!Unfilled(o, reason)
         /\ Simulator!States(bs, opening, is) = Sim!States(bs, opening, is)
<1>1. Simulator!OrderIntent = Sim!OrderIntent /\ Simulator!Assets = Sim!Assets
  BY DEF Simulator!OrderIntent, Sim!OrderIntent, Simulator!Assets, Sim!Assets
<1>2. Simulator!Model = Sim!Model
  BY DEF Simulator!Model, Sim!Model, Simulator!NoCost, Sim!NoCost
<1>3. \A b : \A o : \A latency : Simulator!FillBar(b, o, latency) = Sim!FillBar(b, o, latency)
  <2> TAKE b, o, latency
  <2>1. Simulator!Eligible(b, o) = Sim!Eligible(b, o)
    BY DEF Simulator!Eligible, Sim!Eligible
  <2>2. \A s : Simulator!Cardinality(s) = Sim!Cardinality(s)
    BY DEF Simulator!Cardinality, Sim!Cardinality, Simulator!IsFiniteSet, Sim!IsFiniteSet
  <2> QED BY <2>1, <2>2 DEF Simulator!FillBar, Sim!FillBar
<1>4. \A bar : \A i : \A o : \A q : Simulator!Filled(bar, i, o, q) = Sim!Filled(bar, i, o, q)
  BY <1>2 DEF Simulator!Filled, Sim!Filled
<1>5. \A o : \A reason : Simulator!Unfilled(o, reason) = Sim!Unfilled(o, reason)
  BY DEF Simulator!Unfilled, Sim!Unfilled
<1>6. \A bar : \A o : Simulator!ConstraintHolds(o, bar) = Sim!ConstraintHolds(o, bar)
  BY DEF Simulator!ConstraintHolds, Sim!ConstraintHolds
<1>7. \A bar : \A i : \A o : Simulator!AttemptOn(bar, i, o) = Sim!AttemptOn(bar, i, o)
  BY <1>2, <1>4, <1>5, <1>6 DEF Simulator!AttemptOn, Sim!AttemptOn
<1>8. \A b : \A o : Simulator!Attempt(b, o) = Sim!Attempt(b, o)
  <2> TAKE b, o
  <2>1. Simulator!FillBar(b, o, Simulator!Model.latency) = Sim!FillBar(b, o, Sim!Model.latency)
    BY <1>2, <1>3
  <2> QED BY <1>5, <1>7, <2>1 DEF Simulator!Attempt, Sim!Attempt
<1>9. \A s : \A o : \A r : Simulator!Balanced(s, o, r) = Sim!Balanced(s, o, r)
  <2> TAKE s, o, r
  <2>1. Simulator!IsFill(r) = Sim!IsFill(r)
    BY DEF Simulator!IsFill, Sim!IsFill
  <2>2. Simulator!Affordable(s.balances, o, r) = Sim!Affordable(s.balances, o, r)
    BY DEF Simulator!Affordable, Sim!Affordable
  <2>3. Simulator!Settled(s.balances, o, r) = Sim!Settled(s.balances, o, r)
    BY DEF Simulator!Settled, Sim!Settled
  <2> QED BY <1>5, <2>1, <2>2, <2>3 DEF Simulator!Balanced, Sim!Balanced
<1>10. \A b : \A s : \A o : Simulator!Replayed(b, s, o) = Sim!Replayed(b, s, o)
  BY <1>8, <1>9 DEF Simulator!Replayed, Sim!Replayed
<1>11. Simulator!States(bs, opening, is) = Sim!States(bs, opening, is)
  BY <1>10 DEF Simulator!States, Sim!States
<1> QED BY <1>1, <1>2, <1>3, <1>4, <1>5, <1>11

\* What a result of the day's replay can be: a fill on a bar of the order's
\* market, or nothing moved.
FillOn(bs, o, r) ==
  \E i \in 1..Len(bs), q \in 1..o.quantity :
    bs[i].market = o.market /\ r = Simulator!Filled(bs[i], i, o, q)

NoFill(o, r) == \E reason : r = Simulator!Unfilled(o, reason)

\* A running total of what the results moved of an asset.
Moves(sum, a, is, results) ==
  \A k \in 1..Len(is) : sum[k] = sum[k - 1] + Sim!Flow(a, is[k], results[k])

LEMMA DayReplay ==
  ASSUME CallTyped, desk \in [Simulator!Assets -> Nat]
  PROVE  LET is == ApprovedIntents(call.batch)
             replay == Replay(call.batch)
         IN /\ is \in Seq(Simulator!OrderIntent)
            /\ replay.balances \in [Simulator!Assets -> Nat]
            /\ Len(replay.results) = Len(is)
            /\ is = <<>> => replay.balances = desk
            /\ \A k \in 1..Len(is) :
                 FillOn(call.bars, is[k], replay.results[k]) \/ NoFill(is[k], replay.results[k])
            /\ call.funded => \A a \in Simulator!Assets :
                 \E sum : /\ sum[0] = desk[a] /\ Moves(sum, a, is, replay.results)
                          /\ replay.balances[a] = sum[Len(is)]
<1> DEFINE is == ApprovedIntents(call.batch)
           run == Sim!States(call.bars, desk, is)
           replay == Replay(call.batch)
<1>1. is \in Seq(Sim!OrderIntent) /\ Len(is) \in Nat
  <2>1. Len(call.batch) \in 0..Len(call.batch)
    BY BatchTyped DEF CallTyped
  <2>2. is \in Seq(Simulator!OrderIntent)
    BY <2>1, UpToTyped DEF ApprovedIntents, CallTyped
  <2> QED BY <2>2, SameReplay
<1>2. call.bars \in Seq(Sim!OHLCTVBar) /\ Sim!CostTyped
  BY ReplayAssumptions DEF CallTyped, Sim!CostTyped, Sim!BarsAssumption
<1>3. desk \in [Sim!Assets -> Nat]
  BY SameReplay
<1>4. replay = run[Len(is)]
  BY SameReplay DEF Replay
<1>5. Sim!Follows(run, call.bars, desk, is)
  BY <1>1, ReplayAssumptions, Sim!StatesFollow
<1> HIDE DEF is, run, replay
<1>6. Sim!Replayable(replay, call.bars, desk, is, Len(is))
  <2>1. \A n \in 0..Len(is) : Sim!Replayable(run[n], call.bars, desk, is, n)
    BY <1>1, <1>2, <1>3, <1>5, ReplayAssumptions, Sim!RunReplayable
  <2>2. Len(is) \in 0..Len(is)
    BY <1>1
  <2> QED BY <1>4, <2>1, <2>2
<1>7. /\ replay.balances \in [Sim!Assets -> Nat] /\ Len(replay.results) = Len(is)
      /\ \A k \in 1..Len(is) : replay.results[k] \in Sim!OutcomesOf(call.bars, is[k])
      /\ call.funded => \A a \in Sim!Assets :
           replay.balances[a] = Sim!Total(desk[a], Sim!Flows(a, is, replay.results))
  BY <1>6 DEF Sim!Replayable, Sim!RunStates
<1>8. ASSUME NEW k \in 1..Len(is)
      PROVE  FillOn(call.bars, is[k], replay.results[k]) \/ NoFill(is[k], replay.results[k])
  <2> DEFINE o == is[k]
             r == replay.results[k]
  <2>1. o \in Sim!OrderIntent /\ r \in Sim!OutcomesOf(call.bars, o)
    BY <1>1, <1>7
  <2> HIDE DEF o, r
  <2>2. \/ \E i \in Sim!FillBar(call.bars, o, Sim!Model.latency), q \in 1..o.quantity :
             r = Sim!Filled(call.bars[i], i, o, q)
        \/ \E reason : r = Sim!Unfilled(o, reason)
    BY <1>2, <2>1, ReplayAssumptions, Sim!OutcomeShape
  <2>3. \A i \in Sim!FillBar(call.bars, o, Sim!Model.latency) :
          i \in 1..Len(call.bars) /\ call.bars[i].market = o.market
    BY DEF Sim!FillBar, Sim!Eligible
  <2>4. FillOn(call.bars, o, r) \/ NoFill(o, r)
    BY <2>2, <2>3, SameReplay DEF FillOn, NoFill
  <2> QED BY <2>4 DEF o, r
<1>9. ASSUME call.funded, NEW a \in Sim!Assets
      PROVE  \E sum : /\ sum[0] = desk[a] /\ Moves(sum, a, is, replay.results)
                      /\ replay.balances[a] = sum[Len(is)]
  <2> DEFINE flows == Sim!Flows(a, is, replay.results)
  <2>1. Len(flows) = Len(is) /\ \A k \in 1..Len(is) : flows[k] = Sim!Flow(a, is[k], replay.results[k])
    BY <1>1, <1>7 DEF Sim!Flows
  <2> HIDE DEF flows
  <2>2. PICK sum : Sim!IsTotal(sum, desk[a], flows, Len(flows))
                   /\ Sim!Total(desk[a], flows) = sum[Len(flows)]
    BY <1>1, <2>1, ReplayAssumptions, Sim!TotalIs
  <2>3. sum[0] = desk[a] /\ \A k \in 1..Len(is) : sum[k] = sum[k - 1] + flows[k]
    BY <1>1, <2>1, <2>2 DEF Sim!IsTotal
  <2>4. replay.balances[a] = sum[Len(is)]
    BY <1>7, <1>9, <2>1, <2>2 DEF flows
  <2> QED BY <2>1, <2>3, <2>4 DEF Moves
<1>10. is = <<>> => replay.balances = desk
  BY <1>4, <1>5 DEF Sim!Follows
<1> QED BY <1>1, <1>7, <1>8, <1>9, <1>10, SameReplay DEF is, replay
-----------------------------------------------------------------------------
(* The events of a gateway report. *)

LEMMA CostFields ==
  ASSUME CallTyped
  PROVE  /\ Adverse = Simulator!Model.adverse /\ Adverse \in Nat /\ Adverse < Scale
         /\ Simulator!Model.fee \in Nat /\ Scale \in Nat \ {0}
         /\ call.cost = {} => Adverse = 0 /\ Simulator!Model.fee = 0
<1>1. Sim!Model \in Sim!ExecutionCostModel /\ Sim!Model.adverse < Scale
  BY ReplayAssumptions, Sim!ModelTyped DEF CallTyped, Sim!CostTyped
<1>2. Simulator!Model = Sim!Model
  BY SameReplay
<1>3. Adverse = Simulator!Model.adverse
  BY DEF Adverse, Simulator!Model, Simulator!NoCost
<1>4. call.cost = {} => Simulator!Model.fee = 0 /\ Simulator!Model.adverse = 0
  BY DEF Simulator!Model, Simulator!NoCost
<1> QED BY <1>1, <1>2, <1>3, <1>4, ReplayAssumptions DEF Sim!ExecutionCostModel, Sim!ScaleAssumption

MovesNothing(v) ==
  v.filled = 0 /\ v.notional = 0 /\ v.fee = 0 /\ v.reference = 0 /\ v.spread = 0

\* q of an order filled on bar i, at a price that is adverse by the rate.
FillEvent(v, o, i, q) ==
  LET price == call.bars[i].price
      rate == Scale + (IF o.side = "buy" THEN Adverse ELSE - Adverse)
  IN /\ call.bars[i].market = o.market /\ v.bar = i /\ v.filled = q
     /\ v.status = IF q = o.quantity THEN "filled" ELSE "partial"
     /\ v.notional = price * q * rate * Scale
     /\ v.fee = price * q * rate * Simulator!Model.fee
     /\ v.reference = price * q * Scale * Scale
     /\ v.spread = price * q * Scale * Adverse

\* All that the event of a risk check can be.
EventOf(v, e) ==
  /\ v.risk_id = e.id /\ v.decision = e.decision
  /\ \/ /\ ~ IsApproved(e) /\ v.order = e.requested
        /\ v.status = "blocked" /\ MovesNothing(v)
     \/ /\ IsApproved(e) /\ v.order = e.approved /\ v.result_id = e.approved.id
        /\ v.status \in {"rejected", "unfilled"} /\ MovesNothing(v)
     \/ /\ IsApproved(e) /\ v.order = e.approved /\ v.result_id = e.approved.id
        /\ \E i \in 1..Len(call.bars), q \in 1..e.approved.quantity : FillEvent(v, e.approved, i, q)

BatchEvent(i) == Lifecycle(call.batch, Replay(call.batch).results, i)

\* The result dealt out to an approved event is one its own order came to.
LEMMA OwnResult ==
  ASSUME CallTyped, desk \in [Simulator!Assets -> Nat],
         NEW i \in 1..Len(call.batch), IsApproved(call.batch[i])
  PROVE  LET o == call.batch[i].approved
             r == Evidence(call.batch, Replay(call.batch).results, i)
         IN o \in Simulator!OrderIntent /\ (FillOn(call.bars, o, r) \/ NoFill(o, r))
<1>1. call.batch \in Batches
  BY DEF CallTyped
<1> QED BY <1>1, BatchTyped, Positions, DayReplay DEF Evidence

LEMMA EventsShaped ==
  ASSUME CallTyped, desk \in [Simulator!Assets -> Nat], NEW i \in 1..Len(call.batch)
  PROVE  EventOf(BatchEvent(i), call.batch[i])
<1> DEFINE e == call.batch[i]
           v == BatchEvent(i)
           r == IF IsApproved(e) THEN Evidence(call.batch, Replay(call.batch).results, i)
                ELSE Blocked(e)
<1>1. v = [risk_id |-> e.id, decision |-> e.decision, order |-> GatewayOrder(e),
           result_id |-> r.id, status |-> IF IsApproved(e) THEN r.status ELSE "blocked",
           bar |-> r.bar, filled |-> r.quantity, notional |-> r.notional, fee |-> r.fee,
           reference |-> Reference(r) * Scale, spread |-> Reference(r) * Adverse]
  BY DEF BatchEvent, Lifecycle
<1>2. Adverse \in Nat /\ Scale \in Nat
  BY CostFields
<1>3. ASSUME NEW o, NEW reason, r = Simulator!Unfilled(o, reason)
      PROVE  /\ v.status \in {"blocked", "rejected", "unfilled"} /\ MovesNothing(v)
             /\ IsApproved(e) => v.status \in {"rejected", "unfilled"}
             /\ v.result_id = o.id
  <2>1. r = [id |-> o.id, reason |-> reason, bar |-> 0, quantity |-> 0, notional |-> 0, fee |-> 0,
             status |-> IF reason \in {"no_future_eligible_event", "insufficient_liquidity"}
                        THEN "unfilled" ELSE "rejected"]
    BY <1>3 DEF Simulator!Unfilled
  <2> HIDE DEF r
  <2>2. Reference(r) = 0
    BY <2>1 DEF Reference
  <2>3. Reference(r) * Scale = 0 /\ Reference(r) * Adverse = 0
    BY <1>2, <2>2
  <2> HIDE DEF v, e
  <2> QED BY <1>1, <2>1, <2>3 DEF MovesNothing
<1>4. CASE ~ IsApproved(e)
  <2>1. r = Simulator!Unfilled(e.requested, "risk")
    BY <1>4 DEF Blocked
  <2>2. MovesNothing(v)
    <3> HIDE DEF r, v
    <3> QED BY <1>3, <2>1
  <2>3. v.risk_id = e.id /\ v.decision = e.decision /\ v.order = e.requested /\ v.status = "blocked"
    <3> HIDE DEF r, v, e
    <3> QED BY <1>1, <1>4 DEF GatewayOrder
  <2>4. EventOf(v, e)
    <3> HIDE DEF v, e
    <3> QED BY <1>4, <2>2, <2>3 DEF EventOf
  <2> QED BY <2>4
<1>5. CASE IsApproved(e)
  <2> DEFINE o == e.approved
  <2>1. /\ r = Evidence(call.batch, Replay(call.batch).results, i)
        /\ o \in Simulator!OrderIntent
        /\ FillOn(call.bars, o, r) \/ NoFill(o, r)
    BY <1>5, OwnResult
  <2>2. v.risk_id = e.id /\ v.decision = e.decision /\ v.order = o
    <3> HIDE DEF r, v
    <3> QED BY <1>1, <1>5 DEF GatewayOrder
  <2>3. CASE NoFill(o, r)
    <3>1. PICK reason : r = Simulator!Unfilled(o, reason)
      BY <2>3 DEF NoFill
    <3>2. v.status \in {"rejected", "unfilled"} /\ MovesNothing(v) /\ v.result_id = o.id
      <4> HIDE DEF r, v
      <4> QED BY <1>3, <1>5, <3>1
    <3>3. EventOf(v, e)
      <4> HIDE DEF v
      <4> QED BY <1>5, <2>2, <3>2 DEF EventOf
    <3> QED BY <3>3
  <2>4. CASE FillOn(call.bars, o, r)
    <3>1. PICK k \in 1..Len(call.bars), q \in 1..o.quantity :
             call.bars[k].market = o.market /\ r = Simulator!Filled(call.bars[k], k, o, q)
      BY <2>4 DEF FillOn
    <3> DEFINE bar == call.bars[k]
               rate == Scale + (IF o.side = "buy" THEN Adverse ELSE - Adverse)
    <3>2. r = [id |-> o.id, status |-> IF q = o.quantity THEN "filled" ELSE "partial",
               reason |-> "none", bar |-> k, quantity |-> q,
               notional |-> bar.price * q * rate * Scale,
               fee |-> bar.price * q * rate * Simulator!Model.fee]
      BY <3>1, CostFields DEF Simulator!Filled
    <3> HIDE DEF r
    <3>3. Reference(r) = bar.price * q * Scale
      <4>1. k # 0
        OBVIOUS
      <4> QED BY <3>2, <4>1 DEF Reference
    <3>4. FillEvent(v, o, k, q)
      <4>1. /\ v.bar = k /\ v.filled = q /\ v.status = IF q = o.quantity THEN "filled" ELSE "partial"
            /\ v.notional = r.notional /\ v.fee = r.fee
            /\ v.reference = Reference(r) * Scale /\ v.spread = Reference(r) * Adverse
        <5> HIDE DEF v
        <5> QED BY <1>1, <1>5, <3>2
      <4>2. /\ r.notional = bar.price * q * rate * Scale
            /\ r.fee = bar.price * q * rate * Simulator!Model.fee
        BY <3>2
      <4> HIDE DEF v
      <4> QED BY <3>1, <3>3, <4>1, <4>2 DEF FillEvent
    <3>5. v.result_id = o.id
      <4> HIDE DEF v
      <4> QED BY <1>1, <3>2
    <3>6. EventOf(v, e)
      <4> HIDE DEF v
      <4> QED BY <1>5, <2>2, <3>4, <3>5 DEF EventOf
    <3> QED BY <3>6
  <2> QED BY <2>1, <2>3, <2>4
<1> QED BY <1>4, <1>5

\* A bar's price, an order's quantity: what the products of a fill are made of.
LEMMA FillNumbers ==
  ASSUME CallTyped, NEW o \in Simulator!OrderIntent, NEW v,
         NEW i \in 1..Len(call.bars), NEW q \in 1..o.quantity, FillEvent(v, o, i, q)
  PROVE  LET price == call.bars[i].price
             rate == Scale + (IF o.side = "buy" THEN Adverse ELSE - Adverse)
         IN /\ price * q \in Nat /\ rate \in Nat /\ o.quantity \in Nat \ {0} /\ o.market \in Markets
            /\ v.notional \in Nat /\ v.fee \in Nat /\ v.spread \in Nat /\ v.filled \in Nat
            /\ call.cost = {} => v.fee = 0 /\ v.spread = 0
<1> DEFINE price == call.bars[i].price
           rate == Scale + (IF o.side = "buy" THEN Adverse ELSE - Adverse)
           fee == Simulator!Model.fee
<1>1. o.quantity \in Nat \ {0} /\ o.market \in Markets /\ q \in Nat
  BY DEF Simulator!OrderIntent
<1>2. price \in Nat
  <2>1. call.bars \in Seq(Simulator!OHLCTVBar)
    BY SimulatorAssumption DEF Simulator!BarsAssumption, CallTyped
  <2>2. call.bars[i] \in Simulator!OHLCTVBar
    BY <2>1
  <2> QED BY <2>2 DEF Simulator!OHLCTVBar
<1>3. Adverse \in Nat /\ Adverse < Scale /\ Scale \in Nat \ {0} /\ fee \in Nat
      /\ (call.cost = {} => Adverse = 0 /\ fee = 0)
  BY CostFields
<1>4. rate \in Nat
  BY <1>3
<1>5. v.notional = price * q * rate * Scale /\ v.fee = price * q * rate * fee
      /\ v.spread = price * q * Scale * Adverse /\ v.filled = q
  BY DEF FillEvent
<1> HIDE DEF price, rate, fee
<1>6. price * q \in Nat
  BY <1>1, <1>2
<1>7. price * q * rate \in Nat /\ price * q * Scale \in Nat
  BY <1>3, <1>4, <1>6
<1>8. v.notional \in Nat /\ v.fee \in Nat /\ v.spread \in Nat
  BY <1>3, <1>5, <1>7
<1>9. call.cost = {} => v.fee = 0 /\ v.spread = 0
  BY <1>3, <1>5, <1>7
<1> QED BY <1>1, <1>4, <1>5, <1>6, <1>8, <1>9 DEF price, rate

\* No validator refuses such an event.
LEMMA EventConsistent ==
  ASSUME CallTyped, NEW e \in RiskEvents, NEW v, EventOf(v, e)
  PROVE  Consistent(v)
<1>1. IsApproved(e) <=> v.decision \in ApprovedDecisions
  BY DEF EventOf, IsApproved
<1>2. CASE MovesNothing(v) /\ v.status \notin FilledStatuses
  <2>1. v.status = "blocked" <=> ~ IsApproved(e)
    BY <1>2 DEF EventOf, FillEvent, FilledStatuses
  <2>2. ~ (v.fee + v.spread > 0)
    BY <1>2 DEF MovesNothing
  <2> QED BY <1>1, <1>2, <2>1, <2>2 DEF Consistent, MovesNothing, FilledStatuses
<1>3. CASE ~ (MovesNothing(v) /\ v.status \notin FilledStatuses)
  <2> DEFINE o == e.approved
  <2>1. PICK i \in 1..Len(call.bars), q \in 1..o.quantity : FillEvent(v, o, i, q)
    BY <1>3 DEF EventOf, FilledStatuses
  <2>2. o \in Simulator!OrderIntent
    BY RiskEventsAssumption
  <2>3. IsApproved(e) /\ v.order = o
    BY <1>3 DEF EventOf, FilledStatuses
  <2>4. v.filled = q /\ v.status = IF q = o.quantity THEN "filled" ELSE "partial"
    BY <2>1 DEF FillEvent
  <2> HIDE DEF o
  <2>5. o.quantity \in Nat /\ (call.cost = {} => v.fee = 0 /\ v.spread = 0)
    BY <2>1, <2>2, FillNumbers
  <2>6. v.status = "partial" => v.filled \in 1..(v.order.quantity - 1)
    BY <2>3, <2>4, <2>5
  <2> QED BY <1>1, <2>3, <2>4, <2>5, <2>6 DEF Consistent, FilledStatuses
<1> QED BY <1>2, <1>3

LEMMA ReportEvents ==
  ASSUME CallTyped, desk \in [Simulator!Assets -> Nat],
         NEW report, report = ReportOf(call.batch, Replay(call.batch))
  PROVE  /\ DOMAIN report.events = 1..Len(call.batch) /\ Len(call.batch) \in Nat
         /\ \A i \in 1..Len(call.batch) :
              /\ report.events[i] = BatchEvent(i) /\ call.batch[i] \in RiskEvents
              /\ EventOf(report.events[i], call.batch[i]) /\ Consistent(report.events[i])
         /\ \/ report.final = {} /\ (call.funded => ApprovedIntents(call.batch) = <<>>)
            \/ report.final = {Replay(call.batch).balances} /\ call.funded
<1> DEFINE replay == Replay(call.batch)
           n == Len(call.batch)
<1>1. call.batch \in Batches
  BY DEF CallTyped
<1>2. DOMAIN call.batch = 1..n /\ n \in Nat /\ \A i \in 1..n : call.batch[i] \in RiskEvents
  BY <1>1, BatchTyped
<1>3. /\ report.events = [i \in 1..n |-> BatchEvent(i)]
      /\ report.final = IF call.funded /\ replay.results # <<>> THEN {replay.balances} ELSE {}
  BY <1>2 DEF ReportOf, BatchEvent
<1>4. \A i \in 1..n : EventOf(BatchEvent(i), call.batch[i])
  BY EventsShaped
<1>5. \A i \in 1..n : Consistent(BatchEvent(i))
  BY <1>2, <1>4, EventConsistent
<1>6. replay.results = <<>> => ApprovedIntents(call.batch) = <<>>
  <2> DEFINE is == ApprovedIntents(call.batch)
  <2>1. is \in Seq(Simulator!OrderIntent) /\ Len(replay.results) = Len(is)
    BY DayReplay
  <2> HIDE DEF is, replay
  <2> QED BY <2>1 DEF is
<1> HIDE DEF replay, n
<1> QED BY <1>2, <1>3, <1>4, <1>5, <1>6 DEF replay, n

\* So a batch the replay accepts has a report.
LEMMA AcceptedSucceeds ==
  ASSUME CallTyped, desk \in [Simulator!Assets -> Nat], ~ Refused(call.batch)
  PROVE  Succeeds(call.batch)
<1> DEFINE report == ReportOf(call.batch, Replay(call.batch))
<1>1. \A v \in Range(report.events) : Consistent(v)
  <2> HIDE DEF report
  <2>1. report = ReportOf(call.batch, Replay(call.batch))
    BY DEF report
  <2> QED BY <2>1, ReportEvents DEF Range
<1>2. report \in GatewayReports(call.batch)
  BY <1>1 DEF GatewayReports
<1> QED BY <1>2 DEF Succeeds
-----------------------------------------------------------------------------
(* The invariant. *)

\* What a session report says of a gateway report: its lists, its total, and
\* a closing state that is the replay's when the replay has one.
SessionOf(s, report) ==
  /\ s.fills = FillLogs(report) /\ s.rejections = RejectionLogs(report)
  /\ s.cost = Total(FillLogs(report), PredictedCost)
  /\ \/ s.source = "gateway_replay" /\ s.final \in report.final
     \/ s.source = "explicit_linkage" /\ report.final = {} /\ s.final \in {desk, Opening}
     \/ /\ s.source = "unchanged_from_initial" /\ report.final = {}
        /\ ~ Filled(report) /\ s.final = desk

DayInv ==
  /\ desk \in [Simulator!Assets -> Nat] /\ booked \in [Simulator!Assets -> Int]
  /\ ~ trusted => desk = booked
  /\ stage \in {"called", "reported"} => CallTyped
  /\ stage # "reported" => gateway = {} /\ session = {} /\ tca = {}
  /\ stage = "reported" => gateway # {}
  /\ \A report \in gateway : report = ReportOf(call.batch, Replay(call.batch))
  /\ \A report \in gateway, s \in session : SessionOf(s, report)
  /\ \A report \in gateway, t \in tca : t.report = TcaReport(report, t.quotes)
  /\ \A t \in tca : t.quotes \in QuoteSequences

LEMMA DayInit == Init => DayInv
<1> SUFFICES ASSUME Init PROVE DayInv
  OBVIOUS
<1>1. Opening \in [Simulator!Assets -> Nat]
  BY SimulatorAssumption DEF Simulator!OpeningAssumption
<1>2. Opening \in [Simulator!Assets -> Int]
  BY <1>1
<1> QED BY <1>1, <1>2 DEF Init, DayInv

\* A step that leaves the desk and the call alone leaves their replay alone.
LEMMA ReportStays ==
  ASSUME UNCHANGED <<desk, call>>
  PROVE  ReportOf(call.batch, Replay(call.batch))' = ReportOf(call.batch, Replay(call.batch))
<1>1. desk' = desk /\ call' = call
  OBVIOUS
<1>2. Simulator!Model' = Simulator!Model /\ Adverse' = Adverse
  BY <1>1 DEF Simulator!Model, Adverse
<1>3. \A bar : \A i : \A o : Simulator!AttemptOn(bar, i, o)' = Simulator!AttemptOn(bar, i, o)
  BY <1>1, <1>2 DEF Simulator!AttemptOn, Simulator!Filled
<1>4. \A bs : \A o : Simulator!Attempt(bs, o)' = Simulator!Attempt(bs, o)
  BY <1>1, <1>2, <1>3 DEF Simulator!Attempt
<1>5. \A bs : \A s : \A o : Simulator!Replayed(bs, s, o)' = Simulator!Replayed(bs, s, o)
  BY <1>1, <1>4 DEF Simulator!Replayed, Simulator!Balanced
<1>6. \A bs : \A opening : \A is : Simulator!States(bs, opening, is)' = Simulator!States(bs, opening, is)
  BY <1>5 DEF Simulator!States
<1>7. \A batch : Replay(batch)' = Replay(batch)
  BY <1>1, <1>6 DEF Replay
<1>8. \A r : Reference(r)' = Reference(r)
  BY <1>1 DEF Reference
<1>9. \A batch : \A results : \A i : Lifecycle(batch, results, i)' = Lifecycle(batch, results, i)
  BY <1>2, <1>8 DEF Lifecycle
<1>10. \A batch : \A replay : ReportOf(batch, replay)' = ReportOf(batch, replay)
  BY <1>1, <1>9 DEF ReportOf
<1> QED BY <1>1, <1>7, <1>10

LEMMA SessionShape ==
  ASSUME NEW report, NEW initial \in Claims({desk}),
         NEW claim \in Claims({desk, Opening} \cup report.final),
         NEW s \in SessionReports(report, initial, claim)
  PROVE  SessionOf(s, report)
<1> DEFINE states == {desk, Opening} \cup report.final
<1>1. PICK c \in ClosingState(report, initial, claim) :
         s = [source |-> c.source, final |-> c.final, fills |-> FillLogs(report),
              rejections |-> RejectionLogs(report), cost |-> Total(FillLogs(report), PredictedCost)]
  BY DEF SessionReports
<1>2. /\ \A f \in claim.embedded : f \in states
      /\ \A f \in claim.linked : f \in states
      /\ \A f \in initial.embedded : f = desk
  BY DEF Claims
<1>3. \A f \in Resolved(claim) : f \in states
  BY <1>2 DEF Resolved
<1>4. \A source : \A set : \A x \in Closing(source, set) : x.source = source /\ x.final \in set
  BY DEF Closing
<1>5. \/ c.source = "gateway_replay" /\ c.final \in report.final
      \/ c.source = "explicit_linkage" /\ report.final = {} /\ c.final \in {desk, Opening}
      \/ /\ c.source = "unchanged_from_initial" /\ report.final = {}
         /\ ~ Filled(report) /\ c.final = desk
  <2>1. CASE report.final # {}
    <3>1. c \in Closing("gateway_replay",
                 IF claim.embedded \cup claim.linked \subseteq report.final THEN report.final ELSE {})
      BY <2>1 DEF ClosingState
    <3> QED BY <1>4, <3>1
  <2>2. CASE report.final = {} /\ Filled(report)
    <3>1. c \in Closing("explicit_linkage",
                 IF claim.embedded \subseteq claim.linked THEN claim.linked ELSE {})
      BY <2>2 DEF ClosingState
    <3> QED BY <1>2, <1>4, <2>2, <3>1
  <2>3. CASE report.final = {} /\ ~ Filled(report) /\ claim # NoClaim
    <3>1. c \in Closing("explicit_linkage", Resolved(claim))
      BY <2>3 DEF ClosingState
    <3> QED BY <1>3, <1>4, <2>3, <3>1
  <2>4. CASE report.final = {} /\ ~ Filled(report) /\ claim = NoClaim
    <3>1. c \in Closing("unchanged_from_initial", initial.embedded)
      BY <2>4 DEF ClosingState
    <3> QED BY <1>2, <1>4, <2>4, <3>1
  <2> QED BY <2>1, <2>2, <2>3, <2>4
<1> QED BY <1>1, <1>5 DEF SessionOf
-----------------------------------------------------------------------------
(* What the logged fills add up to. *)

\* A logged fill moves what its replay result moved.
LEMMA FlowOfResult ==
  ASSUME CallTyped, desk \in [Simulator!Assets -> Nat],
         NEW i \in 1..Len(call.batch), IsApproved(call.batch[i]), NEW a
  PROVE  LET r == Evidence(call.batch, Replay(call.batch).results, i)
             v == BatchEvent(i)
         IN Sim!Flow(a, call.batch[i].approved, r) = IF IsFill(v) THEN Flow(v, a) ELSE 0
<1> DEFINE e == call.batch[i]
           r == Evidence(call.batch, Replay(call.batch).results, i)
           v == BatchEvent(i)
<1>1. /\ v.order = e.approved /\ v.status = r.status /\ v.filled = r.quantity
      /\ v.notional = r.notional /\ v.fee = r.fee
  BY DEF BatchEvent, Lifecycle, GatewayOrder
<1> HIDE DEF r, v, e
<1>2. Sim!Flow(a, e.approved, r) = IF IsFill(v) THEN Flow(v, a) ELSE 0
  BY <1>1 DEF Sim!Flow, Sim!IsFill, Flow, IsFill, FilledStatuses
<1> QED BY <1>2 DEF r, v, e

LEMMA FlowTyped ==
  ASSUME CallTyped, NEW e \in RiskEvents, NEW v, EventOf(v, e), IsFill(v), NEW a
  PROVE  Flow(v, a) \in Int
<1> DEFINE o == e.approved
<1>1. o \in Simulator!OrderIntent
  BY RiskEventsAssumption
<1>2. PICK i \in 1..Len(call.bars), q \in 1..o.quantity : FillEvent(v, o, i, q)
  BY DEF EventOf, IsFill, FilledStatuses
<1> HIDE DEF o
<1>3. v.notional \in Nat /\ v.fee \in Nat /\ v.filled \in Nat
  BY <1>1, <1>2, FillNumbers
<1> QED BY <1>3 DEF Flow

\* The moves of an asset that a report's fills log.
Logged(report, a) == [i \in DOMAIN FillLogs(report) |-> Flow(FillLogs(report)[i], a)]

LEMMA LoggedFacts ==
  ASSUME CallTyped, desk \in [Simulator!Assets -> Nat],
         NEW report, report = ReportOf(call.batch, Replay(call.batch)), NEW a
  PROVE  /\ DOMAIN Logged(report, a) = {i \in 1..Len(call.batch) : IsFill(BatchEvent(i))}
         /\ IsFiniteSet(DOMAIN Logged(report, a))
         /\ \A i \in DOMAIN Logged(report, a) :
              Logged(report, a)[i] = Flow(BatchEvent(i), a) /\ Logged(report, a)[i] \in Int
         /\ Filled(report) <=> DOMAIN Logged(report, a) # {}
<1> DEFINE n == Len(call.batch)
           fills == {i \in 1..n : IsFill(BatchEvent(i))}
<1>1. /\ DOMAIN report.events = 1..n /\ n \in Nat
      /\ \A i \in 1..n : /\ report.events[i] = BatchEvent(i) /\ call.batch[i] \in RiskEvents
                         /\ EventOf(report.events[i], call.batch[i])
  BY ReportEvents
<1>2. FillLogs(report) = [i \in fills |-> BatchEvent(i)]
  <2>1. {i \in DOMAIN report.events : IsFill(report.events[i])} = fills
    BY <1>1
  <2>2. FillLogs(report) = [i \in fills |-> report.events[i]]
    BY <2>1 DEF FillLogs, RestrictValues, Restrict
  <2> QED BY <1>1, <2>2
<1>3. Logged(report, a) = [i \in fills |-> Flow(BatchEvent(i), a)]
  BY <1>2 DEF Logged
<1>4. IsFiniteSet(fills)
  <2>1. IsFiniteSet(1..n) /\ fills \subseteq 1..n
    BY <1>1, FS_Interval
  <2> QED BY <2>1, FS_Subset
<1>5. \A i \in fills : Flow(BatchEvent(i), a) \in Int
  BY <1>1, FlowTyped
<1>6. Filled(report) <=> fills # {}
  BY <1>2 DEF Filled
<1> QED BY <1>3, <1>4, <1>5, <1>6

\* Event by event, the replay's running total is the desk's opening balance
\* and the fills logged so far.
LEMMA LoggedMoves ==
  ASSUME CallTyped, desk \in [Simulator!Assets -> Nat],
         NEW report, report = ReportOf(call.batch, Replay(call.batch)),
         NEW a \in Simulator!Assets
  PROVE  /\ SumFunction(Logged(report, a)) \in Int
         /\ call.funded =>
              Replay(call.batch).balances[a] = desk[a] + SumFunction(Logged(report, a))
         /\ ~ Filled(report) => SumFunction(Logged(report, a)) = 0
<1> DEFINE batch == call.batch
           n == Len(batch)
           results == Replay(batch).results
           is == ApprovedIntents(batch)
           upto == ApprovedUpTo(batch)
           f == Logged(report, a)
           S == DOMAIN f
<1>1. /\ S = {i \in 1..n : IsFill(BatchEvent(i))} /\ IsFiniteSet(S)
      /\ \A i \in S : f[i] = Flow(BatchEvent(i), a) /\ f[i] \in Int
      /\ Filled(report) <=> S # {}
  BY LoggedFacts
<1>2. /\ batch \in Batches /\ n \in Nat
      /\ \A i \in 1..n : EventOf(BatchEvent(i), batch[i])
  BY ReportEvents DEF CallTyped
<1>3. PICK sum : IsSum(sum, f, S) /\ SumFunctionOnSet(f, S) = sum[S]
  <2> HIDE DEF f
  <2> QED BY <1>1, SumIs
<1>4. SumFunction(f) = sum[S]
  BY <1>3 DEF SumFunction
<1>5. \A s \in SUBSET S : sum[s] \in Int /\ \A x \in s : sum[s] = f[x] + sum[s \ {x}]
  <2>1. IsFiniteSet(S) /\ \A x \in S : f[x] \in Int
    BY <1>1
  <2>2. IsSum(sum, f, S)
    BY <1>3
  <2> HIDE DEF f, S
  <2> QED BY <2>1, <2>2, SumAnyFirst
<1>6. sum[{}] = 0
  BY <1>3 DEF IsSum
<1>7. ASSUME call.funded
      PROVE  Replay(batch).balances[a] = desk[a] + sum[S]
  <2>1. PICK total : /\ total[0] = desk[a] /\ Moves(total, a, is, results)
                     /\ Replay(batch).balances[a] = total[Len(is)]
    BY <1>7, DayReplay
  <2> DEFINE first(k) == {i \in S : i <= k}
             Good == {k \in 0..n : total[Len(upto[k])] = desk[a] + sum[first(k)]}
  <2>2. \A k \in 0..n : Len(upto[k]) \in Nat
    <3> TAKE k \in 0..n
    <3>1. upto[k] \in Seq(Simulator!OrderIntent)
      BY <1>2, UpToTyped
    <3> QED BY <3>1
  <2>3. \A k \in 0..(n - 1) : upto[k + 1] = Extended(upto[k], batch[k + 1])
    BY <1>2, UpToStep
  <2>4. desk[a] \in Int
    OBVIOUS
  <2>5. 0 \in Good
    <3>1. Len(upto[0]) = 0
      BY <1>2, UpToStep
    <3>2. first(0) = {}
      BY <1>1
    <3>3. 0 \in 0..n
      BY <1>2
    <3>4. sum[first(0)] = 0 /\ total[Len(upto[0])] = desk[a]
      BY <1>6, <2>1, <3>1, <3>2
    <3>5. desk[a] = desk[a] + 0
      BY <2>4
    <3>6. total[Len(upto[0])] = desk[a] + sum[first(0)]
      BY <3>4, <3>5
    <3> QED BY <3>3, <3>6
  <2>6. ASSUME NEW k \in 0..(n - 1), k \in Good PROVE k + 1 \in Good
    <3> DEFINE i == k + 1
               e == batch[i]
               v == BatchEvent(i)
               at == Len(upto[k])
    <3>1. i \in 1..n /\ i \in 0..n /\ k \in 0..n /\ at \in Nat
      BY <1>2, <2>2
    <3>2. first(k) \in SUBSET S /\ first(i) \in SUBSET S /\ sum[first(k)] \in Int
      <4>1. first(k) \in SUBSET S /\ first(i) \in SUBSET S
        OBVIOUS
      <4> HIDE DEF first, f
      <4> QED BY <1>5, <4>1
    <3>3. total[at] = desk[a] + sum[first(k)]
      BY <2>6
    <3>4. CASE ~ IsFill(v)
      <4>1. first(i) = first(k)
        <5>1. i \notin S
          BY <1>1, <3>4
        <5>2. \A j \in S : j \in Nat
          BY <1>1
        <5> HIDE DEF f
        <5> QED BY <3>1, <5>1, <5>2
      <4>2. total[Len(upto[i])] = total[at]
        <5>1. CASE ~ IsApproved(e)
          BY <2>3, <5>1 DEF Extended
        <5>2. CASE IsApproved(e)
          <6>1. upto[i] = Append(upto[k], e.approved)
            BY <2>3, <5>2 DEF Extended
          <6>2. Len(upto[i]) = at + 1
            <7>1. upto[k] \in Seq(Simulator!OrderIntent)
              BY <1>2, <3>1, UpToTyped
            <7> HIDE DEF upto, e
            <7> QED BY <6>1, <7>1
          <6>3. Len(upto[i]) \in 1..Len(is) /\ is[Len(upto[i])] = e.approved
                /\ results[Len(upto[i])] = Evidence(batch, results, i)
            BY <1>2, <3>1, <5>2, Positions DEF Evidence
          <6>4. Sim!Flow(a, e.approved, Evidence(batch, results, i)) = 0
            BY <3>1, <3>4, <5>2, FlowOfResult
          <6>5. total[at + 1] = total[(at + 1) - 1] + 0
            <7> HIDE DEF upto, is, results, at, e
            <7> QED BY <2>1, <6>2, <6>3, <6>4 DEF Moves
          <6>6. (at + 1) - 1 = at /\ total[at] \in Int
            <7> HIDE DEF at, first
            <7> QED BY <2>4, <3>1, <3>2, <3>3
          <6> HIDE DEF at
          <6> QED BY <6>2, <6>5, <6>6
        <5> QED BY <5>1, <5>2
      <4> HIDE DEF first, upto
      <4> QED BY <3>1, <3>3, <4>1, <4>2
    <3>5. CASE IsFill(v)
      <4>1. IsApproved(e)
        BY <1>2, <3>1, <3>5 DEF EventOf, IsFill, FilledStatuses
      <4>2. i \in S /\ f[i] = Flow(v, a) /\ f[i] \in Int
        BY <1>1, <3>1, <3>5
      <4>3. i \in first(i) /\ first(i) \ {i} = first(k)
        <5>1. \A j \in S : j \in Nat
          BY <1>1
        <5> HIDE DEF f
        <5> QED BY <3>1, <4>2, <5>1
      <4>4. sum[first(i)] = f[i] + sum[first(k)]
        <5> HIDE DEF first, f
        <5> QED BY <1>5, <3>2, <4>3
      <4>5. upto[i] = Append(upto[k], e.approved)
        BY <2>3, <4>1 DEF Extended
      <4>6. Len(upto[i]) = at + 1
        <5>1. upto[k] \in Seq(Simulator!OrderIntent)
          BY <1>2, <3>1, UpToTyped
        <5> HIDE DEF upto, e
        <5> QED BY <4>5, <5>1
      <4>7. Len(upto[i]) \in 1..Len(is) /\ is[Len(upto[i])] = e.approved
            /\ results[Len(upto[i])] = Evidence(batch, results, i)
        BY <1>2, <3>1, <4>1, Positions DEF Evidence
      <4>8. Sim!Flow(a, e.approved, Evidence(batch, results, i)) = Flow(v, a)
        BY <3>1, <3>5, <4>1, FlowOfResult
      <4>9. total[at + 1] = total[(at + 1) - 1] + f[i]
        <5> HIDE DEF upto, is, results, at, e, f, v
        <5> QED BY <2>1, <4>2, <4>6, <4>7, <4>8 DEF Moves
      <4>10. (at + 1) - 1 = at
        BY <3>1
      <4>11. total[Len(upto[i])] = desk[a] + sum[first(i)]
        <5> HIDE DEF first, upto, f, at
        <5> QED BY <2>4, <3>2, <3>3, <4>2, <4>4, <4>6, <4>9, <4>10
      <4> HIDE DEF first, upto
      <4> QED BY <3>1, <4>11
    <3> QED BY <3>4, <3>5
  <2>7. n \in Good
    <3> HIDE DEF Good
    <3>1. \A k \in 0..n : k \in Good
      BY <1>2, <2>5, <2>6, UpToBound
    <3>2. n \in 0..n
      BY <1>2
    <3> QED BY <3>1, <3>2
  <2>8. first(n) = S
    BY <1>1
  <2>9. upto[n] = is
    BY DEF ApprovedIntents
  <2> HIDE DEF first, upto, is
  <2> QED BY <2>1, <2>7, <2>8, <2>9
<1>8. sum[S] \in Int
  <2> HIDE DEF f
  <2> QED BY <1>5
<1>9. ~ Filled(report) => sum[S] = 0
  BY <1>1, <1>6
<1> QED BY <1>4, <1>7, <1>8, <1>9
-----------------------------------------------------------------------------
(* The invariant is kept. *)

\* A day closes on balances its logged fills explain, unless the report
\* raises the question whose word they are.
LEMMA ClosingExplained ==
  ASSUME DayInv, stage = "reported", CloseDay
  PROVE  /\ desk' \in [Simulator!Assets -> Nat] /\ booked' \in [Simulator!Assets -> Int]
         /\ ~ trusted' => desk' = booked'
<1>1. PICK s \in session, report \in gateway :
         /\ desk' = s.final
         /\ booked' = [a \in Markets \cup {CASH} |->
                         booked[a] + Total(s.fills, LAMBDA v : Flow(v, a))]
         /\ trusted' = (trusted \/ (s.source = "explicit_linkage" /\ report.final = {}))
  BY DEF CloseDay
<1>2. /\ CallTyped /\ desk \in [Simulator!Assets -> Nat] /\ booked \in [Simulator!Assets -> Int]
      /\ ~ trusted => desk = booked
      /\ report = ReportOf(call.batch, Replay(call.batch))
      /\ SessionOf(s, report)
  BY <1>1 DEF DayInv
<1> DEFINE logged(a) == SumFunction(Logged(report, a))
<1>3. \A a : Total(s.fills, LAMBDA v : Flow(v, a)) = logged(a)
  BY <1>2 DEF SessionOf, Total, Logged
<1>4. Markets \cup {CASH} = Simulator!Assets
  BY DEF Simulator!Assets
<1> HIDE DEF logged
<1>5. booked' = [a \in Simulator!Assets |-> booked[a] + logged(a)]
  BY <1>1, <1>3, <1>4
<1>6. ASSUME NEW a \in Simulator!Assets
      PROVE  /\ logged(a) \in Int
             /\ call.funded => Replay(call.batch).balances[a] = desk[a] + logged(a)
             /\ ~ Filled(report) => logged(a) = 0
  BY <1>2, LoggedMoves DEF logged
<1>7. booked' \in [Simulator!Assets -> Int]
  BY <1>2, <1>5, <1>6
<1>8. CASE s.source = "gateway_replay"
  <2>1. s.final \in report.final
    BY <1>2, <1>8 DEF SessionOf
  <2>2. s.final = Replay(call.batch).balances /\ call.funded
    BY <1>2, <2>1, ReportEvents
  <2>3. Replay(call.batch).balances \in [Simulator!Assets -> Nat]
    BY <1>2, DayReplay
  <2> DEFINE final == Replay(call.batch).balances
  <2>4. \A a \in Simulator!Assets : final[a] = desk[a] + logged(a)
    BY <1>6, <2>2
  <2>5. final \in [Simulator!Assets -> Nat] /\ desk' = final
    BY <1>1, <2>2, <2>3
  <2> HIDE DEF final
  <2>6. ASSUME ~ trusted PROVE final = booked'
    <3>1. desk = booked
      BY <1>2, <2>6
    <3> QED BY <1>5, <2>4, <2>5, <3>1
  <2>7. ~ trusted' => ~ trusted
    BY <1>1
  <2> QED BY <1>7, <2>5, <2>6, <2>7
<1>9. CASE s.source = "explicit_linkage"
  <2>1. report.final = {} /\ s.final \in {desk, Opening}
    BY <1>2, <1>9 DEF SessionOf
  <2>2. Opening \in [Simulator!Assets -> Nat]
    BY SimulatorAssumption DEF Simulator!OpeningAssumption
  <2>3. trusted'
    BY <1>1, <1>9, <2>1
  <2> QED BY <1>1, <1>2, <1>7, <2>1, <2>2, <2>3
<1>10. CASE s.source = "unchanged_from_initial"
  <2>1. ~ Filled(report) /\ s.final = desk
    BY <1>2, <1>10 DEF SessionOf
  <2>2. ~ trusted' => ~ trusted
    BY <1>1
  <2>3. \A a \in Simulator!Assets : booked[a] + logged(a) = booked[a]
    BY <1>2, <1>6, <2>1
  <2>4. booked' = booked
    BY <1>2, <1>5, <2>3
  <2> QED BY <1>1, <1>2, <1>7, <2>1, <2>2, <2>4
<1> QED BY <1>2, <1>8, <1>9, <1>10 DEF SessionOf

LEMMA DayStep == DayInv /\ [Next]_vars => DayInv'
<1> SUFFICES ASSUME DayInv, [Next]_vars PROVE DayInv'
  OBVIOUS
<1>1. CASE Call
  <2>1. CallTyped' /\ stage' = "called" /\ gateway = {} /\ session = {} /\ tca = {}
    BY <1>1 DEF Call, CallTyped, DayInv
  <2>2. UNCHANGED <<desk, booked, trusted, gateway, session, tca>>
    BY <1>1 DEF Call
  <2> QED BY <2>1, <2>2 DEF DayInv
<1>2. CASE RunGateway
  <2>1. /\ stage = "called" /\ stage' = "reported" /\ gateway' = GatewayReports(call.batch)
        /\ GatewayReports(call.batch) # {} /\ session = {} /\ tca = {}
        /\ UNCHANGED <<desk, booked, trusted, call, session, tca>>
    BY <1>2 DEF RunGateway, Succeeds, DayInv
  <2>2. CallTyped'
    BY <2>1 DEF DayInv, CallTyped
  <2>3. \A report \in gateway' : report = ReportOf(call.batch, Replay(call.batch))
    BY <2>1 DEF GatewayReports
  <2>4. \A report \in gateway' : report = ReportOf(call.batch, Replay(call.batch))'
    BY <2>1, <2>3, ReportStays
  <2> QED BY <2>1, <2>2, <2>4 DEF DayInv
<1>3. CASE GatewayRaises
  <2>1. stage' \in {"idle", "closed"} /\ gateway = {} /\ session = {} /\ tca = {}
        /\ UNCHANGED <<desk, booked, trusted, gateway, session, tca>>
    BY <1>3 DEF GatewayRaises, DayInv
  <2> QED BY <2>1 DEF DayInv
<1>4. ASSUME UNCHANGED <<desk, booked, trusted, stage, call, gateway>>
      PROVE  /\ desk' \in [Simulator!Assets -> Nat] /\ booked' \in [Simulator!Assets -> Int]
             /\ ~ trusted' => desk' = booked'
             /\ stage' \in {"called", "reported"} => CallTyped'
             /\ stage' # "reported" => gateway' = {}
             /\ stage' = "reported" => gateway' # {}
             /\ \A report \in gateway' : report = ReportOf(call.batch, Replay(call.batch))'
             /\ \A report : \A s : SessionOf(s, report)' <=> SessionOf(s, report)
             /\ \A report : \A quotes : TcaReport(report, quotes)' = TcaReport(report, quotes)
  <2>1. CallTyped' <=> CallTyped
    BY <1>4 DEF CallTyped
  <2>2. \A report : \A s : SessionOf(s, report)' <=> SessionOf(s, report)
    BY <1>4 DEF SessionOf
  <2>3. \A report : \A quotes : TcaReport(report, quotes)' = TcaReport(report, quotes)
    OBVIOUS
  <2>4. ReportOf(call.batch, Replay(call.batch))' = ReportOf(call.batch, Replay(call.batch))
    BY <1>4, ReportStays
  <2> QED BY <1>4, <2>1, <2>2, <2>3, <2>4 DEF DayInv
<1>5. CASE ReportSession
  <2>1. /\ stage = "reported" /\ UNCHANGED <<desk, booked, trusted, stage, call, gateway, tca>>
    BY <1>5 DEF ReportSession
  <2>2. PICK report \in gateway : \E initial \in Claims({desk}),
               claim \in Claims({desk, Opening} \cup report.final) :
                 \E s \in SessionReports(report, initial, claim) : session' = {s}
    BY <1>5 DEF ReportSession
  <2>3. \A r \in gateway : r = report
    BY <2>2 DEF DayInv
  <2>4. \A r \in gateway : \A s \in session' : SessionOf(s, r)
    BY <2>2, <2>3, SessionShape
  <2>5. \A r \in gateway', s \in session' : SessionOf(s, r)'
    BY <1>4, <2>1, <2>4
  <2>6. \A r \in gateway', t \in tca' : t.report = TcaReport(r, t.quotes)'
    BY <1>4, <2>1 DEF DayInv
  <2> QED BY <1>4, <2>1, <2>5, <2>6 DEF DayInv
<1>6. CASE ReportTca
  <2>1. stage = "reported" /\ UNCHANGED <<desk, booked, trusted, stage, call, gateway, session>>
    BY <1>6 DEF ReportTca
  <2>2. PICK report \in gateway : \E quotes \in QuoteSequences :
               tca' = {[quotes |-> quotes, report |-> TcaReport(report, quotes)]}
    BY <1>6 DEF ReportTca
  <2>7. \A t \in tca' : t.quotes \in QuoteSequences
    BY <2>2
  <2>3. \A r \in gateway : r = report
    BY <2>2 DEF DayInv
  <2>4. \A r \in gateway : \A t \in tca' : t.report = TcaReport(r, t.quotes)
    BY <2>2, <2>3
  <2>5. \A r \in gateway', t \in tca' : t.report = TcaReport(r, t.quotes)'
    BY <1>4, <2>1, <2>4
  <2>6. \A r \in gateway', s \in session' : SessionOf(s, r)'
    BY <1>4, <2>1 DEF DayInv
  <2> QED BY <1>4, <2>1, <2>5, <2>6, <2>7 DEF DayInv
<1>7. CASE CloseDay
  <2>1. stage = "reported" /\ stage' \in {"idle", "closed"}
        /\ gateway' = {} /\ session' = {} /\ tca' = {}
    BY <1>7 DEF CloseDay
  <2> QED BY <1>7, <2>1, ClosingExplained DEF DayInv
<1>8. CASE UNCHANGED vars
  <2>1. UNCHANGED <<desk, booked, trusted, stage, call, gateway, session, tca>>
    BY <1>8 DEF vars
  <2> QED BY <1>4, <2>1 DEF DayInv
<1> QED BY <1>1, <1>2, <1>3, <1>5, <1>6, <1>7, <1>8 DEF Next

LEMMA DayAlways == Spec => []DayInv
<1> QED BY DayInit, DayStep, PTL DEF Spec
-----------------------------------------------------------------------------
(* The gateway's properties. *)

LEMMA ReportOfDay ==
  ASSUME DayInv, NEW report \in gateway
  PROVE  /\ CallTyped /\ report = ReportOf(call.batch, Replay(call.batch))
         /\ DOMAIN report.events = 1..Len(call.batch) /\ Len(call.batch) \in Nat
         /\ \A i \in 1..Len(call.batch) :
              call.batch[i] \in RiskEvents /\ EventOf(report.events[i], call.batch[i])
<1>1. /\ CallTyped /\ desk \in [Simulator!Assets -> Nat]
      /\ report = ReportOf(call.batch, Replay(call.batch))
  BY DEF DayInv
<1> QED BY <1>1, ReportEvents

LEMMA OwnEvidenceHolds == DayInv => OwnEvidence
<1> SUFFICES ASSUME DayInv, NEW report \in gateway, NEW i \in DOMAIN report.events
             PROVE  LET v == report.events[i]  e == call.batch[i]
                    IN IF ~ IsApproved(e) THEN v.filled = 0 /\ v.status = "blocked"
                       ELSE /\ v.result_id = e.approved.id
                            /\ v.filled <= e.approved.quantity
                            /\ v.status \in FilledStatuses =>
                                 call.bars[v.bar].market = e.approved.market
  BY DEF OwnEvidence
<1> DEFINE v == report.events[i]
           e == call.batch[i]
           o == e.approved
<1>1. e \in RiskEvents /\ EventOf(v, e)
  BY ReportOfDay
<1>2. o.quantity \in Nat
  BY <1>1, RiskEventsAssumption DEF Simulator!OrderIntent
<1> HIDE DEF v, e
<1>3. CASE ~ IsApproved(e)
  BY <1>1, <1>3 DEF EventOf, MovesNothing, v, e
<1>4. CASE IsApproved(e) /\ MovesNothing(v) /\ v.status \notin FilledStatuses
  <2>1. v.result_id = o.id /\ v.filled <= o.quantity
    BY <1>1, <1>2, <1>4 DEF EventOf, MovesNothing
  <2> QED BY <1>4, <2>1 DEF v, e
<1>5. CASE IsApproved(e) /\ ~ (MovesNothing(v) /\ v.status \notin FilledStatuses)
  <2>1. PICK k \in 1..Len(call.bars), q \in 1..o.quantity : FillEvent(v, o, k, q)
    BY <1>1, <1>5 DEF EventOf, FilledStatuses
  <2>2. v.result_id = o.id
    BY <1>1, <1>5 DEF EventOf
  <2>3. v.filled <= o.quantity /\ call.bars[v.bar].market = o.market
    BY <1>2, <2>1 DEF FillEvent
  <2> QED BY <1>5, <2>2, <2>3 DEF v, e
<1> QED BY <1>3, <1>4, <1>5

\* Whatever is blocked around it, an order's event bears its own result, for
\* no more than its capped quantity, on a bar of its market.
THEOREM EvidenceIsOwn == Spec => []OwnEvidence
<1> QED BY DayAlways, OwnEvidenceHolds, PTL

\* Only market data or orders the replay refuses make the gateway raise: its
\* lifecycle contracts accept every result a replay can produce.
THEOREM GatewayAccepts == Spec => []OnlyReplayRefuses
<1>1. DayInv => OnlyReplayRefuses
  BY AcceptedSucceeds DEF DayInv, OnlyReplayRefuses
<1> QED BY <1>1, DayAlways, PTL

\* Over any number of days the logged fills account for the desk's balances,
\* unless a closing state was the caller's word.
THEOREM BalancesExplained == Spec => []LogsExplainBalances
<1>1. DayInv => LogsExplainBalances
  BY DEF DayInv, LogsExplainBalances
<1> QED BY <1>1, DayAlways, PTL
-----------------------------------------------------------------------------
(* The properties of the two reports. *)

Rows(report) == {i \in DOMAIN report.events : IsFill(report.events[i])}
Flagged(report, quotes) == {i \in DOMAIN report.events : IssueCode(report.events[i], quotes) # {}}

\* What a day's cost report holds, by position.
LEMMA TcaOfDay ==
  ASSUME NEW report, NEW quotes
  PROVE  LET t == TcaReport(report, quotes)
             events == report.events
         IN /\ DOMAIN t.rows = Rows(report) /\ DOMAIN t.issues = Flagged(report, quotes)
            /\ \A i \in Rows(report) : t.rows[i] = TcaRow(events[i], quotes)
            /\ \A i \in Flagged(report, quotes) :
                 /\ t.issues[i].risk_id = events[i].risk_id
                 /\ t.issues[i].code \in IssueCode(events[i], quotes)
<1> DEFINE t == TcaReport(report, quotes)
           events == report.events
           fills == RestrictValues(events, LAMBDA v : v.status \in FilledStatuses)
           flagged == RestrictValues(events, LAMBDA v : IssueCode(v, quotes) # {})
<1>1. fills = [i \in Rows(report) |-> events[i]]
  BY DEF RestrictValues, Restrict, Rows, IsFill
<1>2. flagged = [i \in Flagged(report, quotes) |-> events[i]]
  BY DEF RestrictValues, Restrict, Flagged
<1>3. /\ t.rows = [i \in DOMAIN fills |-> TcaRow(fills[i], quotes)]
      /\ t.issues = [i \in DOMAIN flagged |->
                       [risk_id |-> flagged[i].risk_id,
                        code |-> CHOOSE c \in IssueCode(flagged[i], quotes) : TRUE]]
  BY DEF TcaReport
<1>4. \A i \in Flagged(report, quotes) :
        (CHOOSE c \in IssueCode(events[i], quotes) : TRUE) \in IssueCode(events[i], quotes)
  <2> TAKE i \in Flagged(report, quotes)
  <2>1. IssueCode(events[i], quotes) # {}
    BY DEF Flagged
  <2> QED BY <2>1
<1> HIDE DEF t, fills, flagged
<1>5. DOMAIN t.rows = Rows(report) /\ \A i \in Rows(report) : t.rows[i] = TcaRow(events[i], quotes)
  BY <1>1, <1>3
<1>6. /\ DOMAIN t.issues = Flagged(report, quotes)
      /\ \A i \in Flagged(report, quotes) :
           /\ t.issues[i].risk_id = events[i].risk_id
           /\ t.issues[i].code = CHOOSE c \in IssueCode(events[i], quotes) : TRUE
  BY <1>2, <1>3
<1> QED BY <1>4, <1>5, <1>6 DEF t

\* A fill raises an issue when no quote could be seen; every other event
\* raises one of its own.
LEMMA IssueCodes ==
  ASSUME NEW e, NEW v, EventOf(v, e), NEW quotes
  PROVE  /\ IsFill(v) => IssueCode(v, quotes) =
              IF ArrivalQuote(v, quotes) = {} THEN {"missing_arrival_quote"} ELSE {}
         /\ ~ IsFill(v) => \E c \in {"risk_blocked", "gateway_rejected", "gateway_unfilled"} :
                             IssueCode(v, quotes) = {c}
<1>1. CASE IsFill(v)
  BY <1>1 DEF IssueCode, IsFill
<1>2. CASE ~ IsFill(v)
  <2>1. v.status \in {"blocked", "rejected", "unfilled"}
    BY <1>2 DEF EventOf, FillEvent, IsFill, FilledStatuses
  <2>2. IssueCode(v, quotes) = NoFillCode(v.status)
    BY <1>2 DEF IssueCode, IsFill
  <2> QED BY <1>2, <2>1, <2>2 DEF NoFillCode
<1> QED BY <1>1, <1>2

LEMMA ReportsOfDay ==
  ASSUME DayInv
  PROVE  \A t \in tca : \E report \in gateway :
           /\ t.report = TcaReport(report, t.quotes)
           /\ \A s \in session : SessionOf(s, report)
<1> QED BY DEF DayInv

LEMMA TcaMatches == DayInv => TcaMatchesSession
<1> SUFFICES ASSUME DayInv, NEW s \in session, NEW t \in tca
             PROVE  /\ [i \in DOMAIN s.fills |-> s.fills[i].risk_id]
                         = [i \in DOMAIN t.report.rows |-> t.report.rows[i].risk_id]
                    /\ [i \in DOMAIN s.rejections |-> s.rejections[i].risk_id]
                         = [i \in {i \in DOMAIN t.report.issues :
                                     t.report.issues[i].code # "missing_arrival_quote"}
                              |-> t.report.issues[i].risk_id]
                    /\ s.cost = Total(t.report.rows, LAMBDA r : r.predicted)
  BY DEF TcaMatchesSession
<1>1. PICK report \in gateway : t.report = TcaReport(report, t.quotes) /\ SessionOf(s, report)
  BY ReportsOfDay
<1> DEFINE events == report.events
           rows == t.report.rows
           issues == t.report.issues
<1>2. /\ DOMAIN rows = Rows(report) /\ DOMAIN issues = Flagged(report, t.quotes)
      /\ \A i \in Rows(report) : rows[i] = TcaRow(events[i], t.quotes)
      /\ \A i \in Flagged(report, t.quotes) :
           /\ issues[i].risk_id = events[i].risk_id
           /\ issues[i].code \in IssueCode(events[i], t.quotes)
  BY <1>1, TcaOfDay
<1>3. /\ s.fills = [i \in Rows(report) |-> events[i]]
      /\ s.cost = Total(s.fills, PredictedCost)
  BY <1>1 DEF SessionOf, FillLogs, RestrictValues, Restrict, Rows
<1>4. s.rejections = [i \in DOMAIN events \ Rows(report) |-> events[i]]
  <2>1. {i \in DOMAIN events : ~ IsFill(events[i])} = DOMAIN events \ Rows(report)
    BY DEF Rows
  <2> QED BY <1>1, <2>1 DEF SessionOf, RejectionLogs, RestrictValues, Restrict
<1>5. \A v : \A quotes : TcaRow(v, quotes).risk_id = v.risk_id
                         /\ TcaRow(v, quotes).predicted = PredictedCost(v)
  BY DEF TcaRow
<1>6. \A i \in DOMAIN events : EventOf(events[i], call.batch[i])
  BY ReportOfDay
<1> HIDE DEF rows, issues, events
<1>7. [i \in DOMAIN s.fills |-> s.fills[i].risk_id] = [i \in DOMAIN rows |-> rows[i].risk_id]
  BY <1>2, <1>3, <1>5
<1>8. {i \in DOMAIN issues : issues[i].code # "missing_arrival_quote"} = DOMAIN events \ Rows(report)
  <2>1. DOMAIN issues \subseteq DOMAIN events /\ Rows(report) \subseteq DOMAIN events
    BY <1>2 DEF Flagged, Rows, events
  <2>2. ASSUME NEW i \in DOMAIN events
        PROVE  i \in DOMAIN issues /\ issues[i].code # "missing_arrival_quote" <=> i \notin Rows(report)
    <3> DEFINE code == IssueCode(events[i], t.quotes)
    <3>1. CASE IsFill(events[i])
      <4>1. code = {"missing_arrival_quote"} \/ code = {}
        BY <1>6, <3>1, IssueCodes
      <4>2. i \in DOMAIN issues => code # {} /\ issues[i].code \in code
        BY <1>2
      <4>3. i \in Rows(report)
        BY <3>1 DEF Rows, events
      <4> HIDE DEF code
      <4> QED BY <4>1, <4>2, <4>3
    <3>2. CASE ~ IsFill(events[i])
      <4>1. PICK c \in {"risk_blocked", "gateway_rejected", "gateway_unfilled"} : code = {c}
        BY <1>6, <3>2, IssueCodes
      <4>2. i \in Flagged(report, t.quotes)
        BY <4>1 DEF Flagged, events
      <4>3. i \in DOMAIN issues /\ issues[i].code \in code
        BY <1>2, <4>2
      <4>4. issues[i].code = c
        <5> HIDE DEF code
        <5> QED BY <4>1, <4>3
      <4>5. i \notin Rows(report)
        BY <3>2 DEF Rows, events
      <4> QED BY <4>1, <4>3, <4>4, <4>5
    <3> QED BY <3>1, <3>2
  <2> QED BY <2>1, <2>2
<1>9. \A i \in DOMAIN events \ Rows(report) : issues[i].risk_id = events[i].risk_id
  <2>1. \A i \in DOMAIN events \ Rows(report) : i \in DOMAIN issues
    BY <1>8
  <2> QED BY <1>2, <2>1
<1>10. [i \in DOMAIN s.rejections |-> s.rejections[i].risk_id]
         = [i \in {i \in DOMAIN issues : issues[i].code # "missing_arrival_quote"} |-> issues[i].risk_id]
  BY <1>4, <1>8, <1>9
<1>11. [i \in DOMAIN s.fills |-> PredictedCost(s.fills[i])] = [i \in DOMAIN rows |-> rows[i].predicted]
  BY <1>2, <1>3, <1>5
<1>12. Total(s.fills, PredictedCost) = Total(rows, LAMBDA r : r.predicted)
  BY <1>11 DEF Total
<1> QED BY <1>3, <1>7, <1>10, <1>12 DEF rows, issues

\* The session report and the cost report of a day name the same fills and
\* the same rejections, and add up to the same predicted cost.
THEOREM ReportsAgree == Spec => []TcaMatchesSession
<1> QED BY DayAlways, TcaMatches, PTL

\* Delivered in another order that keeps ties, a quote is preferred to the same
\* quotes as before.
LEMMA PreferredMoves ==
  ASSUME NEW quotes, DOMAIN quotes \subseteq Nat,
         NEW order \in Bijection(DOMAIN quotes, DOMAIN quotes), KeepsTies(quotes, order),
         NEW others, others = [i \in DOMAIN quotes |-> quotes[order[i]]],
         NEW i \in DOMAIN quotes, NEW j \in DOMAIN quotes,
         others[i].market = others[j].market
  PROVE  Preferred(others, i, j) <=> Preferred(quotes, order[i], order[j])
<1> DEFINE q == others[i]
           p == others[j]
           tied == p.ts = q.ts /\ p.id = q.id
<1>1. /\ order[i] \in DOMAIN quotes /\ order[j] \in DOMAIN quotes
      /\ q = quotes[order[i]] /\ p = quotes[order[j]]
  BY DEF Bijection, Injection
<1>2. i \in Nat /\ j \in Nat /\ order[i] \in Nat /\ order[j] \in Nat
  BY <1>1
<1>3. tied /\ i < j => order[i] < order[j]
  BY <1>1 DEF KeepsTies
<1>4. tied /\ j < i => order[j] < order[i]
  BY <1>1 DEF KeepsTies
<1>5. tied => (i <= j <=> order[i] <= order[j])
  <2> HIDE DEF tied
  <2> QED BY <1>2, <1>3, <1>4
<1> QED BY <1>1, <1>5 DEF Preferred

\* An arrival quote does not depend on an order that keeps ties.
LEMMA ArrivalMoves ==
  ASSUME NEW quotes, DOMAIN quotes \subseteq Nat,
         NEW order \in Bijection(DOMAIN quotes, DOMAIN quotes), KeepsTies(quotes, order),
         NEW others, others = [i \in DOMAIN quotes |-> quotes[order[i]]], NEW v
  PROVE  ArrivalQuote(v, others) = ArrivalQuote(v, quotes)
<1> DEFINE past(s) == {i \in DOMAIN s : s[i].market = v.order.market /\ s[i].ts <= v.order.submitted}
           best(s) == {i \in past(s) : \A j \in past(s) : Preferred(s, i, j)}
           was == {quotes[i] : i \in best(quotes)}
           now == {others[i] : i \in best(others)}
<1>1. /\ \A i \in DOMAIN quotes : order[i] \in DOMAIN quotes /\ others[i] = quotes[order[i]]
      /\ \A i \in DOMAIN quotes : \E k \in DOMAIN quotes : order[k] = i
      /\ DOMAIN others = DOMAIN quotes
  BY DEF Bijection, Injection, Surjection
<1>2. \A i \in DOMAIN quotes : i \in past(others) <=> order[i] \in past(quotes)
  BY <1>1
<1>3. \A i, j \in past(others) : Preferred(others, i, j) <=> Preferred(quotes, order[i], order[j])
  <2> SUFFICES ASSUME NEW i \in past(others), NEW j \in past(others)
               PROVE  Preferred(others, i, j) <=> Preferred(quotes, order[i], order[j])
    OBVIOUS
  <2>1. i \in DOMAIN quotes /\ j \in DOMAIN quotes /\ others[i].market = others[j].market
    BY <1>1
  <2> HIDE DEF past
  <2> QED BY <2>1, PreferredMoves
<1>4. \A i \in past(others) : i \in best(others) <=> order[i] \in best(quotes)
  <2> SUFFICES ASSUME NEW i \in past(others)
               PROVE  i \in best(others) <=> order[i] \in best(quotes)
    OBVIOUS
  <2>1. order[i] \in past(quotes)
    BY <1>1, <1>2
  <2>2. ASSUME i \in best(others), NEW j \in past(quotes)
        PROVE  Preferred(quotes, order[i], j)
    <3>1. PICK k \in DOMAIN quotes : order[k] = j
      BY <1>1, <2>2
    <3>2. k \in past(others)
      BY <1>2, <2>2, <3>1
    <3> HIDE DEF past
    <3> QED BY <1>3, <2>2, <3>1, <3>2
  <2>3. ASSUME order[i] \in best(quotes), NEW j \in past(others)
        PROVE  Preferred(others, i, j)
    <3>1. order[j] \in past(quotes)
      BY <1>1, <1>2
    <3> HIDE DEF past
    <3> QED BY <1>3, <2>3, <3>1
  <2> HIDE DEF past
  <2> QED BY <2>1, <2>2, <2>3
<1>5. ArrivalQuote(v, others) = now /\ ArrivalQuote(v, quotes) = was
  BY DEF ArrivalQuote
<1>6. best(others) \subseteq past(others) /\ best(quotes) \subseteq past(quotes)
  OBVIOUS
<1>7. past(others) \subseteq DOMAIN quotes /\ past(quotes) \subseteq DOMAIN quotes
  BY <1>1
<1> HIDE DEF past, best
<1>8. now \subseteq was
  BY <1>1, <1>4, <1>6, <1>7
<1>9. was \subseteq now
  <2> SUFFICES ASSUME NEW i \in best(quotes)
               PROVE  \E k \in best(others) : others[k] = quotes[i]
    OBVIOUS
  <2>1. PICK k \in DOMAIN quotes : order[k] = i
    BY <1>1, <1>6, <1>7
  <2>2. k \in past(others)
    BY <1>2, <1>6, <2>1
  <2> QED BY <1>1, <1>4, <2>1, <2>2
<1> HIDE DEF was, now
<1> QED BY <1>5, <1>8, <1>9

\* A cost report depends on the arrival quotes alone.
LEMMA ReportOfArrivals ==
  ASSUME NEW report, NEW quotes, NEW others,
         \A v : ArrivalQuote(v, others) = ArrivalQuote(v, quotes)
  PROVE  TcaReport(report, others) = TcaReport(report, quotes)
<1>1. \A v : ArrivalQuote(v, others) = ArrivalQuote(v, quotes)
  OBVIOUS
<1>2. \A v : TcaRow(v, others) = TcaRow(v, quotes)
  BY <1>1 DEF TcaRow
<1>3. \A v : IssueCode(v, others) = IssueCode(v, quotes)
  BY <1>1 DEF IssueCode
<1> DEFINE fills == RestrictValues(report.events, LAMBDA v : v.status \in FilledStatuses)
           flagged(q) == RestrictValues(report.events, LAMBDA v : IssueCode(v, q) # {})
           rows(q) == [i \in DOMAIN fills |-> TcaRow(fills[i], q)]
           issues(q) == [i \in DOMAIN flagged(q) |->
                           [risk_id |-> flagged(q)[i].risk_id,
                            code |-> CHOOSE c \in IssueCode(flagged(q)[i], q) : TRUE]]
<1>4. flagged(others) = flagged(quotes)
  BY <1>3 DEF RestrictValues, Restrict
<1>5. \A q : TcaReport(report, q) = [rows |-> rows(q), issues |-> issues(q)]
  BY DEF TcaReport
<1>6. rows(others) = rows(quotes)
  <2> HIDE DEF fills
  <2> QED BY <1>2
<1>7. issues(others) = issues(quotes)
  <2> HIDE DEF flagged
  <2> QED BY <1>3, <1>4
<1> HIDE DEF rows, issues
<1> QED BY <1>5, <1>6, <1>7

LEMMA QuoteOrder == DayInv => QuoteOrderIrrelevant
<1> SUFFICES ASSUME DayInv, NEW report \in gateway, NEW t \in tca
             PROVE  /\ \A order \in Bijection(DOMAIN t.quotes, DOMAIN t.quotes) :
                         KeepsTies(t.quotes, order) =>
                           TcaReport(report, [i \in DOMAIN t.quotes |-> t.quotes[order[i]]]) = t.report
                    /\ \A r \in Range(t.report.rows) : \A q \in r.quote :
                         \A v \in Range(report.events) :
                           v.risk_id = r.risk_id => q.ts <= v.order.submitted
  BY DEF QuoteOrderIrrelevant
<1>1. t.report = TcaReport(report, t.quotes)
  BY DEF DayInv
<1>2. ASSUME NEW order \in Bijection(DOMAIN t.quotes, DOMAIN t.quotes), KeepsTies(t.quotes, order)
      PROVE  TcaReport(report, [i \in DOMAIN t.quotes |-> t.quotes[order[i]]]) = t.report
  <2> DEFINE quotes == t.quotes
             others == [i \in DOMAIN quotes |-> quotes[order[i]]]
  <2>1. quotes \in Seq(QuoteEvent)
    BY QuotesAssumption DEF DayInv
  <2>2. DOMAIN quotes \subseteq Nat
    <3> HIDE DEF quotes
    <3> QED BY <2>1
  <2>3. \A v : ArrivalQuote(v, others) = ArrivalQuote(v, quotes)
    BY <1>2, <2>2, ArrivalMoves
  <2> HIDE DEF others
  <2>4. TcaReport(report, others) = TcaReport(report, quotes)
    BY <2>3, ReportOfArrivals
  <2> QED BY <1>1, <2>4 DEF others
<1>3. ASSUME NEW r \in Range(t.report.rows), NEW q \in r.quote,
             NEW v \in Range(report.events), v.risk_id = r.risk_id
      PROVE  q.ts <= v.order.submitted
  <2> DEFINE n == Len(call.batch)
             events == report.events
             batch == call.batch
  <2>1. /\ DOMAIN t.report.rows = Rows(report)
        /\ \A i \in Rows(report) : t.report.rows[i] = TcaRow(events[i], t.quotes)
    BY <1>1, TcaOfDay
  <2>2. PICK i \in Rows(report) : r = TcaRow(events[i], t.quotes)
    BY <2>1 DEF Range
  <2>3. PICK j \in DOMAIN events : v = events[j]
    BY DEF Range
  <2>4. /\ i \in 1..n /\ batch[i] \in RiskEvents /\ EventOf(events[i], batch[i])
        /\ j \in 1..n /\ batch[j] \in RiskEvents /\ EventOf(v, batch[j])
    BY <2>2, <2>3, ReportOfDay DEF Rows
  <2>5. r.risk_id = events[i].risk_id /\ r.quote = ArrivalQuote(events[i], t.quotes)
    BY <2>2 DEF TcaRow
  <2>6. q.ts <= events[i].order.submitted
    BY <2>5 DEF ArrivalQuote
  <2> HIDE DEF events, batch
  <2>7. batch[i].id = batch[j].id
    BY <1>3, <2>4, <2>5 DEF EventOf
  <2>8. batch[i] = batch[j]
    BY <2>4, <2>7, RiskEventsAssumption
  <2>9. events[i].order = v.order
    BY <2>4, <2>8 DEF EventOf
  <2> QED BY <2>6, <2>9
<1> QED BY <1>2, <1>3

\* The cost report is the same for every order its quotes can be delivered in
\* that keeps those of one market, time and id apart, and its rows look at no
\* quote younger than the order.
THEOREM DeliveryOrderIrrelevant == Spec => []QuoteOrderIrrelevant
<1> QED BY DayAlways, QuoteOrder, PTL

\* What was paid above the reference, and what the cost model put on top of
\* it, are one product.
LEMMA AdverseIsSpread ==
  ASSUME CallTyped, NEW o \in Simulator!OrderIntent, NEW v, v.order = o,
         NEW i \in 1..Len(call.bars), NEW q \in 1..o.quantity, FillEvent(v, o, i, q)
  PROVE  2 * v.fee + AdverseCost(v, 2 * v.reference) = PredictedCost(v)
<1> DEFINE x == call.bars[i].price * q
           signed == IF o.side = "buy" THEN Adverse ELSE - Adverse
<1>1. /\ v.notional = x * (Scale + signed) * Scale /\ v.reference = x * Scale * Scale
      /\ v.spread = x * Scale * Adverse
  BY DEF FillEvent
<1> DEFINE A == x * Scale * Scale
           B == x * Scale * Adverse
<1>2. x \in Nat /\ v.fee \in Nat /\ Adverse \in Nat /\ Scale \in Nat
  BY FillNumbers, CostFields
<1>3. o.side \in {"buy", "sell"}
  BY DEF Simulator!OrderIntent
<1> HIDE DEF x
<1>4. A \in Nat /\ B \in Nat
  <2>1. x * Scale \in Nat
    BY <1>2
  <2> QED BY <1>2, <2>1
<1>5. CASE o.side = "buy"
  <2>1. v.notional = x * (Scale + Adverse) * Scale
    BY <1>1, <1>5
  <2>2. x * (Scale + Adverse) * Scale = x * Scale * Scale + x * Scale * Adverse
    BY <1>2
  <2>3. AdverseCost(v, 2 * v.reference) = 2 * v.notional - 2 * v.reference
    BY <1>5 DEF AdverseCost
  <2>4. v.notional = A + B /\ v.reference = A /\ v.spread = B
    BY <1>1, <2>1, <2>2
  <2> HIDE DEF A, B
  <2> QED BY <1>2, <1>4, <2>3, <2>4 DEF PredictedCost
<1>6. CASE o.side # "buy"
  <2>1. v.notional = x * (Scale - Adverse) * Scale
    BY <1>1, <1>2, <1>6
  <2>2. x * (Scale - Adverse) * Scale = x * Scale * Scale - x * Scale * Adverse
    BY <1>2
  <2>3. AdverseCost(v, 2 * v.reference) = 2 * v.reference - 2 * v.notional
    BY <1>6 DEF AdverseCost
  <2>4. v.notional = A - B /\ v.reference = A /\ v.spread = B
    BY <1>1, <2>1, <2>2
  <2> HIDE DEF A, B
  <2> QED BY <1>2, <1>4, <2>3, <2>4 DEF PredictedCost
<1> QED BY <1>5, <1>6

LEMMA FallbackNeutral == DayInv => FallbackIsNeutral
<1> SUFFICES ASSUME DayInv, NEW t \in tca, NEW r \in Range(t.report.rows), r.quote = {}
             PROVE  r.realized = r.predicted
  BY DEF FallbackIsNeutral
<1>1. PICK report \in gateway : t.report = TcaReport(report, t.quotes)
  BY ReportsOfDay
<1>2. /\ DOMAIN t.report.rows = Rows(report)
      /\ \A i \in Rows(report) : t.report.rows[i] = TcaRow(report.events[i], t.quotes)
  BY <1>1, TcaOfDay
<1>3. PICK i \in Rows(report) : r = TcaRow(report.events[i], t.quotes)
  BY <1>2 DEF Range
<1> DEFINE v == report.events[i]
           e == call.batch[i]
           o == e.approved
<1>4. e \in RiskEvents /\ EventOf(v, e) /\ IsFill(v) /\ CallTyped
  BY <1>3, ReportOfDay DEF Rows
<1>5. o \in Simulator!OrderIntent
  BY <1>4, RiskEventsAssumption
<1>6. /\ r.quote = ArrivalQuote(v, t.quotes) /\ r.predicted = PredictedCost(v)
      /\ r.quote = {} => r.realized = 2 * v.fee + AdverseCost(v, 2 * v.reference)
  BY <1>3 DEF TcaRow
<1> HIDE DEF v, e
<1>7. v.order = o /\ \E k \in 1..Len(call.bars), q \in 1..o.quantity : FillEvent(v, o, k, q)
  BY <1>4 DEF EventOf, IsFill, FilledStatuses
<1>8. 2 * v.fee + AdverseCost(v, 2 * v.reference) = PredictedCost(v)
  BY <1>4, <1>5, <1>7, AdverseIsSpread
<1> QED BY <1>6, <1>8

\* Without a quote to measure against, a fill's realized cost is the cost its
\* model predicted, to the last unit.
THEOREM FallbackPredicts == Spec => []FallbackIsNeutral
<1> QED BY DayAlways, FallbackNeutral, PTL
-----------------------------------------------------------------------------
(* The alerts. *)

\* Every rule has its metric, and the threshold written there is its own.
LEMMA RuledMetrics ==
  ASSUME NEW s, NEW t, NEW risks, NEW signals, NEW r \in DefaultRules
  PROVE  LET metrics == Metrics(s, t, risks, signals)
         IN /\ r.metric \in DOMAIN metrics /\ r.operator = "gt"
            /\ metrics[r.metric].threshold = {r.threshold}
<1> DEFINE metrics == Metrics(s, t, risks, signals)
<1>1. r \in {Rule("data_stale", "data_stale", 0), Rule("execution_tca_error", "tca_errors", 0),
             Rule("order_reject", "order_rejects", 0), Rule("portfolio_drawdown", "drawdown", 5),
             Rule("portfolio_accounting", "linkage_gap", 0),
             Rule("risk_kill_switch", "kill_blocks", 0),
             Rule("risk_pre_trade_block", "risk_blocks", 0)}
  BY DEF DefaultRules
<1>2. /\ r.operator = "gt"
      /\ \/ /\ r.metric \in {"data_stale", "tca_errors", "order_rejects", "linkage_gap",
                              "kill_blocks", "risk_blocks"}
            /\ r.threshold = 0
         \/ r.metric = "drawdown" /\ r.threshold = 5
  BY <1>1 DEF Rule
<1>3. /\ {"data_stale", "tca_errors", "order_rejects", "linkage_gap", "kill_blocks",
          "risk_blocks", "drawdown"} \subseteq DOMAIN metrics
      /\ metrics["data_stale"].threshold = {0} /\ metrics["tca_errors"].threshold = {0}
      /\ metrics["order_rejects"].threshold = {0} /\ metrics["linkage_gap"].threshold = {0}
      /\ metrics["kill_blocks"].threshold = {0} /\ metrics["risk_blocks"].threshold = {0}
      /\ metrics["drawdown"].threshold = {5}
  BY DEF Metrics, Metric
<1> HIDE DEF metrics
<1>4. r.metric \in DOMAIN metrics /\ metrics[r.metric].threshold = {r.threshold}
  BY <1>2, <1>3
<1> QED BY <1>2, <1>4 DEF metrics

\* So a rule alerts exactly when its metric is over its threshold.
LEMMA AlertMeans ==
  ASSUME NEW s, NEW t, NEW risks, NEW signals, NEW r \in DefaultRules
  PROVE  LET metric == Metrics(s, t, risks, signals)[r.metric]
         IN /\ r \in Alerts(s, t, risks, signals) <=> metric.value > r.threshold
            /\ IsBreached(metric) <=> metric.value > r.threshold
<1> DEFINE metrics == Metrics(s, t, risks, signals)
           metric == metrics[r.metric]
<1>1. r.metric \in DOMAIN metrics /\ r.operator = "gt" /\ metric.threshold = {r.threshold}
  BY RuledMetrics
<1>2. Alerts(s, t, risks, signals) =
        {x \in DefaultRules : x.metric \in DOMAIN metrics /\ RuleBreaches(x, metrics[x.metric])}
  BY DEF Alerts
<1> HIDE DEF metrics
<1>3. RuleBreaches(r, metric) <=> metric.value > r.threshold
  BY <1>1 DEF RuleBreaches
<1>4. IsBreached(metric) <=> metric.value > r.threshold
  BY <1>1 DEF IsBreached
<1> QED BY <1>1, <1>2, <1>3, <1>4 DEF metrics

\* A panel and the alert of its metric never disagree, though their
\* thresholds are written down twice.
THEOREM PanelsAgreeWithAlerts == Spec => []RoutedMeansBreached
<1>1. RoutedMeansBreached
  BY AlertMeans DEF RoutedMeansBreached
<1> QED BY <1>1, PTL

LEMMA QuietClean == DayInv => QuietDayIsClean
<1> SUFFICES ASSUME DayInv, NEW report \in gateway, NEW s \in session, NEW t \in tca,
                    NEW risks \in RiskEvidence, NEW signals \in SignalSets,
                    Alerts(s, t.report, risks, signals) = {}
             PROVE  /\ \A v \in Range(report.events) : IsFill(v)
                    /\ \A r \in Range(t.report.rows) : r.quote # {}
                    /\ s.source # "explicit_linkage"
  BY DEF QuietDayIsClean
<1> DEFINE metrics == Metrics(s, t.report, risks, signals)
           events == report.events
           issues == t.report.issues
<1>1. t.report = TcaReport(report, t.quotes)
  BY DEF DayInv
<1>2. /\ DOMAIN events = 1..Len(call.batch) /\ Len(call.batch) \in Nat
      /\ \A i \in DOMAIN events : EventOf(events[i], call.batch[i])
  BY ReportOfDay
<1>3. ASSUME NEW r \in DefaultRules
      PROVE  ~ (metrics[r.metric].value > r.threshold)
  BY <1>3, AlertMeans
<1>4. DOMAIN issues = {}
  <2>1. Rule("execution_tca_error", "tca_errors", 0) \in DefaultRules
    BY DEF DefaultRules
  <2>2. metrics["tca_errors"].value = Cardinality(DOMAIN issues)
    BY DEF Metrics, Metric
  <2>3. ~ (Cardinality(DOMAIN issues) > 0)
    <3> HIDE DEF metrics
    <3>1. ~ (metrics[Rule("execution_tca_error", "tca_errors", 0).metric].value
               > Rule("execution_tca_error", "tca_errors", 0).threshold)
      BY <1>3, <2>1
    <3> QED BY <2>2, <3>1 DEF Rule
  <2>4. IsFiniteSet(DOMAIN issues)
    <3>1. DOMAIN issues = Flagged(report, t.quotes)
      BY <1>1, TcaOfDay
    <3>2. DOMAIN issues \subseteq 1..Len(call.batch)
      BY <1>2, <3>1 DEF Flagged
    <3>3. IsFiniteSet(1..Len(call.batch))
      BY <1>2, FS_Interval
    <3> QED BY <3>2, <3>3, FS_Subset
  <2> HIDE DEF issues
  <2>5. Cardinality(DOMAIN issues) \in Nat
    BY <2>4, FS_CardinalityType
  <2>6. Cardinality(DOMAIN issues) = 0
    BY <2>3, <2>5
  <2> QED BY <2>4, <2>6, FS_EmptySet
<1>5. \A i \in DOMAIN events : IssueCode(events[i], t.quotes) = {}
  <2>1. Flagged(report, t.quotes) = {}
    BY <1>1, <1>4, TcaOfDay
  <2> QED BY <2>1 DEF Flagged
<1>6. \A i \in DOMAIN events : IsFill(events[i]) /\ ArrivalQuote(events[i], t.quotes) # {}
  BY <1>2, <1>5, IssueCodes
<1>7. \A r \in Range(t.report.rows) : r.quote # {}
  <2>1. /\ DOMAIN t.report.rows = Rows(report)
        /\ \A i \in Rows(report) : t.report.rows[i] = TcaRow(events[i], t.quotes)
    BY <1>1, TcaOfDay
  <2>2. \A v : TcaRow(v, t.quotes).quote = ArrivalQuote(v, t.quotes)
    BY DEF TcaRow
  <2>3. \A i \in Rows(report) : i \in DOMAIN events
    BY DEF Rows
  <2> QED BY <1>6, <2>1, <2>2, <2>3 DEF Range
<1>8. s.source # "explicit_linkage"
  <2>1. Rule("portfolio_accounting", "linkage_gap", 0) \in DefaultRules
    BY DEF DefaultRules
  <2>2. metrics["linkage_gap"].value = LinkageGap(s)
    BY DEF Metrics, Metric
  <2>3. ~ (LinkageGap(s) > 0)
    <3> HIDE DEF metrics
    <3>1. ~ (metrics[Rule("portfolio_accounting", "linkage_gap", 0).metric].value
               > Rule("portfolio_accounting", "linkage_gap", 0).threshold)
      BY <1>3, <2>1
    <3> QED BY <2>2, <3>1 DEF Rule
  <2> QED BY <2>3 DEF LinkageGap
<1> QED BY <1>6, <1>7, <1>8 DEF Range

\* No alert, whatever risk events the caller left out: every order was filled
\* and measured against a quote, and no balance was the caller's word.
THEOREM QuietMeansClean == Spec => []QuietDayIsClean
<1> QED BY DayAlways, QuietClean, PTL
=============================================================================
