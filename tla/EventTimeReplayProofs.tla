------------------------ MODULE EventTimeReplayProofs ------------------------
(***************************************************************************)
(* Proofs about EventTimeReplay, for all bars, batches, cost models,       *)
(* constraints and opening balances.                                       *)
(*                                                                         *)
(* A run is a loop over the batch, so its state is always one of the       *)
(* States of the same replay (RunInv); what the properties say is proved   *)
(* of States by induction on the number of orders replayed.                *)
(***************************************************************************)
EXTENDS EventTimeReplay, FiniteSetTheorems, WellFoundedInduction, TLAPS

-----------------------------------------------------------------------------
(* Numbers.  UpToBound is induction without an operator parameter. *)

\* A set of naturals has a least member, "<" being well-founded.
LEMMA LeastNatural ==
  ASSUME NEW S \in SUBSET Nat, S # {}
  PROVE  \E m \in S : \A n \in S : m <= n
<1> DEFINE R == OpToRel(<, Nat)
<1>1. IsWellFoundedOn(R, Nat)
  BY NatLessThanWellFounded
<1>2. \A x, y \in Nat : x < y => <<x, y>> \in R
  BY DEF OpToRel
<1> HIDE DEF R
<1>3. PICK m \in S : \A n \in S : ~ (<<n, m>> \in R)
  BY <1>1, WFMin
<1>4. m \in Nat /\ \A n \in S : n \in Nat /\ ~ (n < m)
  BY <1>2, <1>3
<1> QED BY <1>4

\* Induction up to a bound, over a set: the least number it misses is neither
\* 0 nor a successor.
LEMMA UpToBound ==
  ASSUME NEW bound \in Nat, NEW Good, 0 \in Good,
         \A n \in 0..(bound - 1) : n \in Good => n + 1 \in Good
  PROVE  \A n \in 0..bound : n \in Good
<1> DEFINE missed == {n \in 0..bound : n \notin Good}
<1> SUFFICES ASSUME missed # {} PROVE FALSE
  OBVIOUS
<1>1. PICK m \in missed : \A n \in missed : m <= n
  <2>1. missed \in SUBSET Nat
    OBVIOUS
  <2> HIDE DEF missed
  <2> QED BY <2>1, LeastNatural
<1>2. m # 0 /\ m \in Nat /\ m \notin Good /\ m <= bound
  OBVIOUS
<1>3. m - 1 \in 0..(bound - 1) /\ m - 1 \notin missed
  BY <1>1, <1>2
<1>4. m - 1 \in Good
  BY <1>2, <1>3
<1>5. (m - 1) + 1 \in Good
  BY <1>3, <1>4
<1> QED BY <1>2, <1>5

-----------------------------------------------------------------------------
(* Totals. *)

IsTotal(sum, base, flows, bound) ==
  sum = [n \in 0..bound |-> IF n = 0 THEN base ELSE sum[n - 1] + flows[n]]

\* The recursion has a solution, one flow after the other.
LEMMA TotalExists ==
  ASSUME NEW base, NEW flows, NEW bound \in Nat
  PROVE  \E sum : IsTotal(sum, base, flows, bound)
<1> DEFINE Good == {n \in 0..bound : \E sum : IsTotal(sum, base, flows, n)}
<1>1. 0 \in Good
  <2>1. IsTotal([n \in 0..0 |-> base], base, flows, 0)
    BY DEF IsTotal
  <2> QED BY <2>1
<1>2. ASSUME NEW n \in 0..(bound - 1), n \in Good PROVE n + 1 \in Good
  <2>1. PICK sum : IsTotal(sum, base, flows, n)
    BY <1>2
  <2> DEFINE longer == [k \in 0..(n + 1) |-> IF k = n + 1 THEN sum[n] + flows[n + 1] ELSE sum[k]]
  <2>2. \A k \in 0..n : sum[k] = IF k = 0 THEN base ELSE sum[k - 1] + flows[k]
    BY <2>1 DEF IsTotal
  <2>3. \A k \in 0..(n + 1) : longer[k] = IF k = 0 THEN base ELSE longer[k - 1] + flows[k]
    BY <2>2
  <2>4. IsTotal(longer, base, flows, n + 1)
    BY <2>3 DEF IsTotal
  <2> QED BY <2>4
<1>3. \A n \in 0..bound : n \in Good
  <2> HIDE DEF Good
  <2> QED BY <1>1, <1>2, UpToBound
<1> QED BY <1>3

LEMMA TotalUnique ==
  ASSUME NEW base, NEW flows, NEW more, NEW bound \in Nat, NEW length \in Nat, bound <= length,
         NEW a, IsTotal(a, base, flows, bound), NEW b, IsTotal(b, base, more, length),
         \A n \in 1..bound : flows[n] = more[n]
  PROVE  a[bound] = b[bound]
<1> DEFINE Good == {n \in 0..bound : a[n] = b[n]}
<1>1. 0 \in Good
  BY DEF IsTotal
<1>2. ASSUME NEW n \in 0..(bound - 1), n \in Good PROVE n + 1 \in Good
  <2>1. a[n + 1] = a[n] + flows[n + 1] /\ b[n + 1] = b[n] + more[n + 1]
    BY DEF IsTotal
  <2> QED BY <1>2, <2>1
<1>3. \A n \in 0..bound : n \in Good
  <2> HIDE DEF Good
  <2> QED BY <1>1, <1>2, UpToBound
<1> QED BY <1>3

\* What Total is: the last of its recursion's values.
LEMMA TotalIs ==
  ASSUME NEW base, NEW flows, Len(flows) \in Nat
  PROVE  \E sum : IsTotal(sum, base, flows, Len(flows)) /\ Total(base, flows) = sum[Len(flows)]
<1> DEFINE sum == CHOOSE f : IsTotal(f, base, flows, Len(flows))
<1>1. IsTotal(sum, base, flows, Len(flows))
  BY TotalExists
<1>2. Total(base, flows) = sum[Len(flows)]
  BY DEF Total, IsTotal
<1> QED BY <1>1, <1>2

LEMMA TotalEmpty ==
  ASSUME NEW base, NEW flows, Len(flows) = 0
  PROVE  Total(base, flows) = base
<1>1. PICK sum : IsTotal(sum, base, flows, 0) /\ Total(base, flows) = sum[0]
  BY TotalIs
<1> QED BY <1>1 DEF IsTotal

\* One more flow adds to the total.
LEMMA TotalAppend ==
  ASSUME NEW base, NEW flows, NEW more, NEW length \in Nat,
         Len(flows) = length, Len(more) = length + 1,
         \A n \in 1..length : flows[n] = more[n]
  PROVE  Total(base, more) = Total(base, flows) + more[length + 1]
<1>1. PICK a : IsTotal(a, base, flows, length) /\ Total(base, flows) = a[length]
  BY TotalIs
<1>2. PICK b : IsTotal(b, base, more, length + 1) /\ Total(base, more) = b[length + 1]
  BY TotalIs
<1>3. a[length] = b[length]
  BY <1>1, <1>2, TotalUnique
<1>4. b[length + 1] = b[length] + more[length + 1]
  BY <1>2 DEF IsTotal
<1> QED BY <1>1, <1>2, <1>3, <1>4
-----------------------------------------------------------------------------
(* Runs. *)

IsRun(run, bs, opening, is, bound) ==
  run = [n \in 0..bound |-> IF n = 0 THEN [balances |-> opening, results |-> <<>>]
                            ELSE Replayed(bs, run[n - 1], is[n])]

LEMMA RunExists ==
  ASSUME NEW bs, NEW opening, NEW is, NEW bound \in Nat
  PROVE  \E run : IsRun(run, bs, opening, is, bound)
<1> DEFINE Good == {n \in 0..bound : \E run : IsRun(run, bs, opening, is, n)}
<1>1. 0 \in Good
  <2>1. IsRun([n \in 0..0 |-> [balances |-> opening, results |-> <<>>]], bs, opening, is, 0)
    BY DEF IsRun
  <2> QED BY <2>1
<1>2. ASSUME NEW n \in 0..(bound - 1), n \in Good PROVE n + 1 \in Good
  <2>1. PICK run : IsRun(run, bs, opening, is, n)
    BY <1>2
  <2> DEFINE longer == [k \in 0..(n + 1) |-> IF k = n + 1 THEN Replayed(bs, run[n], is[n + 1])
                                             ELSE run[k]]
  <2>2. \A k \in 0..n : run[k] = IF k = 0 THEN [balances |-> opening, results |-> <<>>]
                                 ELSE Replayed(bs, run[k - 1], is[k])
    BY <2>1 DEF IsRun
  <2>3. \A k \in 0..(n + 1) : longer[k] = IF k = 0 THEN [balances |-> opening, results |-> <<>>]
                                          ELSE Replayed(bs, longer[k - 1], is[k])
    BY <2>2
  <2>4. IsRun(longer, bs, opening, is, n + 1)
    BY <2>3 DEF IsRun
  <2> QED BY <2>4
<1>3. \A n \in 0..bound : n \in Good
  <2> HIDE DEF Good
  <2> QED BY <1>1, <1>2, UpToBound
<1> QED BY <1>3

\* States starts from the opening balances and replays one order at a time.
LEMMA StatesStep ==
  ASSUME NEW bs, NEW opening, NEW is, Len(is) \in Nat
  PROVE  LET run == States(bs, opening, is)
         IN /\ run[0] = [balances |-> opening, results |-> <<>>]
            /\ \A n \in 0..(Len(is) - 1) : run[n + 1] = Replayed(bs, run[n], is[n + 1])
<1> DEFINE run == CHOOSE f : IsRun(f, bs, opening, is, Len(is))
<1>1. IsRun(run, bs, opening, is, Len(is))
  BY RunExists
<1>2. States(bs, opening, is) = run
  BY DEF States, IsRun
<1> HIDE DEF run
<1>3. run[0] = [balances |-> opening, results |-> <<>>]
  BY <1>1 DEF IsRun
<1>4. ASSUME NEW n \in 0..(Len(is) - 1) PROVE run[n + 1] = Replayed(bs, run[n], is[n + 1])
  <2>1. n + 1 \in 0..Len(is) /\ n + 1 # 0 /\ (n + 1) - 1 = n
    OBVIOUS
  <2> QED BY <1>1, <2>1 DEF IsRun
<1> QED BY <1>2, <1>3, <1>4
-----------------------------------------------------------------------------
(* The bar an order fills on. *)

\* The bar with so many eligible ones before it comes no sooner when fewer
\* bars are eligible.
LEMMA RankMonotone ==
  ASSUME NEW E \in SUBSET Nat, IsFiniteSet(E), NEW F \in SUBSET E, NEW i \in E, NEW k \in F,
         Cardinality({j \in E : j < i}) = Cardinality({j \in F : j < k})
  PROVE  i <= k
<1> SUFFICES ASSUME k < i PROVE FALSE
  OBVIOUS
<1> DEFINE below == {j \in F : j < k}
           all   == {j \in E : j < i}
<1>1. below \cup {k} \subseteq all /\ k \notin below
  <2>1. i \in Nat /\ k \in Nat /\ k \in E /\ \A j \in F : j \in Nat /\ j \in E
    OBVIOUS
  <2>2. ASSUME NEW j \in below PROVE j \in all
    <3>1. j \in Nat /\ j \in E /\ j < k
      BY <2>1
    <3>2. j < i
      BY <2>1, <3>1
    <3> QED BY <3>1, <3>2
  <2>3. k \notin below
    BY <2>1
  <2>4. k \in all
    BY <2>1
  <2> HIDE DEF below, all
  <2> QED BY <2>2, <2>3, <2>4
<1>2. IsFiniteSet(all) /\ IsFiniteSet(below)
  <2>1. all \subseteq E /\ below \subseteq E
    OBVIOUS
  <2> QED BY <2>1, FS_Subset
<1> HIDE DEF below, all
<1>3. Cardinality(below \cup {k}) = Cardinality(below) + 1 /\ Cardinality(below) \in Nat
  BY <1>1, <1>2, FS_AddElement, FS_CardinalityType
<1>4. Cardinality(below \cup {k}) <= Cardinality(all)
  BY <1>1, <1>2, FS_Subset
<1>5. Cardinality(below) = Cardinality(all)
  BY DEF below, all
<1> QED BY <1>3, <1>4, <1>5

LEMMA EligibleFinite ==
  ASSUME NEW bs, Len(bs) \in Nat, NEW o
  PROVE  /\ Eligible(bs, o) \in SUBSET Nat /\ IsFiniteSet(Eligible(bs, o))
         /\ \A latency : FillBar(bs, o, latency) \subseteq Eligible(bs, o)
         /\ \A i \in Eligible(bs, o) : i \in 1..Len(bs)
<1>1. Eligible(bs, o) \subseteq 1..Len(bs)
  BY DEF Eligible
<1>2. IsFiniteSet(1..Len(bs))
  BY FS_Interval
<1>3. IsFiniteSet(Eligible(bs, o))
  BY <1>1, <1>2, FS_Subset
<1> QED BY <1>1, <1>3 DEF FillBar

LEMMA FillBarNat ==
  ASSUME NEW bs \in Seq(OHLCTVBar), NEW o, NEW latency
  PROVE  \A i \in FillBar(bs, o, latency) : i \in 1..Len(bs) /\ i \in Nat
<1>1. Len(bs) \in Nat
  OBVIOUS
<1>2. FillBar(bs, o, latency) \subseteq Eligible(bs, o)
  BY <1>1, EligibleFinite
<1>3. \A i \in Eligible(bs, o) : i \in 1..Len(bs)
  BY <1>1, EligibleFinite
<1> QED BY <1>1, <1>2, <1>3

\* Of two orders of a market, the one submitted later fills on no earlier bar.
LEMMA FillBarLater ==
  ASSUME NEW bs \in Seq(OHLCTVBar), NEW o \in OrderIntent, NEW p \in OrderIntent,
         o.market = p.market, o.submitted <= p.submitted, NEW latency,
         NEW i \in FillBar(bs, o, latency), NEW k \in FillBar(bs, p, latency)
  PROVE  i <= k
<1> DEFINE E == Eligible(bs, o)
           F == Eligible(bs, p)
<1>1. F \subseteq E
  <2> SUFFICES ASSUME NEW j \in 1..Len(bs), bs[j].market = p.market,
                      bs[j].open >= p.submitted, bs[j].close > p.submitted
               PROVE  bs[j].open >= o.submitted /\ bs[j].close > o.submitted
    BY DEF Eligible
  <2>1. bs[j] \in OHLCTVBar
    OBVIOUS
  <2>2. bs[j].open \in Int /\ bs[j].close \in Int /\ o.submitted \in Int /\ p.submitted \in Int
    BY <2>1 DEF OHLCTVBar, OrderIntent
  <2> QED BY <2>2
<1>2. E \in SUBSET Nat /\ IsFiniteSet(E)
  BY EligibleFinite
<1>3. /\ i \in E /\ Cardinality({j \in E : j < i}) = latency
      /\ k \in F /\ Cardinality({j \in F : j < k}) = latency
  BY DEF FillBar
<1> HIDE DEF E, F
<1> QED BY <1>1, <1>2, <1>3, RankMonotone

LEMMA FillBarUnique ==
  ASSUME NEW bs \in Seq(OHLCTVBar), NEW o \in OrderIntent, NEW latency,
         NEW i \in FillBar(bs, o, latency), NEW k \in FillBar(bs, o, latency)
  PROVE  i = k
<1>1. o.submitted \in Int
  BY DEF OrderIntent
<1>2. i <= k /\ k <= i
  BY <1>1, FillBarLater
<1>3. i \in Nat /\ k \in Nat
  BY FillBarNat
<1> QED BY <1>2, <1>3

\* A run that stops early sees the eligible bars it has seen, in their places.
LEMMA FillBarOfPrefix ==
  ASSUME NEW bs \in Seq(OHLCTVBar), NEW k \in 0..Len(bs), NEW o, NEW latency
  PROVE  FillBar(SubSeq(bs, 1, k), o, latency) = {i \in FillBar(bs, o, latency) : i <= k}
<1> DEFINE early == SubSeq(bs, 1, k)
<1>1. Len(early) = k /\ \A i \in 1..k : early[i] = bs[i]
  OBVIOUS
<1>2. Eligible(early, o) = {i \in Eligible(bs, o) : i <= k}
  <2> HIDE DEF early
  <2> QED BY <1>1 DEF Eligible
<1>3. ASSUME NEW i \in Eligible(early, o)
      PROVE  {j \in Eligible(early, o) : j < i} = {j \in Eligible(bs, o) : j < i}
  <2>1. Eligible(bs, o) \in SUBSET Nat
    BY EligibleFinite
  <2> QED BY <1>2, <2>1
<1> QED BY <1>2, <1>3 DEF FillBar
-----------------------------------------------------------------------------
(* Validated bars and intents. *)

LEMMA BarFields ==
  ASSUME NEW bs \in Seq(OHLCTVBar), NEW i \in 1..Len(bs)
  PROVE  /\ bs[i].open \in Int /\ bs[i].close \in Int /\ bs[i].market \in Markets
         /\ bs[i].price \in Nat /\ bs[i].volume \in Nat
<1>1. bs[i] \in OHLCTVBar
  OBVIOUS
<1> QED BY <1>1 DEF OHLCTVBar

LEMMA IntentFields ==
  ASSUME NEW is \in Seq(OrderIntent), NEW i \in 1..Len(is)
  PROVE  /\ is[i] \in OrderIntent /\ is[i].submitted \in Int /\ is[i].market \in Markets
         /\ is[i].side \in {"buy", "sell"} /\ is[i].quantity \in Nat \ {0}
<1>1. is[i] \in OrderIntent
  OBVIOUS
<1> QED BY <1>1 DEF OrderIntent

\* Neighbours in order put all in order.
LEMMA Sorted ==
  ASSUME NEW length \in Nat, NEW key \in [1..length -> Int],
         \A n \in 1..(length - 1) : key[n] <= key[n + 1],
         NEW i \in 1..length, NEW j \in 1..length, i <= j
  PROVE  key[i] <= key[j]
<1> DEFINE Good == {n \in 0..(j - i) : key[i] <= key[i + n]}
<1>1. 0 \in Good
  OBVIOUS
<1>2. ASSUME NEW n \in 0..((j - i) - 1), n \in Good PROVE n + 1 \in Good
  <2>1. i + n \in 1..(length - 1) /\ i + (n + 1) = (i + n) + 1
    OBVIOUS
  <2>2. key[i + n] <= key[(i + n) + 1] /\ key[i + n] \in Int /\ key[(i + n) + 1] \in Int /\ key[i] \in Int
    BY <2>1
  <2> QED BY <1>2, <2>1, <2>2
<1>3. j - i \in Nat
  OBVIOUS
<1>4. \A n \in 0..(j - i) : n \in Good
  <2> HIDE DEF Good
  <2> QED BY <1>1, <1>2, <1>3, UpToBound
<1>5. j - i \in Good
  <2>1. j - i \in 0..(j - i)
    BY <1>3
  <2> HIDE DEF Good
  <2> QED BY <1>4, <2>1
<1>6. i + (j - i) = j
  OBVIOUS
<1> QED BY <1>5, <1>6

LEMMA ClosesSorted ==
  ASSUME NEW bs \in Seq(OHLCTVBar), SafeBars(bs), NEW i \in 1..Len(bs), NEW j \in 1..Len(bs), i <= j
  PROVE  bs[i].close <= bs[j].close
<1> DEFINE key == [n \in 1..Len(bs) |-> bs[n].close]
<1>1. key \in [1..Len(bs) -> Int]
  BY BarFields
<1>2. \A n \in 1..(Len(bs) - 1) : key[n] <= key[n + 1]
  <2> SUFFICES ASSUME NEW n \in 1..(Len(bs) - 1) PROVE bs[n].close <= bs[n + 1].close
    OBVIOUS
  <2>1. ~ (bs[n + 1].close < bs[n].close)
    <3>1. n \in 1..(Len(bs) - 1) /\ ~ GlobalKeyBefore(bs[n + 1], bs[n])
      BY DEF SafeBars
    <3> QED BY <3>1 DEF GlobalKeyBefore
  <2>2. bs[n].close \in Int /\ bs[n + 1].close \in Int
    BY BarFields
  <2> QED BY <2>1, <2>2
<1>3. Len(bs) \in Nat
  OBVIOUS
<1> HIDE DEF key
<1>4. key[i] <= key[j]
  BY <1>1, <1>2, <1>3, Sorted
<1> QED BY <1>4 DEF key

LEMMA SubmissionsSorted ==
  ASSUME NEW is \in Seq(OrderIntent), SafeIntents(is),
         NEW i \in 1..Len(is), NEW j \in 1..Len(is), i <= j
  PROVE  is[i].submitted <= is[j].submitted
<1> DEFINE key == [n \in 1..Len(is) |-> is[n].submitted]
<1>1. key \in [1..Len(is) -> Int]
  BY IntentFields
<1>2. \A n \in 1..(Len(is) - 1) : key[n] <= key[n + 1]
  <2> SUFFICES ASSUME NEW n \in 1..(Len(is) - 1) PROVE is[n].submitted <= is[n + 1].submitted
    OBVIOUS
  <2>1. is[n].submitted < is[n + 1].submitted \/ is[n].submitted = is[n + 1].submitted
    BY DEF SafeIntents
  <2>2. is[n].submitted \in Int /\ is[n + 1].submitted \in Int
    BY IntentFields
  <2> QED BY <2>1, <2>2
<1>3. Len(is) \in Nat
  OBVIOUS
<1> HIDE DEF key
<1>4. key[i] <= key[j]
  BY <1>1, <1>2, <1>3, Sorted
<1> QED BY <1>4 DEF key

\* A bar of a market is over when the market's next ones open, whatever lies
\* between: the last one of the market before j is checked against j, and the
\* closing times are sorted.
LEMMA MarketBarsApart ==
  ASSUME NEW bs \in Seq(OHLCTVBar), SafeBars(bs),
         NEW i \in 1..Len(bs), NEW j \in 1..Len(bs), i < j, SameMarket(bs[i], bs[j])
  PROVE  bs[i].close <= bs[j].open
<1> DEFINE back == {n \in Nat : n >= 1 /\ j - n >= i /\ SameMarket(bs[j - n], bs[j])}
<1>1. j - i \in back
  OBVIOUS
<1>2. PICK m \in back : \A n \in back : m <= n
  <2>1. back \in SUBSET Nat /\ back # {}
    BY <1>1
  <2> HIDE DEF back
  <2> QED BY <2>1, LeastNatural
<1>3. /\ j - m \in 1..Len(bs) /\ j - m < j /\ i <= j - m
      /\ SameMarket(bs[j - m], bs[j])
  OBVIOUS
<1>4. ASSUME NEW k \in ((j - m) + 1)..(j - 1) PROVE ~ SameMarket(bs[k], bs[j])
  <2> SUFFICES ASSUME SameMarket(bs[k], bs[j]) PROVE FALSE
    OBVIOUS
  <2>1. j - k \in Nat /\ j - (j - k) = k /\ j - k < m /\ j - k >= 1
    OBVIOUS
  <2>2. j - k \in back
    BY <1>3, <2>1
  <2> QED BY <1>2, <2>1, <2>2
<1>5. Consecutive(bs, j - m, j)
  BY <1>3, <1>4 DEF Consecutive
<1>6. bs[j].open >= bs[j - m].close
  BY <1>3, <1>5 DEF SafeBars
<1>7. bs[i].close <= bs[j - m].close
  BY <1>3, ClosesSorted
<1>8. bs[i].close \in Int /\ bs[j - m].close \in Int /\ bs[j].open \in Int
  BY <1>3, BarFields
<1> QED BY <1>6, <1>7, <1>8
-----------------------------------------------------------------------------
(* One order. *)

CostTyped == cost \in {{}} \cup {{m} : m \in CostModels} /\ account \in BOOLEAN

\* A result's numbers: no fee above what the fill moves.
Sound(r) ==
  /\ r.bar \in Nat /\ r.quantity \in Nat /\ r.notional \in Nat /\ r.fee \in Nat
  /\ r.fee <= r.notional

LEMMA ModelTyped ==
  ASSUME CostTyped
  PROVE  Model \in ExecutionCostModel /\ Model.fee <= Scale /\ Model.adverse < Scale
<1>1. CASE cost = {}
  BY <1>1, ScaleAssumption DEF Model, NoCost, ExecutionCostModel
<1>2. CASE cost # {}
  <2>1. PICK m \in CostModels : cost = {m}
    BY <1>2 DEF CostTyped
  <2>2. Model = m
    BY <2>1 DEF Model
  <2> QED BY <2>2, CostModelsAssumption
<1> QED BY <1>1, <1>2

LEMMA ProductMonotone ==
  ASSUME NEW x \in Nat, NEW a \in Nat, NEW b \in Nat, a <= b
  PROVE  x * a \in Nat /\ x * b \in Nat /\ x * a <= x * b
<1>1. x * (b - a) >= 0
  OBVIOUS
<1>2. x * b = x * a + x * (b - a)
  OBVIOUS
<1> QED BY <1>1, <1>2

\* What a fill costs is no less than nothing, and its fee no more than what
\* it moves.
LEMMA FilledTyped ==
  ASSUME CostTyped, NEW bar \in OHLCTVBar, NEW i \in Nat, NEW o \in OrderIntent, NEW q \in Nat
  PROVE  LET r == Filled(bar, i, o, q)
         IN Sound(r) /\ r.bar = i /\ r.id = o.id /\ IsFill(r)
<1> DEFINE adverse == Scale + (IF o.side = "buy" THEN Model.adverse ELSE - Model.adverse)
           moved == bar.price * q * adverse
<1>1. adverse \in Nat /\ Model.fee \in Nat /\ Model.fee <= Scale /\ Scale \in Nat
  BY ModelTyped, ScaleAssumption DEF ExecutionCostModel
<1>2. bar.price \in Nat /\ o.id \in Int
  BY DEF OHLCTVBar, OrderIntent
<1>3. moved \in Nat
  <2> HIDE DEF adverse
  <2>1. bar.price * q \in Nat
    BY <1>2
  <2> QED BY <1>1, <2>1
<1>4. Filled(bar, i, o, q) =
        [id |-> o.id, status |-> IF q = o.quantity THEN "filled" ELSE "partial", reason |-> "none",
         bar |-> i, quantity |-> q, notional |-> moved * Scale, fee |-> moved * Model.fee]
  BY DEF Filled
<1> HIDE DEF moved
<1>5. moved * Scale \in Nat /\ moved * Model.fee \in Nat /\ moved * Model.fee <= moved * Scale
  BY <1>1, <1>3, ProductMonotone
<1> HIDE DEF adverse
<1> QED BY <1>2, <1>4, <1>5 DEF Sound, IsFill

LEMMA UnfilledTyped ==
  ASSUME NEW o, NEW reason
  PROVE  LET r == Unfilled(o, reason) IN Sound(r) /\ ~ IsFill(r) /\ r.id = o.id
<1> QED BY DEF Unfilled, Sound, IsFill

LEMMA AttemptOnTyped ==
  ASSUME CostTyped, NEW bar \in OHLCTVBar, NEW i \in Nat, NEW o \in OrderIntent
  PROVE  LET r == AttemptOn(bar, i, o)
         IN /\ Sound(r) /\ r.id = o.id
            /\ IsFill(r) => r.bar = i
<1> DEFINE capacity == (bar.volume * Model.rate) \div Scale
           quantity == IF cost = {} \/ o.quantity <= capacity THEN o.quantity ELSE capacity
<1>1. quantity \in Nat
  <2>1. bar.volume \in Nat /\ Model.rate \in Nat /\ Scale \in Nat \ {0} /\ o.quantity \in Nat
    BY ModelTyped, ScaleAssumption DEF ExecutionCostModel, OHLCTVBar, OrderIntent
  <2>2. bar.volume * Model.rate \in Nat
    BY <2>1
  <2>3. capacity \in Nat
    BY <2>1, <2>2
  <2> HIDE DEF capacity
  <2> QED BY <2>1, <2>3
<1>2. \/ AttemptOn(bar, i, o) = Unfilled(o, "constraint_violation")
      \/ AttemptOn(bar, i, o) = Unfilled(o, "insufficient_liquidity")
      \/ AttemptOn(bar, i, o) = Filled(bar, i, o, quantity)
  BY DEF AttemptOn
<1> HIDE DEF quantity
<1>3. CASE AttemptOn(bar, i, o) = Filled(bar, i, o, quantity)
  BY <1>1, <1>3, FilledTyped
<1>4. CASE AttemptOn(bar, i, o) \in {Unfilled(o, "constraint_violation"),
                                    Unfilled(o, "insufficient_liquidity")}
  <2>1. PICK reason : AttemptOn(bar, i, o) = Unfilled(o, reason)
    BY <1>4
  <2> QED BY <2>1, UnfilledTyped
<1> QED BY <1>2, <1>3, <1>4

\* Before any bar is looked at: what refuses an order outright.
Barred(o) == (account /\ o.metadata # "tradable") \/ o.type # "market"

\* An attempt, by the bar it finds.
LEMMA AttemptCases ==
  ASSUME NEW bs \in Seq(OHLCTVBar), NEW o \in OrderIntent
  PROVE  /\ ~ Barred(o) /\ FillBar(bs, o, Model.latency) = {} =>
              Attempt(bs, o) = Unfilled(o, "no_future_eligible_event")
         /\ \A i \in FillBar(bs, o, Model.latency) :
              ~ Barred(o) => Attempt(bs, o) = AttemptOn(bs[i], i, o)
         /\ Barred(o) => Attempt(bs, o) = Unfilled(o, IF account /\ o.metadata # "tradable"
                                                     THEN o.metadata ELSE "unsupported_order_type")
<1> DEFINE at == FillBar(bs, o, Model.latency)
<1>1. \A i \in at : (CHOOSE k \in at : TRUE) = i
  BY FillBarUnique
<1> HIDE DEF at
<1>2. \A i \in at : at # {}
  OBVIOUS
<1>3. Attempt(bs, o) =
        IF account /\ o.metadata # "tradable" THEN Unfilled(o, o.metadata)
        ELSE IF o.type # "market" THEN Unfilled(o, "unsupported_order_type")
        ELSE IF at = {} THEN Unfilled(o, "no_future_eligible_event")
        ELSE AttemptOn(bs[CHOOSE k \in at : TRUE], CHOOSE k \in at : TRUE, o)
  BY DEF Attempt, at
<1> QED BY <1>1, <1>2, <1>3 DEF Barred, at

LEMMA AttemptTyped ==
  ASSUME CostTyped, NEW bs \in Seq(OHLCTVBar), NEW o \in OrderIntent
  PROVE  LET r == Attempt(bs, o)
         IN /\ Sound(r) /\ r.id = o.id
            /\ IsFill(r) => r.bar \in FillBar(bs, o, Model.latency)
<1>1. CASE Barred(o)
  <2>1. PICK reason : Attempt(bs, o) = Unfilled(o, reason)
    BY <1>1, AttemptCases
  <2> QED BY <2>1, UnfilledTyped
<1>2. CASE ~ Barred(o) /\ FillBar(bs, o, Model.latency) = {}
  <2>1. PICK reason : Attempt(bs, o) = Unfilled(o, reason)
    BY <1>2, AttemptCases
  <2> QED BY <2>1, UnfilledTyped
<1>3. CASE ~ Barred(o) /\ FillBar(bs, o, Model.latency) # {}
  <2>1. PICK i \in FillBar(bs, o, Model.latency) : TRUE
    BY <1>3
  <2>2. i \in 1..Len(bs)
    BY <2>1, FillBarNat
  <2>3. bs[i] \in OHLCTVBar /\ i \in Nat
    BY <2>2
  <2>4. Attempt(bs, o) = AttemptOn(bs[i], i, o)
    BY <1>3, <2>1, AttemptCases
  <2> QED BY <2>1, <2>3, <2>4, AttemptOnTyped
<1> QED BY <1>1, <1>2, <1>3
-----------------------------------------------------------------------------
(* One step of a run, and the run. *)

\* What an order on these bars can come to.
OutcomesOf(bs, o) ==
  {Attempt(bs, o)}
    \cup {Unfilled(o, reason) : reason \in {"insufficient_cash", "insufficient_inventory"}}

Outcomes(bs) == UNION {OutcomesOf(bs, o) : o \in OrderIntent}

\* What bar i makes of an order is a fill of some of it, or none.
LEMMA AttemptOnShape ==
  ASSUME CostTyped, NEW bar \in OHLCTVBar, NEW i \in Nat, NEW o \in OrderIntent
  PROVE  \/ \E q \in 1..o.quantity : AttemptOn(bar, i, o) = Filled(bar, i, o, q)
         \/ \E reason : AttemptOn(bar, i, o) = Unfilled(o, reason)
<1> DEFINE capacity == (bar.volume * Model.rate) \div Scale
           quantity == IF cost = {} \/ o.quantity <= capacity THEN o.quantity ELSE capacity
<1>1. quantity \in Nat /\ quantity <= o.quantity
  <2>1. bar.volume \in Nat /\ Model.rate \in Nat /\ Scale \in Nat \ {0} /\ o.quantity \in Nat
    BY ModelTyped, ScaleAssumption DEF ExecutionCostModel, OHLCTVBar, OrderIntent
  <2>2. bar.volume * Model.rate \in Nat
    BY <2>1
  <2>3. capacity \in Nat
    BY <2>1, <2>2
  <2> HIDE DEF capacity
  <2> QED BY <2>1, <2>3
<1>2. \/ AttemptOn(bar, i, o) = Unfilled(o, "constraint_violation")
      \/ AttemptOn(bar, i, o) = Unfilled(o, "insufficient_liquidity")
      \/ quantity # 0 /\ AttemptOn(bar, i, o) = Filled(bar, i, o, quantity)
  BY DEF AttemptOn
<1>3. o.quantity \in Nat
  BY DEF OrderIntent
<1> HIDE DEF quantity
<1> QED BY <1>1, <1>2, <1>3

\* What can come of an order: a fill on its bar, of no more than it asked for,
\* or a result that moves nothing.
LEMMA OutcomeShape ==
  ASSUME CostTyped, NEW bs \in Seq(OHLCTVBar), NEW o \in OrderIntent, NEW r \in OutcomesOf(bs, o)
  PROVE  \/ \E i \in FillBar(bs, o, Model.latency), q \in 1..o.quantity : r = Filled(bs[i], i, o, q)
         \/ \E reason : r = Unfilled(o, reason)
<1>1. CASE r = Attempt(bs, o) /\ ~ Barred(o) /\ FillBar(bs, o, Model.latency) # {}
  <2>1. PICK i \in FillBar(bs, o, Model.latency) : TRUE
    BY <1>1
  <2>2. i \in 1..Len(bs)
    BY <2>1, FillBarNat
  <2>3. bs[i] \in OHLCTVBar /\ i \in Nat
    BY <2>2
  <2>4. r = AttemptOn(bs[i], i, o)
    BY <1>1, <2>1, AttemptCases
  <2>5. \/ \E q \in 1..o.quantity : r = Filled(bs[i], i, o, q)
        \/ \E reason : r = Unfilled(o, reason)
    BY <2>3, <2>4, AttemptOnShape
  <2> QED BY <2>1, <2>5
<1>2. CASE r = Attempt(bs, o) /\ (Barred(o) \/ FillBar(bs, o, Model.latency) = {})
  BY <1>2, AttemptCases
<1>3. CASE r # Attempt(bs, o)
  BY <1>3 DEF OutcomesOf
<1> QED BY <1>1, <1>2, <1>3

RunStates(bs) == [balances : [Assets -> Nat], results : Seq(Outcomes(bs))]

\* The result an order adds, and what it moves.
LEMMA ReplayedStep ==
  ASSUME CostTyped, NEW bs \in Seq(OHLCTVBar), NEW o \in OrderIntent, NEW s \in RunStates(bs)
  PROVE  \E r \in OutcomesOf(bs, o) :
           /\ r \in Outcomes(bs) /\ (r = Attempt(bs, o) \/ ~ IsFill(r))
           /\ Replayed(bs, s, o).results = Append(s.results, r)
           /\ Replayed(bs, s, o) \in RunStates(bs)
           /\ account => \A a \in Assets :
                Replayed(bs, s, o).balances[a] = s.balances[a] + Flow(a, o, r)
<1> DEFINE r == Attempt(bs, o)
           why == IF o.side = "buy" THEN "insufficient_cash" ELSE "insufficient_inventory"
           u == Unfilled(o, why)
           t == Replayed(bs, s, o)
<1>1. /\ r \in OutcomesOf(bs, o) /\ u \in OutcomesOf(bs, o)
      /\ r \in Outcomes(bs) /\ u \in Outcomes(bs)
  BY DEF Outcomes, OutcomesOf
<1>2. Sound(r) /\ ~ IsFill(u)
  BY AttemptTyped, UnfilledTyped
<1>3. s.balances \in [Assets -> Nat] /\ s.results \in Seq(Outcomes(bs))
      /\ s = [balances |-> s.balances, results |-> s.results]
  BY DEF RunStates
<1>4. t = Balanced(s, o, r)
  BY DEF Replayed
<1> HIDE DEF r, u, t
<1>5. CASE ~ (IsFill(r) /\ account)
  <2>1. t = [balances |-> s.balances, results |-> Append(s.results, r)]
    BY <1>3, <1>4, <1>5 DEF Balanced
  <2>2. t \in RunStates(bs)
    BY <1>1, <1>3, <2>1 DEF RunStates
  <2>3. account => \A a \in Assets : Flow(a, o, r) = 0
    BY <1>5 DEF Flow
  <2>4. \A a \in Assets : s.balances[a] + 0 = s.balances[a]
    BY <1>3
  <2> QED BY <1>1, <2>1, <2>2, <2>3, <2>4 DEF r, t
<1>6. CASE IsFill(r) /\ account /\ ~ Affordable(s.balances, o, r)
  <2>1. t = [balances |-> s.balances, results |-> Append(s.results, u)]
    BY <1>3, <1>4, <1>6 DEF Balanced, u
  <2>2. t \in RunStates(bs)
    BY <1>1, <1>3, <2>1 DEF RunStates
  <2>3. \A a \in Assets : Flow(a, o, u) = 0
    BY <1>2 DEF Flow
  <2>4. \A a \in Assets : s.balances[a] + 0 = s.balances[a]
    BY <1>3
  <2> QED BY <1>1, <1>2, <2>1, <2>2, <2>3, <2>4 DEF t
<1>7. CASE IsFill(r) /\ account /\ Affordable(s.balances, o, r)
  <2> DEFINE b == Settled(s.balances, o, r)
  <2>1. t = [balances |-> b, results |-> Append(s.results, r)]
    BY <1>3, <1>4, <1>7 DEF Balanced
  <2>2. /\ o.market \in Assets /\ CASH \in Assets /\ o.market # CASH
        /\ o.side \in {"buy", "sell"}
    BY OpeningAssumption DEF OrderIntent, Assets
  <2>3. /\ b \in [Assets -> Nat]
        /\ \A a \in Assets : b[a] = s.balances[a] + Flow(a, o, r)
    <3>1. /\ r.notional \in Nat /\ r.fee \in Nat /\ r.quantity \in Nat /\ r.fee <= r.notional
          /\ s.balances[CASH] \in Nat /\ s.balances[o.market] \in Nat
      BY <1>2, <1>3, <2>2 DEF Sound
    <3>2. CASE o.side = "buy"
      <4>1. b = [s.balances EXCEPT ![CASH] = @ - r.notional - r.fee, ![o.market] = @ + r.quantity]
        BY <3>2 DEF Settled
      <4>2. s.balances[CASH] >= r.notional + r.fee
        BY <1>7, <3>2 DEF Affordable
      <4>3. /\ b[CASH] = s.balances[CASH] - r.notional - r.fee
            /\ b[o.market] = s.balances[o.market] + r.quantity
            /\ \A a \in Assets \ {CASH, o.market} : b[a] = s.balances[a]
            /\ DOMAIN b = Assets
        BY <1>3, <2>2, <4>1
      <4>4. /\ Flow(CASH, o, r) = - r.notional - r.fee
            /\ Flow(o.market, o, r) = r.quantity
            /\ \A a \in Assets \ {CASH, o.market} : Flow(a, o, r) = 0
        BY <1>7, <2>2, <3>2 DEF Flow
      <4> HIDE DEF b
      <4>5. b[CASH] \in Nat /\ b[o.market] \in Nat
        BY <3>1, <4>2, <4>3
      <4>6. \A a \in Assets : b[a] \in Nat /\ b[a] = s.balances[a] + Flow(a, o, r)
        <5> SUFFICES ASSUME NEW a \in Assets
                     PROVE  b[a] \in Nat /\ b[a] = s.balances[a] + Flow(a, o, r)
          OBVIOUS
        <5>1. s.balances[a] \in Nat
          BY <1>3
        <5>2. CASE a = CASH
          BY <3>1, <4>3, <4>4, <4>5, <5>2
        <5>3. CASE a = o.market
          BY <3>1, <4>3, <4>4, <4>5, <5>3
        <5>4. CASE a \notin {CASH, o.market}
          BY <4>3, <4>4, <5>1, <5>4
        <5> QED BY <5>2, <5>3, <5>4
      <4>7. b \in [Assets -> Nat]
        BY <1>3, <4>1, <4>3, <4>6
      <4> QED BY <4>6, <4>7
    <3>3. CASE o.side # "buy"
      <4>1. b = [s.balances EXCEPT ![CASH] = @ + r.notional - r.fee, ![o.market] = @ - r.quantity]
        BY <3>3 DEF Settled
      <4>2. s.balances[o.market] >= r.quantity
        BY <1>7, <3>3 DEF Affordable
      <4>3. /\ b[CASH] = s.balances[CASH] + r.notional - r.fee
            /\ b[o.market] = s.balances[o.market] - r.quantity
            /\ \A a \in Assets \ {CASH, o.market} : b[a] = s.balances[a]
            /\ DOMAIN b = Assets
        BY <1>3, <2>2, <4>1
      <4>4. /\ Flow(CASH, o, r) = r.notional - r.fee
            /\ Flow(o.market, o, r) = - r.quantity
            /\ \A a \in Assets \ {CASH, o.market} : Flow(a, o, r) = 0
        BY <1>7, <2>2, <3>3 DEF Flow
      <4> HIDE DEF b
      <4>5. b[CASH] \in Nat /\ b[o.market] \in Nat
        BY <3>1, <4>2, <4>3
      <4>6. \A a \in Assets : b[a] \in Nat /\ b[a] = s.balances[a] + Flow(a, o, r)
        <5> SUFFICES ASSUME NEW a \in Assets
                     PROVE  b[a] \in Nat /\ b[a] = s.balances[a] + Flow(a, o, r)
          OBVIOUS
        <5>1. s.balances[a] \in Nat
          BY <1>3
        <5>2. CASE a = CASH
          BY <3>1, <4>3, <4>4, <4>5, <5>2
        <5>3. CASE a = o.market
          BY <3>1, <4>3, <4>4, <4>5, <5>3
        <5>4. CASE a \notin {CASH, o.market}
          BY <4>3, <4>4, <5>1, <5>4
        <5> QED BY <5>2, <5>3, <5>4
      <4>7. b \in [Assets -> Nat]
        BY <1>3, <4>1, <4>3, <4>6
      <4> QED BY <4>6, <4>7
    <3> QED BY <3>2, <3>3
  <2> HIDE DEF b
  <2>4. t \in RunStates(bs)
    BY <1>1, <1>3, <2>1, <2>3 DEF RunStates
  <2> QED BY <1>1, <2>1, <2>3, <2>4 DEF r, t
<1> QED BY <1>5, <1>6, <1>7

\* A sequence of states that replays a batch one order after the other.
Follows(run, bs, opening, is) ==
  /\ run[0] = [balances |-> opening, results |-> <<>>]
  /\ \A n \in 0..(Len(is) - 1) : run[n + 1] = Replayed(bs, run[n], is[n + 1])

\* What holds after n orders.
Replayable(s, bs, opening, is, n) ==
  /\ s \in RunStates(bs) /\ Len(s.results) = n
  /\ \A i \in 1..n : /\ s.results[i] \in OutcomesOf(bs, is[i])
                     /\ s.results[i] = Attempt(bs, is[i]) \/ ~ IsFill(s.results[i])
  /\ account => \A a \in Assets : s.balances[a] = Total(opening[a], Flows(a, is, s.results))

LEMMA RunReplayable ==
  ASSUME CostTyped, NEW bs \in Seq(OHLCTVBar), NEW is \in Seq(OrderIntent),
         NEW opening \in [Assets -> Nat], NEW run, Follows(run, bs, opening, is)
  PROVE  \A n \in 0..Len(is) : Replayable(run[n], bs, opening, is, n)
<1> DEFINE Good == {n \in 0..Len(is) : Replayable(run[n], bs, opening, is, n)}
<1>1. 0 \in Good
  <2>1. run[0] = [balances |-> opening, results |-> <<>>]
    BY DEF Follows
  <2>2. run[0] \in RunStates(bs) /\ Len(run[0].results) = 0 /\ run[0].balances = opening
    BY <2>1 DEF RunStates
  <2>3. \A a \in Assets : Total(opening[a], Flows(a, is, run[0].results)) = opening[a]
    <3> TAKE a \in Assets
    <3>1. Len(Flows(a, is, run[0].results)) = 0
      BY <2>2 DEF Flows
    <3> QED BY <3>1, TotalEmpty
  <2>4. 0 \in 0..Len(is)
    OBVIOUS
  <2> QED BY <2>2, <2>3, <2>4 DEF Replayable
<1>2. ASSUME NEW n \in 0..(Len(is) - 1), n \in Good PROVE n + 1 \in Good
  <2> DEFINE s == run[n]
             o == is[n + 1]
             t == run[n + 1]
  <2>1. s \in RunStates(bs) /\ Len(s.results) = n /\ t = Replayed(bs, s, o)
    BY <1>2 DEF Replayable, Follows
  <2>2. n + 1 \in 1..Len(is) /\ o \in OrderIntent
    OBVIOUS
  <2>3. PICK r \in OutcomesOf(bs, o) :
           /\ r = Attempt(bs, o) \/ ~ IsFill(r)
           /\ t.results = Append(s.results, r)
           /\ t \in RunStates(bs)
           /\ account => \A a \in Assets : t.balances[a] = s.balances[a] + Flow(a, o, r)
    <3> HIDE DEF o, s, t
    <3> QED BY <2>1, <2>2, ReplayedStep
  <2>4. s.results \in Seq(Outcomes(bs))
    BY <2>1 DEF RunStates
  <2>5. /\ Len(t.results) = n + 1 /\ t.results[n + 1] = r
        /\ \A i \in 1..n : t.results[i] = s.results[i]
    BY <2>1, <2>3, <2>4
  <2>6. \A i \in 1..n : /\ s.results[i] \in OutcomesOf(bs, is[i])
                        /\ s.results[i] = Attempt(bs, is[i]) \/ ~ IsFill(s.results[i])
    BY <1>2 DEF Replayable
  <2>7. \A i \in 1..(n + 1) : /\ t.results[i] \in OutcomesOf(bs, is[i])
                              /\ t.results[i] = Attempt(bs, is[i]) \/ ~ IsFill(t.results[i])
    <3> SUFFICES ASSUME NEW i \in 1..(n + 1)
                 PROVE  /\ t.results[i] \in OutcomesOf(bs, is[i])
                        /\ t.results[i] = Attempt(bs, is[i]) \/ ~ IsFill(t.results[i])
      OBVIOUS
    <3>1. CASE i = n + 1
      BY <2>3, <2>5, <3>1
    <3>2. CASE i \in 1..n
      BY <2>5, <2>6, <3>2
    <3> QED BY <3>1, <3>2
  <2>8. ASSUME account, NEW a \in Assets
        PROVE  t.balances[a] = Total(opening[a], Flows(a, is, t.results))
    <3> DEFINE f == Flows(a, is, s.results)
               g == Flows(a, is, t.results)
    <3>1. Len(f) = n /\ Len(g) = n + 1 /\ n \in Nat
      BY <2>1, <2>5 DEF Flows
    <3>2. \A i \in 1..n : f[i] = g[i]
      BY <2>1, <2>5 DEF Flows
    <3>3. g[n + 1] = Flow(a, o, r)
      BY <2>5 DEF Flows
    <3>4. s.balances[a] = Total(opening[a], f)
      BY <1>2, <2>8 DEF Replayable
    <3>5. Total(opening[a], g) = Total(opening[a], f) + g[n + 1]
      <4> HIDE DEF f, g
      <4> QED BY <3>1, <3>2, TotalAppend
    <3>6. t.balances[a] = s.balances[a] + Flow(a, o, r)
      BY <2>3, <2>8
    <3> QED BY <3>3, <3>4, <3>5, <3>6
  <2>9. Replayable(t, bs, opening, is, n + 1)
    BY <2>3, <2>5, <2>7, <2>8 DEF Replayable
  <2> QED BY <2>2, <2>9
<1>3. \A n \in 0..Len(is) : n \in Good
  <2>1. Len(is) \in Nat
    OBVIOUS
  <2> HIDE DEF Good
  <2> QED BY <1>1, <1>2, <2>1, UpToBound
<1> QED BY <1>3

LEMMA StatesFollow ==
  ASSUME NEW bs, NEW opening, NEW is, Len(is) \in Nat
  PROVE  Follows(States(bs, opening, is), bs, opening, is)
<1> QED BY StatesStep DEF Follows
-----------------------------------------------------------------------------
(* The invariant. *)

RunInv ==
  /\ CostTyped
  /\ bars \in Seq(OHLCTVBar) /\ intents \in Seq(OrderIntent)
  /\ outcome \in {"called", "running", "refused", "aborted", "done"}
  /\ outcome \in {"running", "aborted", "done"} => SafeBars(bars) /\ SafeIntents(intents)
  /\ outcome \in {"called", "refused"} => Len(state.results) = 0
  /\ outcome = "done" => Len(state.results) = Len(intents)
  /\ Len(state.results) \in 0..Len(intents)
  /\ \E run : Follows(run, bars, Opening, intents) /\ state = run[Len(state.results)]

LEMMA RunInit == Init => RunInv
<1> SUFFICES ASSUME Init PROVE RunInv
  OBVIOUS
<1>1. bars \in Seq(OHLCTVBar) /\ intents \in Seq(OrderIntent) /\ CostTyped
  BY BarsAssumption, IntentsAssumption DEF Init, CostTyped
<1>2. Len(state.results) = 0
  BY DEF Init, Started
<1>3. Follows(States(bars, Opening, intents), bars, Opening, intents)
  BY <1>1, StatesFollow
<1>4. state = States(bars, Opening, intents)[Len(state.results)]
  BY <1>2, <1>3 DEF Init, Started, Follows
<1> HIDE DEF Follows
<1>5. Len(state.results) \in 0..Len(intents)
  BY <1>1, <1>2
<1> QED BY <1>1, <1>2, <1>3, <1>4, <1>5 DEF Init, RunInv

\* The replay reads of the variables only its cost model and whether it has an
\* account, and both stay as they are.
LEMMA AttemptStays ==
  ASSUME NEW bs, NEW o, UNCHANGED <<cost, account>>
  PROVE  Attempt(bs, o)' = Attempt(bs, o)
<1>1. Model' = Model
  BY DEF Model
<1>2. \A bar, i : AttemptOn(bar, i, o)' = AttemptOn(bar, i, o)
  BY <1>1 DEF AttemptOn, Filled
<1> QED BY <1>1, <1>2 DEF Attempt

LEMMA ReplayedStays ==
  ASSUME NEW bs, NEW s, NEW o, UNCHANGED <<cost, account>>
  PROVE  Replayed(bs, s, o)' = Replayed(bs, s, o)
<1> QED BY AttemptStays DEF Replayed, Balanced

LEMMA RunStep == RunInv /\ [Next]_vars => RunInv'
<1> SUFFICES ASSUME RunInv, [Next]_vars PROVE RunInv'
  OBVIOUS
<1> USE DEF RunInv
<1>1. PICK run : Follows(run, bars, Opening, intents) /\ state = run[Len(state.results)]
  OBVIOUS
<1>2. UNCHANGED input
  BY DEF Next, Validate, ReplayOne, Abort, Report, vars, input
<1>3. CostTyped' /\ bars' \in Seq(OHLCTVBar) /\ intents' \in Seq(OrderIntent)
  BY <1>2 DEF input, CostTyped
<1>4. Follows(run, bars, Opening, intents)'
  BY <1>1, <1>2, ReplayedStays DEF Follows, Started, input
<1>5. CASE UNCHANGED state
  <2>1. \E r : Follows(r, bars, Opening, intents)' /\ state' = r[Len(state'.results)]
    BY <1>1, <1>4, <1>5
  <2>2. CASE Validate
    BY <1>2, <1>3, <1>5, <2>1, <2>2 DEF Validate, input
  <2>3. CASE Abort
    BY <1>2, <1>3, <1>5, <2>1, <2>3 DEF Abort, input
  <2>4. CASE Report
    BY <1>2, <1>3, <1>5, <2>1, <2>4 DEF Report, input
  <2>5. CASE UNCHANGED vars
    BY <1>2, <1>3, <1>5, <2>1, <2>5 DEF vars, input
  <2>6. CASE ReplayOne
    BY <1>2, <1>3, <1>5, <2>1, <2>6 DEF ReplayOne, input
  <2> QED BY <2>2, <2>3, <2>4, <2>5, <2>6 DEF Next
<1>6. CASE ReplayOne
  <2> DEFINE n == Len(state.results)
  <2>1. n \in 0..(Len(intents) - 1) /\ outcome = "running" /\ outcome' = outcome
    BY <1>6 DEF ReplayOne
  <2>2. state' = Replayed(bars, run[n], intents[n + 1])
    BY <1>1, <1>6 DEF ReplayOne, Current
  <2>3. state' = run[n + 1]
    BY <1>1, <2>1, <2>2 DEF Follows
  <2>4. n + 1 \in 0..Len(intents)
    BY <2>1
  <2>5. Len(state'.results) = n + 1
    <3>1. Replayable(run[n + 1], bars, Opening, intents, n + 1)
      BY <1>1, <2>4, RunReplayable, OpeningAssumption
    <3> QED BY <2>3, <3>1 DEF Replayable
  <2>6. \E r : Follows(r, bars, Opening, intents)' /\ state' = r[Len(state'.results)]
    BY <1>4, <2>3, <2>5
  <2> QED BY <1>2, <1>3, <2>1, <2>4, <2>5, <2>6 DEF input
<1>7. CASE ~ ReplayOne
  BY <1>5, <1>7 DEF Next, Validate, Abort, Report, vars
<1> QED BY <1>6, <1>7

LEMMA RunAlways == Spec => []RunInv
<1> QED BY RunInit, RunStep, PTL DEF Spec

\* The results so far are what an untroubled replay of the batch has reached.
LEMMA StateReplayable ==
  ASSUME RunInv
  PROVE  Replayable(state, bars, Opening, intents, Len(state.results))
<1>1. PICK run : Follows(run, bars, Opening, intents) /\ state = run[Len(state.results)]
  BY DEF RunInv
<1>2. \A n \in 0..Len(intents) : Replayable(run[n], bars, Opening, intents, n)
  BY <1>1, RunReplayable, OpeningAssumption DEF RunInv
<1>3. Replayable(run[Len(state.results)], bars, Opening, intents, Len(state.results))
  BY <1>2 DEF RunInv
<1> QED BY <1>1, <1>3

\* What was bought, sold and paid for according to the results is what the
\* balances moved by, and none of them is ever below zero.
LEMMA LedgerMatches == RunInv => LedgerMatchesResults
<1> SUFFICES ASSUME RunInv, account, NEW a \in Assets
             PROVE  /\ state.balances[a] >= 0
                    /\ state.balances[a] = Total(Opening[a], Flows(a, intents, state.results))
  BY DEF LedgerMatchesResults
<1>1. state \in RunStates(bars)
  BY StateReplayable DEF Replayable
<1>2. state.balances[a] \in Nat
  BY <1>1 DEF RunStates
<1>3. state.balances[a] = Total(Opening[a], Flows(a, intents, state.results))
  BY StateReplayable DEF Replayable
<1> QED BY <1>2, <1>3

\* Where a fill among the results came from.
LEMMA FillFrom ==
  ASSUME RunInv, NEW i \in 1..Len(state.results), IsFill(state.results[i])
  PROVE  /\ i \in 1..Len(intents) /\ intents[i] \in OrderIntent
         /\ SafeBars(bars) /\ SafeIntents(intents)
         /\ state.results[i].bar \in FillBar(bars, intents[i], Model.latency)
         /\ state.results[i].bar \in Eligible(bars, intents[i])
         /\ state.results[i].bar \in 1..Len(bars)
<1>1. i \in 1..Len(intents) /\ intents[i] \in OrderIntent
  BY DEF RunInv
<1>2. SafeBars(bars) /\ SafeIntents(intents)
  BY DEF RunInv
<1>3. state.results[i] = Attempt(bars, intents[i])
  BY StateReplayable DEF Replayable
<1>4. CostTyped /\ bars \in Seq(OHLCTVBar) /\ Len(bars) \in Nat
  BY DEF RunInv
<1>5. state.results[i].bar \in FillBar(bars, intents[i], Model.latency)
  BY <1>1, <1>3, <1>4, AttemptTyped
<1>6. state.results[i].bar \in Eligible(bars, intents[i])
  BY <1>4, <1>5, EligibleFinite
<1>7. state.results[i].bar \in 1..Len(bars)
  BY <1>4, <1>6, EligibleFinite
<1> QED BY <1>1, <1>2, <1>5, <1>6, <1>7

\* Later orders of a market fill later: fewer bars are eligible for them, so
\* the one the latency leads to comes no sooner, and bars of a market are
\* apart.
LEMMA FillsFollow == RunInv => FillsFollowSubmissions
<1> SUFFICES ASSUME RunInv, NEW i \in 1..Len(state.results), NEW j \in 1..Len(state.results)
             PROVE  LET r == state.results[i]  s == state.results[j]
                    IN /\ IsFill(r) => bars[r.bar].open >= intents[i].submitted
                       /\ i < j /\ IsFill(r) /\ IsFill(s) /\ SameMarket(bars[r.bar], bars[s.bar])
                            => r.bar = s.bar \/ bars[r.bar].close <= bars[s.bar].open
  BY DEF FillsFollowSubmissions
<1> DEFINE r == state.results[i]
           s == state.results[j]
<1>1. IsFill(r) => bars[r.bar].open >= intents[i].submitted
  BY FillFrom DEF Eligible
<1>2. ASSUME i < j, IsFill(r), IsFill(s), SameMarket(bars[r.bar], bars[s.bar])
      PROVE  r.bar = s.bar \/ bars[r.bar].close <= bars[s.bar].open
  <2>1. /\ r.bar \in FillBar(bars, intents[i], Model.latency)
        /\ s.bar \in FillBar(bars, intents[j], Model.latency)
        /\ r.bar \in 1..Len(bars) /\ s.bar \in 1..Len(bars)
        /\ i \in 1..Len(intents) /\ j \in 1..Len(intents)
        /\ intents[i] \in OrderIntent /\ intents[j] \in OrderIntent
        /\ SafeBars(bars) /\ SafeIntents(intents)
    BY <1>2, FillFrom
  <2>2. intents[i].market = intents[j].market
    <3>1. r.bar \in Eligible(bars, intents[i]) /\ s.bar \in Eligible(bars, intents[j])
      BY <1>2, FillFrom
    <3> QED BY <1>2, <3>1 DEF Eligible, SameMarket
  <2>3. bars \in Seq(OHLCTVBar) /\ intents \in Seq(OrderIntent)
    BY DEF RunInv
  <2>4. intents[i].submitted <= intents[j].submitted
    BY <1>2, <2>1, <2>3, SubmissionsSorted
  <2> HIDE DEF r, s
  <2>5. r.bar <= s.bar
    BY <2>1, <2>2, <2>3, <2>4, FillBarLater
  <2>6. CASE r.bar < s.bar
    BY <1>2, <2>1, <2>3, <2>6, MarketBarsApart
  <2> QED BY <2>1, <2>5, <2>6
<1> QED BY <1>1, <1>2

\* Cash and inventory are conserved and never overdrawn, in any batch.
THEOREM LedgerIsExact == Spec => []LedgerMatchesResults
<1> QED BY RunAlways, LedgerMatches, PTL

\* No order fills on a bar its strategy had seen open, and a market's orders
\* fill in the order of their submission, on bars that do not overlap.
THEOREM FillsKeepOrder == Spec => []FillsFollowSubmissions
<1> QED BY RunAlways, FillsFollow, PTL
-----------------------------------------------------------------------------
(* No lookahead. *)

\* An order is late for a run that stops after k bars when its fill bar is
\* still to come.
Late(bs, o, k) == \E i \in FillBar(bs, o, Model.latency) : i > k

\* The early run makes the same attempt for an order that is not late, and
\* cannot fill one that is.
LEMMA EarlyAttempt ==
  ASSUME NEW bs \in Seq(OHLCTVBar), NEW k \in 0..Len(bs), NEW o \in OrderIntent
  PROVE  LET early == SubSeq(bs, 1, k)
         IN /\ ~ Late(bs, o, k) => Attempt(early, o) = Attempt(bs, o)
            /\ Late(bs, o, k) => ~ IsFill(Attempt(early, o))
<1> DEFINE early == SubSeq(bs, 1, k)
           at == FillBar(bs, o, Model.latency)
<1>1. early \in Seq(OHLCTVBar) /\ Len(early) = k /\ \A i \in 1..k : early[i] = bs[i]
  OBVIOUS
<1>2. FillBar(early, o, Model.latency) = {i \in at : i <= k}
  BY FillBarOfPrefix
<1>3. \A i \in at : i \in 1..Len(bs)
  BY FillBarNat
<1> HIDE DEF early
<1>4. CASE Barred(o)
  <2>1. PICK reason : Attempt(early, o) = Unfilled(o, reason) /\ Attempt(bs, o) = Unfilled(o, reason)
    BY <1>1, <1>4, AttemptCases
  <2>2. ~ IsFill(Attempt(early, o))
    BY <2>1, UnfilledTyped
  <2> QED BY <2>1, <2>2 DEF early
<1>5. CASE ~ Barred(o) /\ Late(bs, o, k)
  <2>1. FillBar(early, o, Model.latency) = {}
    <3>1. PICK i \in at : i > k
      BY <1>5 DEF Late
    <3>2. \A j \in at : j = i
      BY FillBarUnique
    <3> QED BY <1>2, <1>3, <3>1, <3>2
  <2>2. Attempt(early, o) = Unfilled(o, "no_future_eligible_event")
    BY <1>1, <1>5, <2>1, AttemptCases
  <2>3. ~ IsFill(Attempt(early, o))
    BY <2>2, UnfilledTyped
  <2> QED BY <1>5, <2>3 DEF early
<1>6. CASE ~ Barred(o) /\ ~ Late(bs, o, k) /\ at = {}
  <2>1. FillBar(early, o, Model.latency) = {}
    BY <1>2, <1>6
  <2>2. Attempt(early, o) = Attempt(bs, o)
    BY <1>1, <1>6, <2>1, AttemptCases
  <2> QED BY <1>6, <2>2 DEF early
<1>7. CASE ~ Barred(o) /\ ~ Late(bs, o, k) /\ at # {}
  <2>1. PICK i \in at : i <= k /\ i \in 1..k
    BY <1>3, <1>7 DEF Late
  <2>2. i \in FillBar(early, o, Model.latency) /\ early[i] = bs[i]
    BY <1>1, <1>2, <2>1
  <2>3. Attempt(early, o) = AttemptOn(bs[i], i, o) /\ Attempt(bs, o) = AttemptOn(bs[i], i, o)
    BY <1>1, <1>7, <2>1, <2>2, AttemptCases
  <2> QED BY <1>7, <2>3 DEF early
<1> QED BY <1>4, <1>5, <1>6, <1>7

\* Two runs of a batch for one market, one on the first k bars: they are in the
\* same state until an order is late, and after that neither fills anything on
\* a bar that both have seen.
Agree(r, s, k) == IsFill(r) \/ (IsFill(s) /\ s.bar <= k) => r = s

LEMMA EarlyRun ==
  ASSUME CostTyped, NEW bs \in Seq(OHLCTVBar), NEW is \in Seq(OrderIntent), SafeIntents(is),
         \A i, j \in 1..Len(is) : is[i].market = is[j].market,
         NEW k \in 0..Len(bs),
         NEW opening \in [Assets -> Nat], NEW run, Follows(run, bs, opening, is),
         NEW early, Follows(early, SubSeq(bs, 1, k), opening, is)
  PROVE  \A n \in 0..Len(is) : \A i \in 1..n : Agree(early[n].results[i], run[n].results[i], k)
<1> DEFINE prefix == SubSeq(bs, 1, k)
           Same(n) == (\A i \in 1..n : ~ Late(bs, is[i], k)) => early[n] = run[n]
           AllAgree(n) == \A i \in 1..n : Agree(early[n].results[i], run[n].results[i], k)
           Good == {n \in 0..Len(is) : Same(n) /\ AllAgree(n)}
<1>1. /\ prefix \in Seq(OHLCTVBar)
      /\ \A n \in 0..Len(is) : Replayable(run[n], bs, opening, is, n)
      /\ \A n \in 0..Len(is) : Replayable(early[n], prefix, opening, is, n)
  <2>1. prefix \in Seq(OHLCTVBar)
    OBVIOUS
  <2> QED BY <2>1, RunReplayable
<1>2. 0 \in Good
  BY DEF Follows
<1>3. ASSUME NEW n \in 0..(Len(is) - 1), n \in Good PROVE n + 1 \in Good
  <2> DEFINE o == is[n + 1]
  <2>1. n + 1 \in 1..Len(is) /\ n \in 0..Len(is) /\ n + 1 \in 0..Len(is) /\ o \in OrderIntent
    OBVIOUS
  <2>2. run[n + 1] = Replayed(bs, run[n], o) /\ early[n + 1] = Replayed(prefix, early[n], o)
    BY DEF Follows
  <2>3. run[n] \in RunStates(bs) /\ early[n] \in RunStates(prefix)
        /\ Len(run[n].results) = n /\ Len(early[n].results) = n
    BY <1>1, <2>1 DEF Replayable
  <2>4. PICK r \in Outcomes(prefix) :
           /\ r = Attempt(prefix, o) \/ ~ IsFill(r)
           /\ early[n + 1].results = Append(early[n].results, r)
    <3>1. prefix \in Seq(OHLCTVBar)
      BY <1>1
    <3> HIDE DEF prefix
    <3>2. \E r \in Outcomes(prefix) :
            /\ r = Attempt(prefix, o) \/ ~ IsFill(r)
            /\ Replayed(prefix, early[n], o).results = Append(early[n].results, r)
      BY <2>1, <2>3, <3>1, ReplayedStep
    <3> QED BY <2>2, <3>2
  <2>5. PICK s \in Outcomes(bs) :
           /\ s = Attempt(bs, o) \/ ~ IsFill(s)
           /\ run[n + 1].results = Append(run[n].results, s)
    <3> HIDE DEF o, prefix
    <3>1. \E s \in Outcomes(bs) :
            /\ s = Attempt(bs, o) \/ ~ IsFill(s)
            /\ Replayed(bs, run[n], o).results = Append(run[n].results, s)
      BY <2>1, <2>3, ReplayedStep
    <3> QED BY <2>2, <3>1
  <2>6. /\ early[n + 1].results[n + 1] = r /\ run[n + 1].results[n + 1] = s
        /\ \A i \in 1..n : early[n + 1].results[i] = early[n].results[i]
        /\ \A i \in 1..n : run[n + 1].results[i] = run[n].results[i]
    <3>1. early[n].results \in Seq(Outcomes(prefix)) /\ run[n].results \in Seq(Outcomes(bs))
      BY <2>3 DEF RunStates
    <3> QED BY <2>3, <2>4, <2>5, <3>1
  <2>7. Same(n + 1)
    <3> SUFFICES ASSUME \A i \in 1..(n + 1) : ~ Late(bs, is[i], k)
                 PROVE  early[n + 1] = run[n + 1]
      OBVIOUS
    <3>1. early[n] = run[n]
      BY <1>3
    <3>2. Attempt(prefix, o) = Attempt(bs, o)
      BY <2>1, EarlyAttempt
    <3> QED BY <2>2, <3>1, <3>2 DEF Replayed
  <2>8. Agree(r, s, k)
    <3>1. CASE \A i \in 1..(n + 1) : ~ Late(bs, is[i], k)
      <4>1. early[n + 1] = run[n + 1]
        BY <2>7, <3>1
      <4> QED BY <2>6, <4>1 DEF Agree
    <3>2. CASE \E i \in 1..(n + 1) : Late(bs, is[i], k)
      <4>1. PICK i \in 1..(n + 1) : Late(bs, is[i], k)
        BY <3>2
      <4>2. PICK late \in FillBar(bs, is[i], Model.latency) : late > k
        BY <4>1 DEF Late
      <4>3. i \in 1..Len(is) /\ is[i] \in OrderIntent /\ is[i].submitted <= o.submitted
            /\ is[i].market = o.market
        BY <2>1, SubmissionsSorted
      <4>4. \A b \in FillBar(bs, o, Model.latency) : late <= b
        BY <2>1, <4>2, <4>3, FillBarLater
      <4>5. \A b \in FillBar(bs, o, Model.latency) : b > k
        <5>1. \A b \in FillBar(bs, o, Model.latency) : b \in Nat
          BY FillBarNat
        <5>2. late \in Nat
          BY FillBarNat
        <5> QED BY <4>2, <4>4, <5>1, <5>2
      <4>6. ~ IsFill(r)
        <5>1. FillBar(prefix, o, Model.latency) = {}
          <6>1. FillBar(prefix, o, Model.latency) = {b \in FillBar(bs, o, Model.latency) : b <= k}
            BY FillBarOfPrefix
          <6>2. \A b \in FillBar(bs, o, Model.latency) : b \in Nat
            BY FillBarNat
          <6> QED BY <4>5, <6>1, <6>2
        <5> QED BY <1>1, <2>1, <2>4, <5>1, AttemptTyped
      <4>7. IsFill(s) => ~ (s.bar <= k)
        <5>1. IsFill(s) => s.bar \in FillBar(bs, o, Model.latency)
          BY <2>1, <2>5, AttemptTyped
        <5>2. \A b \in FillBar(bs, o, Model.latency) : b \in Nat
          BY FillBarNat
        <5> QED BY <4>5, <5>1, <5>2
      <4> QED BY <4>6, <4>7 DEF Agree
    <3> QED BY <3>1, <3>2
  <2>9. AllAgree(n + 1)
    <3> SUFFICES ASSUME NEW i \in 1..(n + 1)
                 PROVE  Agree(early[n + 1].results[i], run[n + 1].results[i], k)
      OBVIOUS
    <3>1. CASE i = n + 1
      BY <2>6, <2>8, <3>1
    <3>2. CASE i \in 1..n
      BY <1>3, <2>6, <3>2
    <3> QED BY <3>1, <3>2
  <2> HIDE DEF Same, AllAgree
  <2> QED BY <2>1, <2>7, <2>9
<1>4. \A n \in 0..Len(is) : n \in Good
  <2>1. Len(is) \in Nat
    OBVIOUS
  <2> HIDE DEF Good
  <2> QED BY <1>2, <1>3, <2>1, UpToBound
<1> QED BY <1>4

LEMMA Causal == RunInv => CausalWithinMarket
<1> SUFFICES ASSUME RunInv, \A i, j \in 1..Len(intents) : intents[i].market = intents[j].market,
                    outcome = "done", NEW k \in 0..Len(bars), NEW i \in 1..Len(intents)
             PROVE  Agree(Replay(SubSeq(bars, 1, k)).results[i], state.results[i], k)
  BY DEF CausalWithinMarket, NoLookahead, Agree
<1>1. /\ CostTyped /\ bars \in Seq(OHLCTVBar) /\ intents \in Seq(OrderIntent)
      /\ SafeIntents(intents) /\ Len(state.results) = Len(intents) /\ Len(intents) \in Nat
  BY DEF RunInv
<1>2. PICK run : Follows(run, bars, Opening, intents) /\ state = run[Len(intents)]
  BY <1>1 DEF RunInv
<1> DEFINE early == States(SubSeq(bars, 1, k), Opening, intents)
<1>3. Follows(early, SubSeq(bars, 1, k), Opening, intents)
  BY <1>1, StatesFollow
<1>4. Replay(SubSeq(bars, 1, k)) = early[Len(intents)]
  BY DEF Replay
<1> HIDE DEF early
<1>5. \A n \in 0..Len(intents) : \A m \in 1..n : Agree(early[n].results[m], run[n].results[m], k)
  BY <1>1, <1>2, <1>3, EarlyRun, OpeningAssumption
<1>6. Agree(early[Len(intents)].results[i], run[Len(intents)].results[i], k)
  BY <1>1, <1>5
<1> QED BY <1>2, <1>4, <1>6

\* No lookahead: a batch for one market that is stopped after any number of
\* bars has the results, on those bars, of the batch that runs to the end.
THEOREM NoLookaheadInMarket == Spec => []CausalWithinMarket
<1> QED BY RunAlways, Causal, PTL
=============================================================================
