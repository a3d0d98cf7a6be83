------------------------- MODULE ResearchPipelineProofs -------------------------
(***************************************************************************)
(* Proofs about ResearchPipeline, for any pages, bars, quotes, labels and  *)
(* windows.  Pages are only ever added behind the ones already there, and  *)
(* the engines refuse a history whose bars are not in order: so a bar,     *)
(* once used, keeps its number, and what is computed of it looks back.     *)
(* Whatever was published is therefore what the history at hand, with all  *)
(* the quotes, labels and higher bars there will ever be, says of it: that *)
(* is the invariant, PublishedInv.                                         *)
(***************************************************************************)
EXTENDS ResearchPipeline, WellFoundedInduction, FiniteSetTheorems, TLAPS

Bars == UNION {Range(page.bars) : page \in Pages}

\* The bars delivered so far, in the order of the pages.
History == Concatenated(pages)

-----------------------------------------------------------------------------
(* Numbers.  UpToBound is induction without an operator parameter. *)

\* A set of naturals has a least member, "<" being well-founded.
LEMMA LeastNatural ==
  ASSUME NEW S \in SUBSET Nat, S # {}
  PROVE  \E m \in S : \A n \in S : m <= n
<1> DEFINE R == OpToRel(<, Nat)
<1>1. IsWellFoundedOn(R, Nat)
  BY NatLessThanWellFounded
<1>2. \A x, y \in Nat : x < y => <<x, y>> \in R
  BY DEF OpToRel
<1> HIDE DEF R
<1>3. PICK m \in S : \A n \in S : ~ (<<n, m>> \in R)
  BY <1>1, WFMin
<1>4. m \in Nat /\ \A n \in S : n \in Nat /\ ~ (n < m)
  BY <1>2, <1>3
<1> QED BY <1>4

\* Induction up to a bound, over a set: the least number it misses is neither
\* 0 nor a successor.
LEMMA UpToBound ==
  ASSUME NEW bound \in Nat, NEW Good, 0 \in Good,
         \A n \in 0..(bound - 1) : n \in Good => n + 1 \in Good
  PROVE  \A n \in 0..bound : n \in Good
<1> DEFINE missed == {n \in 0..bound : n \notin Good}
<1> SUFFICES ASSUME missed # {} PROVE FALSE
  OBVIOUS
<1>1. PICK m \in missed : \A n \in missed : m <= n
  <2>1. missed \in SUBSET Nat
    OBVIOUS
  <2> HIDE DEF missed
  <2> QED BY <2>1, LeastNatural
<1>2. m # 0 /\ m \in Nat /\ m \notin Good /\ m <= bound
  OBVIOUS
<1>3. m - 1 \in 0..(bound - 1) /\ m - 1 \notin missed
  BY <1>1, <1>2
<1>4. m - 1 \in Good
  BY <1>2, <1>3
<1>5. (m - 1) + 1 \in Good
  BY <1>3, <1>4
<1> QED BY <1>2, <1>5

-----------------------------------------------------------------------------
(* Pages in a row. *)

IsConcatenation(upto, ps, bound) ==
  upto = [n \in 0..bound |-> IF n = 0 THEN <<>> ELSE upto[n - 1] \o ps[n].bars]

\* The recursion Concatenated is defined by has a solution.
LEMMA ConcatenationExists ==
  ASSUME NEW ps, NEW bound \in Nat
  PROVE  \E upto : IsConcatenation(upto, ps, bound)
<1> DEFINE Good == {n \in 0..bound : \E upto : IsConcatenation(upto, ps, n)}
<1>1. 0 \in Good
  <2>1. IsConcatenation([n \in 0..0 |-> <<>>], ps, 0)
    BY DEF IsConcatenation
  <2> QED BY <2>1
<1>2. ASSUME NEW n \in 0..(bound - 1), n \in Good PROVE n + 1 \in Good
  <2>1. PICK upto : IsConcatenation(upto, ps, n)
    BY <1>2
  <2> DEFINE longer == [k \in 0..(n + 1) |-> IF k = n + 1 THEN upto[n] \o ps[n + 1].bars
                                             ELSE upto[k]]
  <2>2. \A k \in 0..n : upto[k] = IF k = 0 THEN <<>> ELSE upto[k - 1] \o ps[k].bars
    BY <2>1 DEF IsConcatenation
  <2>3. \A k \in 0..(n + 1) : longer[k] = IF k = 0 THEN <<>> ELSE longer[k - 1] \o ps[k].bars
    BY <2>2
  <2>4. IsConcatenation(longer, ps, n + 1)
    BY <2>3 DEF IsConcatenation
  <2> QED BY <2>4
<1>3. \A n \in 0..bound : n \in Good
  <2> HIDE DEF Good
  <2> QED BY <1>1, <1>2, UpToBound
<1> QED BY <1>3

\* The bars of the first n pages, page by page.
Steps(upto, ps) ==
  /\ upto[0] = <<>>
  /\ \A n \in 0..(Len(ps) - 1) : upto[n + 1] = upto[n] \o ps[n + 1].bars

\* Concatenated is the last of the concatenations of the first n pages.
LEMMA ConcatenatedIs ==
  ASSUME NEW ps, Len(ps) \in Nat
  PROVE  \E upto : Steps(upto, ps) /\ Concatenated(ps) = upto[Len(ps)]
<1> DEFINE upto == CHOOSE f : IsConcatenation(f, ps, Len(ps))
<1>1. IsConcatenation(upto, ps, Len(ps))
  BY ConcatenationExists
<1>2. Concatenated(ps) = upto[Len(ps)]
  BY DEF Concatenated, IsConcatenation
<1> HIDE DEF upto
<1>3. upto[0] = <<>>
  BY <1>1 DEF IsConcatenation
<1>4. ASSUME NEW n \in 0..(Len(ps) - 1) PROVE upto[n + 1] = upto[n] \o ps[n + 1].bars
  <2>1. n + 1 \in 0..Len(ps) /\ n + 1 # 0 /\ (n + 1) - 1 = n
    OBVIOUS
  <2> QED BY <1>1, <2>1 DEF IsConcatenation
<1> QED BY <1>2, <1>3, <1>4 DEF Steps

\* A delivered page has a sequence of bars with numbers for times and prices.
LEMMA PageTyped ==
  ASSUME NEW page \in Pages
  PROVE  page.bars \in Seq(Bars)
<1>1. Range(page.bars) \subseteq Bars
  BY DEF Bars
<1>2. page.bars \in Seq(Range(page.bars))
  BY PipelineAssumption
<1> QED BY <1>1, <1>2

LEMMA BarTyped ==
  \A bar \in Bars : bar.open \in Int /\ bar.close \in Int /\ bar.price \in Int
BY PipelineAssumption DEF Bars

\* The bars of some pages are a sequence of bars.
LEMMA HistoryTyped ==
  ASSUME NEW ps \in Seq(Pages)
  PROVE  Concatenated(ps) \in Seq(Bars)
<1>0. Len(ps) \in Nat
  OBVIOUS
<1>1. PICK upto : Steps(upto, ps) /\ Concatenated(ps) = upto[Len(ps)]
  BY <1>0, ConcatenatedIs
<1> DEFINE Good == {n \in 0..Len(ps) : upto[n] \in Seq(Bars)}
<1>2. 0 \in Good
  <2>1. <<>> \in Seq(Bars) /\ 0 \in 0..Len(ps)
    BY <1>0
  <2>2. upto[0] \in Seq(Bars)
    BY <1>1, <2>1 DEF Steps
  <2> QED BY <2>1, <2>2
<1>3. ASSUME NEW n \in 0..(Len(ps) - 1), n \in Good PROVE n + 1 \in Good
  <2>1. ps[n + 1] \in Pages /\ upto[n] \in Seq(Bars) /\ n + 1 \in 0..Len(ps)
    BY <1>0, <1>3
  <2>2. ps[n + 1].bars \in Seq(Bars)
    BY <2>1, PageTyped
  <2>3. upto[n + 1] = upto[n] \o ps[n + 1].bars
    BY <1>1 DEF Steps
  <2>4. upto[n + 1] \in Seq(Bars)
    BY <2>1, <2>2, <2>3
  <2> QED BY <2>1, <2>4
<1>4. \A n \in 0..Len(ps) : n \in Good
  <2> HIDE DEF Good
  <2> QED BY <1>2, <1>3, UpToBound
<1> QED BY <1>1, <1>4

\* A page that arrives leaves the bars before it where they are.
LEMMA HistoryAppend ==
  ASSUME NEW ps \in Seq(Pages), NEW page \in Pages
  PROVE  Concatenated(Append(ps, page)) = Concatenated(ps) \o page.bars
<1> DEFINE longer == Append(ps, page)
<1>0. Len(longer) = Len(ps) + 1 /\ longer[Len(ps) + 1] = page /\ longer \in Seq(Pages)
      /\ \A n \in 1..Len(ps) : longer[n] = ps[n]
  OBVIOUS
<1> HIDE DEF longer
<1>7. Len(ps) \in Nat /\ Len(longer) \in Nat
  BY <1>0
<1>1. PICK a : Steps(a, ps) /\ Concatenated(ps) = a[Len(ps)]
  BY <1>7, ConcatenatedIs
<1>2. PICK b : Steps(b, longer) /\ Concatenated(longer) = b[Len(longer)]
  BY <1>7, ConcatenatedIs
<1> DEFINE Good == {n \in 0..Len(ps) : a[n] = b[n]}
<1>3. 0 \in Good
  BY <1>1, <1>2, <1>7 DEF Steps
<1>4. ASSUME NEW n \in 0..(Len(ps) - 1), n \in Good PROVE n + 1 \in Good
  <2>1. n \in 0..(Len(longer) - 1) /\ longer[n + 1] = ps[n + 1] /\ n + 1 \in 0..Len(ps)
    BY <1>0, <1>7
  <2>2. a[n + 1] = a[n] \o ps[n + 1].bars /\ b[n + 1] = b[n] \o longer[n + 1].bars
    BY <1>1, <1>2, <2>1 DEF Steps
  <2> QED BY <1>4, <2>1, <2>2
<1>5. \A n \in 0..Len(ps) : n \in Good
  <2> HIDE DEF Good
  <2> QED BY <1>3, <1>4, UpToBound
<1>6. a[Len(ps)] = b[Len(ps)] /\ Len(ps) \in 0..(Len(longer) - 1)
  BY <1>0, <1>5, <1>7
<1>8. b[Len(longer)] = b[Len(ps)] \o page.bars
  BY <1>0, <1>2, <1>6 DEF Steps
<1> QED BY <1>1, <1>2, <1>6, <1>8 DEF longer
-----------------------------------------------------------------------------
(* A vector looks back. *)

\* Two histories with the same first n bars.
SameUpTo(a, b, n) == \A i \in 1..n : a[i] = b[i]

\* The bars up to the n-th close one after the other.
SortedUpTo(batch, n) == \A i, j \in 1..n : i < j => batch[i].close < batch[j].close

\* What is computed of the n-th bar is computed of the first n.
LEMMA LooksBack ==
  ASSUME NEW a, NEW b, NEW n \in Nat \ {0}, SameUpTo(a, b, n)
  PROVE  /\ Closes(a, n) = Closes(b, n)
         /\ Returns(a, n) = Returns(b, n)
         /\ Restrict(a, 1..n) = Restrict(b, 1..n)
<1>1. \A i \in 1..n : a[i] = b[i]
  BY DEF SameUpTo
<1>2. Closes(a, n) = Closes(b, n)
  BY <1>1 DEF Closes, Price
<1>3. Returns(a, n) = Returns(b, n)
  <2>1. \A i \in 1..(n - 1) : a[i] = b[i] /\ a[i + 1] = b[i + 1]
    BY <1>1
  <2>2. {i \in 1..(n - 1) : Price(a[i]) # 0} = {i \in 1..(n - 1) : Price(b[i]) # 0}
    BY <2>1
  <2> QED BY <2>1, <2>2 DEF Returns, Price
<1>4. Restrict(a, 1..n) = Restrict(b, 1..n)
  BY <1>1 DEF Restrict
<1> QED BY <1>2, <1>3, <1>4

LEMMA TaLooksBack ==
  ASSUME NEW a, NEW b, NEW n \in Nat \ {0}, SameUpTo(a, b, n), NEW higher
  PROVE  TaVector(a, higher, n) = TaVector(b, higher, n)
<1>1. a[n] = b[n] /\ (n # 1 => a[n - 1] = b[n - 1])
      /\ (~ n <= Lookback => a[n - Lookback] = b[n - Lookback])
  BY FeatureAssumption DEF SameUpTo
<1>2. (IF n = 1 THEN {} ELSE Return(Price(a[n - 1]), Price(a[n])))
        = IF n = 1 THEN {} ELSE Return(Price(b[n - 1]), Price(b[n]))
  BY <1>1
<1>3. (IF n <= Lookback THEN {} ELSE Return(Price(a[n - Lookback]), Price(a[n])))
        = IF n <= Lookback THEN {} ELSE Return(Price(b[n - Lookback]), Price(b[n]))
  BY <1>1
<1> QED BY <1>1, <1>2, <1>3, LooksBack DEF TaVector

LEMMA LiquidityLooksBack ==
  ASSUME NEW a, NEW b, NEW n \in Nat \ {0}, SameUpTo(a, b, n), NEW quotes
  PROVE  LiquidityVector(a, quotes, n) = LiquidityVector(b, quotes, n)
<1>1. a[n] = b[n]
  BY DEF SameUpTo
<1> QED BY <1>1, LooksBack DEF LiquidityVector

\* What closed by a moment is the same whoever asks later.
LEMMA HigherKnown ==
  ASSUME NEW batch, NEW n, NEW t \in Int, batch[n].close \in Int, batch[n].close <= t,
         NEW known, known = Restrict(Higher, {i \in DOMAIN Higher : Higher[i].close <= t}),
         DOMAIN known # {}
  PROVE  TaVector(batch, known, n) = TaVector(batch, Higher, n)
<1> DEFINE ts == batch[n].close
<1>1. DOMAIN known = {i \in DOMAIN Higher : Higher[i].close <= t}
      /\ \A i \in DOMAIN known : known[i] = Higher[i]
  BY DEF Restrict
<1>2. \A i \in DOMAIN Higher : Higher[i].close \in Int
  BY PipelineAssumption DEF Range
<1> HIDE DEF ts
<1>3. ClosedBy(known, ts) = ClosedBy(Higher, ts)
  <2>1. ts \in Int /\ ts <= t
    BY DEF ts
  <2>2. ASSUME NEW i \in DOMAIN Higher, Higher[i].close <= ts PROVE i \in DOMAIN known
    BY <1>1, <1>2, <2>1, <2>2
  <2>3. \A i \in DOMAIN known : i \in DOMAIN Higher /\ known[i] = Higher[i]
    BY <1>1
  <2> QED BY <2>2, <2>3 DEF ClosedBy
<1>4. ClosedBy(known, ts) \subseteq DOMAIN known
  BY DEF ClosedBy
<1>5. Restrict(known, ClosedBy(known, ts)) = Restrict(Higher, ClosedBy(Higher, ts))
  BY <1>1, <1>3, <1>4 DEF Restrict
<1>6. {Price(known[i]) : i \in Newest(ClosedBy(known, ts))}
        = {Price(Higher[i]) : i \in Newest(ClosedBy(Higher, ts))}
  BY <1>1, <1>3, <1>4 DEF Newest
<1>7. DOMAIN Higher # {}
  BY <1>1
<1>8. (IF DOMAIN known = {} THEN {} ELSE {{Price(known[i]) : i \in Newest(ClosedBy(known, ts))}})
        = IF DOMAIN Higher = {} THEN {} ELSE {{Price(Higher[i]) : i \in Newest(ClosedBy(Higher, ts))}}
  BY <1>6, <1>7
<1> QED BY <1>5, <1>8 DEF TaVector, ts

\* Without a higher timeframe there is nothing to ask.
LEMMA HigherAbsent ==
  ASSUME NEW batch, NEW n, NEW none, none = [i \in {} |-> Higher[i]]
  PROVE  TaVector(batch, none, n) = TaVector(batch, <<>>, n)
<1>1. DOMAIN none = {} /\ DOMAIN <<>> = {}
  OBVIOUS
<1>2. \A ts : ClosedBy(none, ts) = {} /\ ClosedBy(<<>>, ts) = {}
  BY <1>1 DEF ClosedBy
<1>3. Restrict(none, {}) = Restrict(<<>>, {})
  BY DEF Restrict
<1> QED BY <1>1, <1>2, <1>3 DEF TaVector

\* Nor is a quote that was known later.
LEMMA QuotesKnown ==
  ASSUME NEW batch, NEW n, NEW t \in Int, batch[n].close \in Int, batch[n].close <= t,
         NEW known,
         known = Restrict(Quotes, {i \in DOMAIN Quotes :
                                     Quotes[i].event <= t /\ \A s \in Quotes[i].source : s <= t})
  PROVE  LiquidityVector(batch, known, n) = LiquidityVector(batch, Quotes, n)
<1> DEFINE ts == batch[n].close
<1>1. /\ DOMAIN known = {i \in DOMAIN Quotes :
                           Quotes[i].event <= t /\ \A s \in Quotes[i].source : s <= t}
      /\ \A i \in DOMAIN known : known[i] = Quotes[i]
  BY DEF Restrict
<1>2. \A i \in DOMAIN Quotes : Quotes[i].event \in Int /\ \A s \in Quotes[i].source : s \in Int
  BY PipelineAssumption DEF Range
<1> HIDE DEF ts
<1>3. VisibleQuotes(known, ts) = VisibleQuotes(Quotes, ts)
  <2>1. ts \in Int /\ ts <= t
    BY DEF ts
  <2>2. ASSUME NEW i \in DOMAIN Quotes, Quotes[i].event <= ts, \A s \in Quotes[i].source : s <= ts
        PROVE  i \in DOMAIN known
    <3>1. Quotes[i].event <= t
      BY <1>2, <2>1, <2>2
    <3>2. \A s \in Quotes[i].source : s <= t
      BY <1>2, <2>1, <2>2
    <3> QED BY <1>1, <3>1, <3>2
  <2>3. \A i \in DOMAIN known : i \in DOMAIN Quotes /\ known[i] = Quotes[i]
    BY <1>1
  <2> QED BY <2>2, <2>3 DEF VisibleQuotes
<1>4. VisibleQuotes(known, ts) \subseteq DOMAIN known
  BY DEF VisibleQuotes
<1>5. {known[i] : i \in Newest(VisibleQuotes(known, ts))}
        = {Quotes[i] : i \in Newest(VisibleQuotes(Quotes, ts))}
  BY <1>1, <1>3, <1>4 DEF Newest
<1> QED BY <1>5 DEF LiquidityVector, ts
-----------------------------------------------------------------------------
(* A forecast looks back, too. *)

\* Rows of which the second are the first up to the n-th.
RowsUpTo(rows, some, n) ==
  /\ DOMAIN rows \subseteq Nat
  /\ DOMAIN some = {k \in DOMAIN rows : k <= n}
  /\ \A k \in DOMAIN some : some[k] = rows[k]

LEMMA BucketLooksBack ==
  ASSUME NEW rows, NEW some, NEW n \in Nat, RowsUpTo(rows, some, n), NEW k \in DOMAIN some
  PROVE  Falling(rows, k) = Falling(some, k)
<1>1. k \in DOMAIN rows /\ k \in Nat /\ k <= n /\ rows[k] = some[k]
  BY DEF RowsUpTo
<1>2. {j \in DOMAIN rows : j < k} = {j \in DOMAIN some : j < k}
  BY <1>1 DEF RowsUpTo
<1>3. \A j \in Newest({j \in DOMAIN some : j < k}) : rows[j] = some[j]
  BY DEF Newest, RowsUpTo
<1>4. Falling(rows, k) <=> Falling(some, k)
  BY <1>1, <1>2, <1>3 DEF Falling
<1>5. Falling(rows, k) \in BOOLEAN /\ Falling(some, k) \in BOOLEAN
  BY DEF Falling
<1> QED BY <1>4, <1>5

\* A row after all train rows is scored with what came before it.
LEMMA ScoreLooksBack ==
  ASSUME NEW rows, NEW some, NEW n \in DOMAIN some, RowsUpTo(rows, some, n),
         \A k \in Of(rows, "train") : k <= n
  PROVE  Scored(rows, n) = Scored(some, n)
<1>0. n \in Nat /\ n \in DOMAIN rows /\ rows[n] = some[n]
  BY DEF RowsUpTo
<1>1. Of(rows, "train") = Of(some, "train") /\ Of(some, "train") \subseteq DOMAIN some
  BY DEF Of, RowsUpTo
<1>2. \A k \in DOMAIN some : Falling(rows, k) = Falling(some, k)
  BY <1>0, BucketLooksBack
<1>3. \A k \in DOMAIN some : rows[k].label = some[k].label
  BY DEF RowsUpTo
<1>4. ASSUME NEW falling PROVE Fitted(rows, falling) = Fitted(some, falling)
  <2> DEFINE train  == Of(some, "train")
             inRows == {i \in train : Falling(rows, i) = falling}
             inSome == {i \in train : Falling(some, i) = falling}
  <2>1. inRows = inSome
    BY <1>1, <1>2
  <2>2. \A i \in train : rows[i].label = some[i].label
    BY <1>1, <1>3
  <2>3. {rows[i].label : i \in IF inRows = {} THEN train ELSE inRows}
          = {some[i].label : i \in IF inSome = {} THEN train ELSE inSome}
    BY <2>1, <2>2
  <2>4. Fitted(rows, falling) = UNION {rows[i].label : i \in IF inRows = {} THEN train ELSE inRows}
    BY <1>1 DEF Fitted
  <2>5. Fitted(some, falling) = UNION {some[i].label : i \in IF inSome = {} THEN train ELSE inSome}
    BY DEF Fitted
  <2> QED BY <2>3, <2>4, <2>5
<1>5. Fitted(rows, Falling(rows, n)) = Fitted(some, Falling(some, n))
  <2>1. Falling(rows, n) = Falling(some, n)
    BY <1>2
  <2>2. Fitted(rows, Falling(rows, n)) = Fitted(some, Falling(rows, n))
    BY <1>4
  <2> QED BY <2>1, <2>2
<1> QED BY <1>0, <1>5 DEF Scored

\* The train window comes first.
LEMMA TrainFirst ==
  ASSUME NEW a, NEW b, SplitOf(a) = {"train"}, SplitOf(b) # {},
         SplitOf(b) \subseteq {"validation", "test"}, a \in Int, b \in Int
  PROVE  a < b /\ a < Splits[1].end
<1>1. /\ DOMAIN Splits = 1..3
      /\ Splits[1].split = "train" /\ Splits[2].split = "validation" /\ Splits[3].split = "test"
  <2> DEFINE names == [i \in DOMAIN Splits |-> Splits[i].split]
  <2>1. names = <<"train", "validation", "test">>
    BY PipelineAssumption
  <2>2. DOMAIN names = 1..3
    BY <2>1
  <2>3. DOMAIN Splits = 1..3
    BY <2>2
  <2>4. names[1] = "train" /\ names[2] = "validation" /\ names[3] = "test"
    BY <2>1
  <2> QED BY <2>3, <2>4
<1>2. PICK w \in Range(Splits) : w.split = "train" /\ w.start <= a /\ a < w.end
  BY DEF SplitOf
<1>3. PICK v \in Range(Splits) : v.split \in {"validation", "test"} /\ v.start <= b /\ b < v.end
  BY DEF SplitOf
<1>4. w = Splits[1]
  BY <1>1, <1>2 DEF Range
<1>5. v = Splits[2] \/ v = Splits[3]
  BY <1>1, <1>3 DEF Range
<1>6. /\ Splits[1].end <= Splits[2].start /\ Splits[2].start < Splits[2].end
      /\ Splits[2].end <= Splits[3].start
  <2>1. \A i \in 2..3 : Splits[i - 1].end <= Splits[i].start
    BY PipelineAssumption
  <2>2. Splits[2].start < Splits[2].end
    BY <1>1, PipelineAssumption
  <2>3. 2 - 1 = 1 /\ 3 - 1 = 2
    OBVIOUS
  <2> QED BY <2>1, <2>2, <2>3
<1>7. \A i \in 1..3 : Splits[i].start \in Int /\ Splits[i].end \in Int
  BY <1>1, PipelineAssumption
<1> QED BY <1>2, <1>3, <1>4, <1>5, <1>6, <1>7
-----------------------------------------------------------------------------
(* The invariant. *)

\* A vector a row can be made of once its label is observed.
Complete(vector) ==
  SplitOf(vector.ts) # {} /\ vector.return # {} /\ LabelOf(vector.ts, Labels) # {}

\* All rows there will ever be of the first n bars.
RowsOf(batch, n) ==
  [i \in {i \in 1..n : Complete(TaVector(batch, <<>>, i))} |-> Row(TaVector(batch, <<>>, i), Labels)]

\* What is published of the n-th bar.
FeaturesOf(batch, n) ==
  {[kind |-> "ta", higher |-> TRUE, vector |-> TaVector(batch, Higher, n)],
   [kind |-> "ta", higher |-> FALSE, vector |-> TaVector(batch, <<>>, n)],
   [kind |-> "liquidity", higher |-> FALSE, vector |-> LiquidityVector(batch, Quotes, n)]}

\* The forecast of the n-th bar, which is not a train row.
IsForecast(f, batch, n) ==
  /\ n \in DOMAIN RowsOf(batch, n)
  /\ SplitOf(batch[n].close) \subseteq {"validation", "test"}
  /\ f = Scored(RowsOf(batch, n), n)

PublishedInv ==
  /\ now \in Int /\ pages \in Seq(Pages)
  /\ \A bar \in Range(History) : bar.close <= now
  /\ \A f \in features : \E n \in DOMAIN History :
       SortedUpTo(History, n) /\ f \in FeaturesOf(History, n)
  /\ \A f \in forecasts : \E n \in DOMAIN History :
       SortedUpTo(History, n) /\ IsForecast(f, History, n)

\* A history that grows publishes what it published.
LEMMA GrowsInPlace ==
  ASSUME NEW a, NEW b, NEW n \in Nat \ {0}, SameUpTo(a, b, n)
  PROVE  /\ SortedUpTo(a, n) => SortedUpTo(b, n)
         /\ FeaturesOf(a, n) = FeaturesOf(b, n)
         /\ \A f : IsForecast(f, a, n) => IsForecast(f, b, n)
<1>1. SortedUpTo(a, n) => SortedUpTo(b, n)
  BY DEF SortedUpTo, SameUpTo
<1>2. FeaturesOf(a, n) = FeaturesOf(b, n)
  BY TaLooksBack, LiquidityLooksBack DEF FeaturesOf
<1>3. ASSUME NEW i \in 1..n PROVE TaVector(a, <<>>, i) = TaVector(b, <<>>, i)
  <2>1. i \in Nat \ {0} /\ SameUpTo(a, b, i)
    BY DEF SameUpTo
  <2> QED BY <2>1, TaLooksBack
<1>4. RowsOf(a, n) = RowsOf(b, n)
  <2>1. {i \in 1..n : Complete(TaVector(a, <<>>, i))} = {i \in 1..n : Complete(TaVector(b, <<>>, i))}
    BY <1>3
  <2> QED BY <1>3, <2>1 DEF RowsOf
<1>5. a[n].close = b[n].close
  BY DEF SameUpTo
<1> QED BY <1>1, <1>2, <1>4, <1>5 DEF IsForecast

\* What a run of training forecasts is the forecast of one of the bars.
LEMMA CandidateIsForecast ==
  ASSUME now \in Int, NEW batch \in Seq(Bars), NEW vectors \in TaVectors(batch, <<>>),
         NEW chosen \in {vectors, Usable(vectors)}, NEW rows \in Snapshots(chosen, Observed),
         NEW splits \in SUBSET {"validation", "test"}, NEW f \in Candidates(rows, splits)
  PROVE  \E n \in DOMAIN batch : SortedUpTo(batch, n) /\ IsForecast(f, batch, n)
<1> DEFINE vec(i) == TaVector(batch, <<>>, i)
<1>1. /\ vectors = [i \in DOMAIN batch |-> vec(i)]
      /\ \A i, j \in DOMAIN batch : i < j => batch[i].close < batch[j].close
  BY DEF TaVectors, FeaturesAccept
<1>2. \A i : vec(i).ts = batch[i].close
  BY DEF TaVector
<1>3. \A i \in DOMAIN batch : batch[i].close \in Int
  BY BarTyped
<1>4. DOMAIN batch = 1..Len(batch) /\ Len(batch) \in Nat
  OBVIOUS
<1> HIDE DEF vec
<1>5. /\ DOMAIN rows = DOMAIN chosen
      /\ \A i \in DOMAIN rows : rows[i] = Row(chosen[i], Observed)
      /\ \A i \in DOMAIN rows : rows[i].split # {} /\ rows[i].label # {}
  BY DEF Snapshots
<1>6. /\ \A i \in DOMAIN rows : rows[i].return # {}
      /\ \E i \in DOMAIN rows : rows[i].split \subseteq splits /\ f = Scored(rows, i)
  BY DEF Candidates
<1>7. DOMAIN chosen \subseteq DOMAIN batch /\ \A i \in DOMAIN chosen : chosen[i] = vec(i)
  BY <1>1 DEF Usable, Restrict
<1>8. \A i \in DOMAIN rows : rows[i] = Row(vec(i), Observed)
  BY <1>5, <1>7
<1>9. PICK n \in DOMAIN rows : rows[n].split \subseteq splits /\ f = Scored(rows, n)
  BY <1>6
<1>10. n \in DOMAIN batch /\ n \in Nat \ {0}
  BY <1>4, <1>5, <1>7, <1>9
<1>11. \A i : /\ Row(vec(i), Observed).split = SplitOf(batch[i].close)
              /\ Row(vec(i), Observed).label = LabelOf(batch[i].close, Observed)
              /\ Row(vec(i), Observed).return = vec(i).return
  BY <1>2 DEF Row
<1>12. \A i \in DOMAIN batch :
          i \in DOMAIN rows <=> /\ SplitOf(batch[i].close) # {} /\ vec(i).return # {}
                                /\ LabelOf(batch[i].close, Observed) # {}
  <2>1. \A i \in DOMAIN rows : /\ SplitOf(batch[i].close) # {} /\ vec(i).return # {}
                               /\ LabelOf(batch[i].close, Observed) # {}
    BY <1>5, <1>6, <1>8, <1>11
  <2>2. ASSUME NEW i \in DOMAIN batch, SplitOf(batch[i].close) # {}, vec(i).return # {},
               LabelOf(batch[i].close, Observed) # {}
        PROVE  i \in DOMAIN rows
    <3>1. CASE chosen = vectors
      BY <1>1, <1>5, <3>1
    <3>2. CASE chosen = Usable(vectors)
      <4>1. vectors[i] = vec(i) /\ i \in DOMAIN vectors
        BY <1>1
      <4>2. i \in DOMAIN Usable(vectors)
        BY <1>2, <2>2, <4>1 DEF Usable, Restrict
      <4> QED BY <1>5, <3>2, <4>2
    <3> QED BY <3>1, <3>2
  <2> QED BY <2>1, <2>2
<1>13. ASSUME NEW i \in 1..n PROVE LabelOf(batch[i].close, Observed) = LabelOf(batch[i].close, Labels)
  <2>1. PICK o \in Observed : o.ts = batch[n].close + Horizon
    BY <1>5, <1>8, <1>9, <1>11 DEF LabelOf
  <2>2. o.ts <= now
    BY <2>1 DEF Observed
  <2>3. i \in DOMAIN batch /\ batch[i].close \in Int /\ batch[n].close \in Int
    BY <1>3, <1>4, <1>10
  <2>4. batch[i].close <= batch[n].close
    BY <1>1, <1>10, <2>3
  <2>5. batch[i].close + Horizon <= now
    BY <2>1, <2>2, <2>3, <2>4, PipelineAssumption
  <2> QED BY <2>5 DEF LabelOf, Observed
<1>14. \A i \in 1..n : /\ Complete(vec(i)) <=> i \in DOMAIN rows
                       /\ Row(vec(i), Labels) = Row(vec(i), Observed)
  <2>1. ASSUME NEW i \in 1..n PROVE Complete(vec(i)) <=> i \in DOMAIN rows
    <3>1. i \in DOMAIN batch
      BY <1>4, <1>10
    <3> QED BY <1>2, <1>12, <1>13, <3>1 DEF Complete
  <2>2. ASSUME NEW i \in 1..n PROVE Row(vec(i), Labels) = Row(vec(i), Observed)
    BY <1>2, <1>13 DEF Row
  <2> QED BY <2>1, <2>2
<1> DEFINE some == RowsOf(batch, n)
<1>15. DOMAIN some = {i \in 1..n : i \in DOMAIN rows} /\ \A i \in DOMAIN some : some[i] = rows[i]
  <2>1. some = [i \in {i \in 1..n : Complete(vec(i))} |-> Row(vec(i), Labels)]
    BY DEF RowsOf, vec
  <2> HIDE DEF some
  <2> QED BY <1>8, <1>14, <2>1
<1> HIDE DEF some
<1>16. RowsUpTo(rows, some, n) /\ n \in DOMAIN some
  BY <1>4, <1>5, <1>7, <1>9, <1>10, <1>15 DEF RowsUpTo
<1>17. ASSUME NEW k \in Of(rows, "train") PROVE k <= n
  <2>1. k \in DOMAIN rows /\ rows[k].split = {"train"}
    BY DEF Of
  <2>2. k \in DOMAIN batch /\ batch[k].close \in Int /\ batch[n].close \in Int
    BY <1>3, <1>5, <1>7, <1>10, <2>1
  <2>3. SplitOf(batch[k].close) = {"train"}
    BY <1>8, <1>11, <2>1
  <2>4. SplitOf(batch[n].close) # {} /\ SplitOf(batch[n].close) \subseteq {"validation", "test"}
    BY <1>5, <1>8, <1>9, <1>11
  <2>5. batch[k].close < batch[n].close
    BY <2>2, <2>3, <2>4, TrainFirst
  <2> QED BY <1>1, <1>4, <1>10, <2>2, <2>5
<1>18. f = Scored(some, n)
  BY <1>9, <1>16, <1>17, ScoreLooksBack
<1>19. SortedUpTo(batch, n)
  BY <1>1, <1>4, <1>10 DEF SortedUpTo
<1>20. SplitOf(batch[n].close) \subseteq {"validation", "test"}
  BY <1>8, <1>9, <1>11
<1> QED BY <1>10, <1>16, <1>18, <1>19, <1>20 DEF IsForecast, some

LEMMA PublishedInit == Init => PublishedInv
<1> SUFFICES ASSUME Init PROVE PublishedInv
  OBVIOUS
<1>1. now = 0 /\ pages = <<>> /\ features = {} /\ forecasts = {} /\ pages \in Seq(Pages)
  BY DEF Init
<1>2. Len(pages) = 0
  BY <1>1
<1>3. PICK upto : Steps(upto, pages) /\ History = upto[Len(pages)]
  BY <1>2, ConcatenatedIs DEF History
<1>4. History = <<>>
  BY <1>2, <1>3 DEF Steps
<1>5. Range(History) = {}
  BY <1>4 DEF Range
<1> QED BY <1>1, <1>5 DEF PublishedInv

\* The batch normalised now is the history.
LEMMA NormalizedIs ==
  ASSUME NEW batch \in Normalized(pages)
  PROVE  batch = History
BY DEF Normalized, History

\* A published feature is one of a bar of the history.
LEMMA FeaturesPublished ==
  ASSUME PublishedInv, PublishTa \/ PublishLiquidity
  PROVE  \A f \in features' : \E n \in DOMAIN History :
           SortedUpTo(History, n) /\ f \in FeaturesOf(History, n)
<1>1. History \in Seq(Bars)
  BY HistoryTyped DEF PublishedInv, History
<1>2. DOMAIN History = 1..Len(History) /\ Len(History) \in Nat
  BY <1>1
<1>3. \A n \in DOMAIN History : History[n].close \in Int /\ History[n].close <= now
  <2>1. \A n \in DOMAIN History : History[n] \in Bars /\ History[n] \in Range(History)
    BY <1>1 DEF Range
  <2> QED BY <2>1, BarTyped DEF PublishedInv
<1>4. ASSUME FeaturesAccept(History), NEW n \in DOMAIN History PROVE SortedUpTo(History, n)
  BY <1>2, <1>4 DEF FeaturesAccept, SortedUpTo
<1>5. ASSUME NEW f \in features
      PROVE  \E n \in DOMAIN History : SortedUpTo(History, n) /\ f \in FeaturesOf(History, n)
  BY DEF PublishedInv
<1>6. CASE PublishTa
  <2>1. PICK higher \in {<<>>, HigherNow} : \E vectors \in TaVectors(History, higher) :
          Publish("ta", DOMAIN higher # {}, vectors)
    BY <1>6, NormalizedIs DEF PublishTa
  <2>2. PICK vectors \in TaVectors(History, higher) : Publish("ta", DOMAIN higher # {}, vectors)
    BY <2>1
  <2>3. FeaturesAccept(History) /\ vectors = [n \in DOMAIN History |-> TaVector(History, higher, n)]
    BY <2>2 DEF TaVectors
  <2>4. ASSUME NEW n \in DOMAIN History
        PROVE  [kind |-> "ta", higher |-> DOMAIN higher # {}, vector |-> TaVector(History, higher, n)]
                 \in FeaturesOf(History, n)
    <3>1. CASE higher = <<>>
      <4>1. (DOMAIN higher # {}) = FALSE
        BY <3>1
      <4> QED BY <3>1, <4>1 DEF FeaturesOf
    <3>2. CASE higher = HigherNow /\ DOMAIN higher # {}
      <4>1. TaVector(History, higher, n) = TaVector(History, Higher, n)
        BY <1>3, <3>2, HigherKnown DEF HigherNow, PublishedInv
      <4>2. (DOMAIN higher # {}) = TRUE
        BY <3>2
      <4> QED BY <4>1, <4>2 DEF FeaturesOf
    <3>3. CASE higher = HigherNow /\ DOMAIN higher = {}
      <4>1. higher = [i \in {} |-> Higher[i]]
        BY <3>3 DEF HigherNow, Restrict
      <4>2. TaVector(History, higher, n) = TaVector(History, <<>>, n)
        BY <4>1, HigherAbsent
      <4>3. (DOMAIN higher # {}) = FALSE
        BY <3>3
      <4> QED BY <4>2, <4>3 DEF FeaturesOf
    <3> QED BY <3>1, <3>2, <3>3
  <2>5. features' = features \cup
          {[kind |-> "ta", higher |-> DOMAIN higher # {}, vector |-> v] : v \in Range(vectors)}
    BY <2>2 DEF Publish
  <2>6. ASSUME NEW f \in features', f \notin features
        PROVE  \E n \in DOMAIN History : SortedUpTo(History, n) /\ f \in FeaturesOf(History, n)
    <3>1. PICK n \in DOMAIN History :
            f = [kind |-> "ta", higher |-> DOMAIN higher # {}, vector |-> TaVector(History, higher, n)]
      BY <2>3, <2>5, <2>6 DEF Range
    <3> QED BY <1>4, <2>3, <2>4, <3>1
  <2> QED BY <1>5, <2>6
<1>7. CASE PublishLiquidity
  <2>1. PICK vectors \in LiquidityVectors(History, QuotesNow) : Publish("liquidity", FALSE, vectors)
    BY <1>7, NormalizedIs DEF PublishLiquidity
  <2>2. FeaturesAccept(History) /\ vectors = [n \in DOMAIN History |-> LiquidityVector(History, QuotesNow, n)]
    BY <2>1 DEF LiquidityVectors
  <2>3. ASSUME NEW n \in DOMAIN History
        PROVE  LiquidityVector(History, QuotesNow, n) = LiquidityVector(History, Quotes, n)
    BY <1>3, QuotesKnown DEF QuotesNow, PublishedInv
  <2>4. features' = features \cup
          {[kind |-> "liquidity", higher |-> FALSE, vector |-> v] : v \in Range(vectors)}
    BY <2>1 DEF Publish
  <2>5. ASSUME NEW f \in features', f \notin features
        PROVE  \E n \in DOMAIN History : SortedUpTo(History, n) /\ f \in FeaturesOf(History, n)
    <3>1. PICK n \in DOMAIN History :
            f = [kind |-> "liquidity", higher |-> FALSE,
                 vector |-> LiquidityVector(History, QuotesNow, n)]
      BY <2>2, <2>4, <2>5 DEF Range
    <3>2. f \in FeaturesOf(History, n)
      BY <2>3, <3>1 DEF FeaturesOf
    <3> QED BY <1>4, <2>2, <3>2
  <2> QED BY <1>5, <2>5
<1> QED BY <1>6, <1>7

\* A page that arrives disturbs nothing that was published.
LEMMA PageDelivered ==
  ASSUME PublishedInv, Deliver
  PROVE  PublishedInv'
<1>1. PICK page \in Pages : (\A bar \in Range(page.bars) : bar.close <= now)
                            /\ pages' = Append(pages, page)
  BY DEF Deliver
<1>2. pages \in Seq(Pages) /\ pages' \in Seq(Pages) /\ now' = now /\ now \in Int
      /\ features' = features /\ forecasts' = forecasts
  BY <1>1 DEF Deliver, PublishedInv
<1>3. History' = History \o page.bars
  BY <1>1, <1>2, HistoryAppend DEF History
<1>4. History \in Seq(Bars) /\ page.bars \in Seq(Bars)
  BY <1>2, HistoryTyped, PageTyped DEF History
<1>5. ASSUME NEW n \in DOMAIN History
      PROVE  n \in DOMAIN (History') /\ n \in Nat \ {0} /\ SameUpTo(History, History', n)
  <2>1. \A i \in 1..Len(History) : (History \o page.bars)[i] = History[i]
    BY <1>4
  <2>2. n \in 1..Len(History) /\ n \in DOMAIN (History \o page.bars) /\ Len(History) \in Nat
    BY <1>4
  <2> QED BY <1>3, <2>1, <2>2 DEF SameUpTo
<1>6. \A bar \in Range(History') : bar.close <= now
  <2>1. \A n \in DOMAIN (History \o page.bars) :
          (History \o page.bars)[n] \in Range(History) \cup Range(page.bars)
    BY <1>4 DEF Range
  <2> QED BY <1>1, <1>3, <2>1 DEF Range, PublishedInv
<1>7. ASSUME NEW f \in features
      PROVE  \E n \in DOMAIN (History') : SortedUpTo(History', n) /\ f \in FeaturesOf(History', n)
  <2>1. PICK n \in DOMAIN History : SortedUpTo(History, n) /\ f \in FeaturesOf(History, n)
    BY DEF PublishedInv
  <2> QED BY <1>5, <2>1, GrowsInPlace
<1>8. ASSUME NEW f \in forecasts
      PROVE  \E n \in DOMAIN (History') : SortedUpTo(History', n) /\ IsForecast(f, History', n)
  <2>1. PICK n \in DOMAIN History : SortedUpTo(History, n) /\ IsForecast(f, History, n)
    BY DEF PublishedInv
  <2> QED BY <1>5, <2>1, GrowsInPlace
<1> QED BY <1>2, <1>6, <1>7, <1>8 DEF PublishedInv

LEMMA PublishedStep == PublishedInv /\ [Next]_vars => PublishedInv'
<1> SUFFICES ASSUME PublishedInv, [Next]_vars PROVE PublishedInv'
  OBVIOUS
<1>1. CASE Tick
  <2>1. now' \in Int /\ now <= now' /\ now \in Int
    BY <1>1, FeatureAssumption DEF Tick, PublishedInv
  <2>2. History' = History /\ pages' = pages /\ features' = features /\ forecasts' = forecasts
    BY <1>1 DEF Tick, History
  <2>3. \A bar \in Range(History) : bar.close <= now'
    <3>1. History \in Seq(Bars)
      BY HistoryTyped DEF PublishedInv, History
    <3>2. \A bar \in Range(History) : bar \in Bars
      BY <3>1 DEF Range
    <3>3. \A bar \in Range(History) : bar.close \in Int
      BY <3>2, BarTyped
    <3> QED BY <2>1, <3>3 DEF PublishedInv
  <2> QED BY <2>1, <2>2, <2>3 DEF PublishedInv
<1>2. CASE Deliver
  BY <1>2, PageDelivered
<1>3. CASE PublishTa \/ PublishLiquidity
  <2>1. now' = now /\ pages' = pages /\ forecasts' = forecasts /\ History' = History
    BY <1>3 DEF PublishTa, PublishLiquidity, History
  <2> QED BY <1>3, <2>1, FeaturesPublished DEF PublishedInv
<1>4. CASE PublishForecasts
  <2>1. now' = now /\ pages' = pages /\ features' = features /\ History' = History
    BY <1>4 DEF PublishForecasts, History
  <2>2. PICK vectors \in TaVectors(History, <<>>) :
          \E rows \in UNION {Snapshots(chosen, Observed) : chosen \in {vectors, Usable(vectors)}} :
          \E splits \in SUBSET {"validation", "test"} :
            forecasts' = forecasts \cup Candidates(rows, splits)
    BY <1>4, NormalizedIs DEF PublishForecasts
  <2>3. PICK rows \in UNION {Snapshots(chosen, Observed) : chosen \in {vectors, Usable(vectors)}},
             splits \in SUBSET {"validation", "test"} :
          forecasts' = forecasts \cup Candidates(rows, splits)
    BY <2>2
  <2>6. PICK chosen \in {vectors, Usable(vectors)} : rows \in Snapshots(chosen, Observed)
    BY <2>3
  <2>4. History \in Seq(Bars) /\ now \in Int
    BY HistoryTyped DEF PublishedInv, History
  <2>5. \A f \in forecasts' : \E n \in DOMAIN History :
          SortedUpTo(History, n) /\ IsForecast(f, History, n)
    BY <2>3, <2>4, <2>6, CandidateIsForecast DEF PublishedInv
  <2> QED BY <2>1, <2>5 DEF PublishedInv
<1>5. CASE UNCHANGED vars
  BY <1>5 DEF vars, PublishedInv, History
<1> QED BY <1>1, <1>2, <1>3, <1>4, <1>5 DEF Next

LEMMA PublishedAlways == Spec => []PublishedInv
BY PublishedInit, PublishedStep, PTL DEF Spec
-----------------------------------------------------------------------------
(* What the invariant gives. *)

\* Bars that close at the same time are one bar.
LEMMA OneBarPerClose ==
  ASSUME PublishedInv, NEW m \in DOMAIN History, NEW n \in DOMAIN History,
         SortedUpTo(History, m), SortedUpTo(History, n), History[m].close = History[n].close
  PROVE  m = n
<1>1. History \in Seq(Bars)
  BY HistoryTyped DEF PublishedInv, History
<1>2. m \in Nat \ {0} /\ n \in Nat \ {0} /\ History[m].close \in Int /\ History[n].close \in Int
  BY <1>1, BarTyped
<1>3. CASE m < n
  BY <1>2, <1>3 DEF SortedUpTo
<1>4. CASE n < m
  BY <1>2, <1>4 DEF SortedUpTo
<1> QED BY <1>2, <1>3, <1>4

\* build_ta_feature_vectors and build_liquidity_cost_feature_vectors are point
\* in time: a vector of a moment stays what every later run says of that
\* moment, whatever pages, quotes and higher bars arrive.
THEOREM VectorsStay == Spec => []FeaturesPointInTime
<1>1. ASSUME PublishedInv PROVE FeaturesPointInTime
  <2>1. ASSUME NEW a \in features, NEW b \in features,
               a.kind = b.kind, a.higher = b.higher, a.vector.ts = b.vector.ts
        PROVE  a = b
    <3>1. PICK m \in DOMAIN History : SortedUpTo(History, m) /\ a \in FeaturesOf(History, m)
      BY <1>1 DEF PublishedInv
    <3>2. PICK n \in DOMAIN History : SortedUpTo(History, n) /\ b \in FeaturesOf(History, n)
      BY <1>1 DEF PublishedInv
    <3>3. ASSUME NEW f, NEW k, f \in FeaturesOf(History, k) PROVE f.vector.ts = History[k].close
      BY <3>3 DEF FeaturesOf, TaVector, LiquidityVector
    <3>4. m = n
      BY <1>1, <2>1, <3>1, <3>2, <3>3, OneBarPerClose
    <3> QED BY <2>1, <3>1, <3>2, <3>4 DEF FeaturesOf
  <2> QED BY <2>1 DEF FeaturesPointInTime
<1> QED BY <1>1, PublishedAlways, PTL

\* train_probabilistic_candidate, repeated with more pages, labels and splits,
\* forecasts of a moment what it forecast before.
THEOREM ForecastsStay == Spec => []ForecastsStable
<1>1. ASSUME PublishedInv PROVE ForecastsStable
  <2>1. ASSUME NEW a \in forecasts, NEW b \in forecasts, a.ts = b.ts
        PROVE  a = b
    <3>1. PICK m \in DOMAIN History : SortedUpTo(History, m) /\ IsForecast(a, History, m)
      BY <1>1 DEF PublishedInv
    <3>2. PICK n \in DOMAIN History : SortedUpTo(History, n) /\ IsForecast(b, History, n)
      BY <1>1 DEF PublishedInv
    <3>3. ASSUME NEW f, NEW k, IsForecast(f, History, k) PROVE f.ts = History[k].close
      BY <3>3 DEF IsForecast, Scored, RowsOf, Row, TaVector
    <3>4. m = n
      BY <1>1, <2>1, <3>1, <3>2, <3>3, OneBarPerClose
    <3> QED BY <3>1, <3>2, <3>4 DEF IsForecast
  <2> QED BY <2>1 DEF ForecastsStable
<1> QED BY <1>1, PublishedAlways, PTL

\* No forecast is fitted from its own label or a later one, and from a horizon
\* after the train window on from none that was not yet observed: the fit uses
\* train rows only, and a row's label is the one at its horizon.
THEOREM NoFutureInFit == Spec => []FitKnowsNoFuture
<1>1. ASSUME PublishedInv PROVE FitKnowsNoFuture
  <2>0. \A o \in Labels : o.ts \in Int
    BY PipelineAssumption
  <2>1. ASSUME NEW f \in forecasts, NEW known \in f.fit
        PROVE  /\ \A own \in f.label : known.ts < own.ts
               /\ f.ts >= Splits[1].end + Horizon => known.ts <= f.ts
    <3>1. PICK n \in DOMAIN History : SortedUpTo(History, n) /\ IsForecast(f, History, n)
      BY <1>1 DEF PublishedInv
    <3> DEFINE rows == RowsOf(History, n)
    <3>2. /\ n \in DOMAIN rows /\ DOMAIN rows \subseteq 1..n
          /\ \A k \in DOMAIN rows :
               /\ rows[k].ts = History[k].close
               /\ rows[k].split = SplitOf(History[k].close) /\ rows[k].split # {}
               /\ rows[k].label = LabelOf(History[k].close, Labels)
      BY <3>1 DEF IsForecast, RowsOf, Row, Complete, TaVector
    <3>3. f = Scored(rows, n) /\ SplitOf(History[n].close) \subseteq {"validation", "test"}
      BY <3>1 DEF IsForecast
    <3> HIDE DEF rows
    <3>4. f.ts = History[n].close /\ f.label = LabelOf(History[n].close, Labels)
          /\ f.fit = Fitted(rows, Falling(rows, n))
      BY <3>2, <3>3 DEF Scored
    <3>5. PICK k \in Of(rows, "train") : known \in rows[k].label
      <4>1. f.fit \subseteq UNION {rows[i].label : i \in Of(rows, "train")}
        BY <3>4 DEF Fitted
      <4> QED BY <4>1
    <3>6. k \in DOMAIN rows /\ k \in 1..n /\ SplitOf(History[k].close) = {"train"}
      BY <3>2, <3>5 DEF Of
    <3>7. History[k].close \in Int /\ History[n].close \in Int
      <4>1. History \in Seq(Bars)
        BY <1>1, HistoryTyped DEF PublishedInv, History
      <4>2. k \in DOMAIN History /\ n \in DOMAIN History
        BY <3>6, <4>1
      <4> QED BY <4>1, <4>2, BarTyped
    <3>8. History[k].close < History[n].close /\ History[k].close < Splits[1].end
      BY <3>2, <3>3, <3>6, <3>7, TrainFirst
    <3>9. known.ts = History[k].close + Horizon
      BY <3>2, <3>5, <3>6 DEF LabelOf
    <3>10. ASSUME NEW own \in f.label PROVE known.ts < own.ts
      <4>1. own.ts = History[n].close + Horizon
        BY <3>4 DEF LabelOf
      <4> QED BY <3>7, <3>8, <3>9, <4>1, PipelineAssumption
    <3>11. Splits[1].end \in Int
      <4>1. DOMAIN [i \in DOMAIN Splits |-> Splits[i].split] = 1..3
        BY PipelineAssumption
      <4>2. 1 \in DOMAIN Splits
        BY <4>1
      <4> QED BY <4>2, PipelineAssumption
    <3>12. ASSUME f.ts >= Splits[1].end + Horizon PROVE known.ts <= f.ts
      BY <3>4, <3>7, <3>8, <3>9, <3>11, <3>12, PipelineAssumption
    <3> QED BY <3>10, <3>12
  <2> QED BY <2>1 DEF FitKnowsNoFuture
<1> QED BY <1>1, PublishedAlways, PTL
-----------------------------------------------------------------------------
(* No holes inside a lookback. *)

LEMMA Divided ==
  ASSUME NEW x \in Int, NEW d \in Nat \ {0}, x % d = 0
  PROVE  x \div d \in Int /\ x = d * (x \div d)
OBVIOUS

LEMMA NextMultiple ==
  ASSUME NEW a \in Int, NEW b \in Int, NEW d \in Nat \ {0}, d * a < d * b
  PROVE  a < b /\ d * (a + 1) <= d * b
<1>1. a < b
  <2> SUFFICES ASSUME b <= a PROVE FALSE
    OBVIOUS
  <2>1. PICK c \in Nat : a = b + c
    <3>1. a - b \in Nat /\ a = b + (a - b)
      OBVIOUS
    <3> QED BY <3>1
  <2>2. d * a = d * b + d * c /\ d * c \in Nat
    BY <2>1
  <2> QED BY <2>2
<1>2. PICK c \in Nat : b = a + 1 + c
  <2>1. b - a - 1 \in Nat /\ b = a + 1 + (b - a - 1)
    BY <1>1
  <2> QED BY <2>1
<1>3. d * b = d * (a + 1) + d * c /\ d * c \in Nat
  BY <1>2
<1> QED BY <1>1, <1>3

\* A report without blockers misses no expected bar.
LEMMA NothingMissing ==
  ASSUME NEW batch, Blockers(batch, NoTolerance) = {}
  PROVE  Expected \subseteq Opens(batch)
<1> DEFINE intervals == 0..((Window.end - Window.start) \div Interval - 1)
<1>1. IsFiniteSet(Expected) /\ Cardinality(Expected) \in Nat
  <2>1. (Window.end - Window.start) \div Interval - 1 \in Int
    BY FeatureAssumption
  <2>2. IsFiniteSet(intervals)
    BY <2>1, FS_Interval
  <2> DEFINE grid == [k \in intervals |-> Window.start + k * Interval]
  <2>3. grid \in Surjection(intervals, Expected)
    BY DEF Expected, Surjection
  <2> HIDE DEF intervals, grid
  <2> QED BY <2>2, <2>3, FS_Surjection, FS_CardinalityType
<1>2. IsFiniteSet(Missing(batch)) /\ Cardinality(Missing(batch)) \in Nat
  BY <1>1, FS_Subset, FS_CardinalityType DEF Missing
<1>3. ~ Cardinality(Missing(batch)) * 1 > 0 * Cardinality(Expected)
  BY DEF Blockers, NoTolerance
<1>4. Cardinality(Missing(batch)) = 0
  BY <1>1, <1>2, <1>3
<1> QED BY <1>2, <1>4, FS_EmptySet DEF Missing

\* Between two bars of a window that misses none lies one interval.
LEMMA NextBar ==
  ASSUME NEW batch \in Seq(Bars), FeaturesAccept(batch), WellTimed(batch),
         Blockers(batch, NoTolerance) = {},
         NEW m \in 1..(Len(batch) - 1),
         Window.start <= batch[m].open, batch[m + 1].open < Window.end
  PROVE  batch[m + 1].open = batch[m].open + Interval
<1> DEFINE x == batch[m].open
           y == batch[m + 1].open
<1>0. DOMAIN batch = 1..Len(batch) /\ m \in DOMAIN batch /\ m + 1 \in DOMAIN batch /\ Len(batch) \in Nat
  OBVIOUS
<1>1. \A i \in DOMAIN batch : /\ (batch[i].open - Window.start) % Interval = 0
                              /\ batch[i].close = batch[i].open + Interval
                              /\ batch[i].open \in Int
  <2>1. \A i \in DOMAIN batch : batch[i] \in Bars /\ batch[i] \in Range(batch)
    BY DEF Range
  <2> QED BY <2>1, BarTyped DEF WellTimed
<1>2. \A i, j \in DOMAIN batch : i < j => batch[i].open < batch[j].open
  <2>1. ASSUME NEW i \in DOMAIN batch, NEW j \in DOMAIN batch, i < j
        PROVE  batch[i].open < batch[j].open
    <3>1. batch[i].close < batch[j].close
      BY <2>1 DEF FeaturesAccept
    <3>2. batch[i].open + Interval < batch[j].open + Interval
      BY <1>1, <3>1
    <3>3. batch[i].open \in Int /\ batch[j].open \in Int /\ Interval \in Int
      BY <1>1, FeatureAssumption
    <3> QED BY <3>2, <3>3
  <2> QED BY <2>1
<1>3. x \in Int /\ y \in Int /\ x < y /\ (x - Window.start) % Interval = 0 /\ (y - Window.start) % Interval = 0
  BY <1>0, <1>1, <1>2
<1> HIDE DEF x, y
<1>4. Interval \in Nat \ {0} /\ Window.start \in Int /\ Window.end \in Int
      /\ (Window.end - Window.start) % Interval = 0
  BY FeatureAssumption
<1>7. ASSUME NEW e \in Int, (e - Window.start) % Interval = 0
      PROVE  /\ (e - Window.start) \div Interval \in Int
             /\ e - Window.start = Interval * ((e - Window.start) \div Interval)
  <2>1. e - Window.start \in Int
    BY <1>4
  <2> QED BY <1>4, <1>7, <2>1, Divided
<1>5. PICK a \in Int : x - Window.start = Interval * a
  BY <1>3, <1>7
<1>6. PICK b \in Int : y - Window.start = Interval * b
  BY <1>3, <1>7
<1> DEFINE c == (Window.end - Window.start) \div Interval
<1>8. c \in Int /\ Window.end - Window.start = Interval * c
  BY <1>4, <1>7
<1>9. Interval * (a + 1) <= Interval * b /\ Interval * (a + 1) = x + Interval - Window.start
  <2>1. Interval * a < Interval * b
    <3>1. x - Window.start < y - Window.start
      BY <1>3, <1>4
    <3> QED BY <1>5, <1>6, <3>1
  <2>2. Interval * (a + 1) = Interval * a + Interval
    BY <1>4
  <2>3. Interval * (a + 1) <= Interval * b
    BY <1>4, <2>1, NextMultiple
  <2>4. Interval * (a + 1) = x + Interval - Window.start
    <3>1. (x - Window.start) + Interval = x + Interval - Window.start
      BY <1>3, <1>4
    <3> QED BY <1>5, <2>2, <3>1
  <2> QED BY <2>3, <2>4
<1>10. x + Interval <= y
  <2>1. x + Interval - Window.start <= y - Window.start
    BY <1>6, <1>9
  <2>2. x \in Int /\ y \in Int /\ Interval \in Int /\ Window.start \in Int
    BY <1>3, <1>4
  <2> HIDE DEF x, y
  <2> QED BY <2>1, <2>2
<1>11. SUFFICES ASSUME x + Interval < y PROVE FALSE
  <2>1. x \in Int /\ y \in Int /\ Interval \in Int
    BY <1>3, <1>4
  <2>2. y = x + Interval
    BY <1>10, <1>11, <2>1
  <2> QED BY <2>2 DEF x, y
<1>12. a + 1 \in 0..(c - 1)
  <2> HIDE DEF c
  <2>1. Interval * 0 <= Interval * a
    BY <1>3, <1>4, <1>5 DEF x
  <2>2. Interval * (a + 1) < Interval * c
    <3>1. x + Interval - Window.start < Window.end - Window.start
      <4>1. x \in Int /\ y \in Int /\ Interval \in Int /\ Window.start \in Int /\ Window.end \in Int
        BY <1>3, <1>4
      <4>2. y < Window.end
        BY DEF y
      <4> QED BY <1>11, <4>1, <4>2
    <3> QED BY <1>8, <1>9, <3>1
  <2>3. a + 1 < c
    BY <1>4, <1>8, <2>2, NextMultiple
  <2>4. 0 <= a
    <3> SUFFICES ASSUME a < 0 PROVE FALSE
      OBVIOUS
    <3>1. Interval * a < Interval * 0
      <4>1. PICK d \in Nat \ {0} : a = 0 - d
        <5>1. 0 - a \in Nat \ {0} /\ a = 0 - (0 - a)
          OBVIOUS
        <5> QED BY <5>1
      <4>2. Interval * a = 0 - Interval * d /\ Interval * d > 0
        BY <1>4, <4>1
      <4> QED BY <1>4, <4>2
    <3> QED BY <1>4, <2>1, <3>1
  <2> QED BY <1>8, <2>3, <2>4
<1>13. x + Interval \in Expected
  <2>1. x + Interval = Window.start + (a + 1) * Interval
    BY <1>3, <1>4, <1>9
  <2> QED BY <1>12, <2>1 DEF Expected
<1>14. PICK i \in DOMAIN batch : batch[i].open = x + Interval
  BY <1>13, NothingMissing DEF Opens, InWindow
<1>15. batch[m].open < batch[i].open /\ batch[i].open < batch[m + 1].open
  BY <1>3, <1>4, <1>11, <1>14 DEF x, y
<1>16. m < i
  BY <1>0, <1>1, <1>2, <1>15
<1>17. i < m + 1
  BY <1>0, <1>1, <1>2, <1>15
<1> QED BY <1>0, <1>16, <1>17

\* So a lookback inside the window covers that many intervals.
LEMMA LookbackSpan ==
  ASSUME NEW batch \in Seq(Bars), FeaturesAccept(batch), WellTimed(batch),
         Blockers(batch, NoTolerance) = {},
         NEW n \in (Lookback + 1)..Len(batch),
         Window.start <= batch[n - Lookback].open, batch[n].open < Window.end
  PROVE  batch[n].open = batch[n - Lookback].open + Lookback * Interval
<1> DEFINE first == n - Lookback
<1>0. /\ Lookback \in Nat \ {0} /\ Interval \in Nat \ {0} /\ Len(batch) \in Nat
      /\ Window.start \in Int /\ Window.end \in Int
      /\ DOMAIN batch = 1..Len(batch) /\ first \in DOMAIN batch /\ n \in DOMAIN batch
      /\ first \in Nat /\ n \in Nat
  BY FeatureAssumption
<1>1. \A i \in DOMAIN batch : /\ batch[i].close = batch[i].open + Interval
                              /\ batch[i].open \in Int
  <2>1. \A i \in DOMAIN batch : batch[i] \in Bars /\ batch[i] \in Range(batch)
    BY DEF Range
  <2> QED BY <2>1, BarTyped DEF WellTimed
<1>2. ASSUME NEW i \in DOMAIN batch, NEW j \in DOMAIN batch, i < j
      PROVE  batch[i].open < batch[j].open
  <2>1. batch[i].close < batch[j].close
    BY <1>2 DEF FeaturesAccept
  <2>2. batch[i].open + Interval < batch[j].open + Interval
    BY <1>1, <2>1
  <2>3. batch[i].open \in Int /\ batch[j].open \in Int /\ Interval \in Int
    BY <1>0, <1>1
  <2> QED BY <2>2, <2>3
<1> DEFINE Good == {k \in 0..Lookback : batch[first + k].open = batch[first].open + k * Interval}
<1>3. 0 \in Good
  <2>1. batch[first].open = batch[first].open + 0 * Interval /\ first + 0 = first
    BY <1>0, <1>1
  <2> QED BY <1>0, <2>1
<1>4. ASSUME NEW k \in 0..(Lookback - 1), k \in Good PROVE k + 1 \in Good
  <2> DEFINE m == first + k
  <2>1. m \in 1..(Len(batch) - 1) /\ m \in DOMAIN batch /\ m + 1 \in DOMAIN batch
    BY <1>0
  <2>2. batch[m].open = batch[first].open + k * Interval
    BY <1>4
  <2>3. k * Interval \in Nat /\ (k + 1) * Interval = k * Interval + Interval
    BY <1>0
  <2>4. Window.start <= batch[m].open
    <3> DEFINE gone == k * Interval
    <3>1. gone \in Nat /\ batch[m].open = batch[first].open + gone
      BY <2>2, <2>3
    <3>2. Window.start \in Int /\ batch[first].open \in Int /\ Window.start <= batch[first].open
      BY <1>0, <1>1
    <3> HIDE DEF gone, m, first
    <3> QED BY <3>1, <3>2
  <2>5. batch[m + 1].open < Window.end
    <3>1. CASE m + 1 = n
      BY <3>1
    <3>2. CASE m + 1 < n
      <4>1. batch[m + 1].open < batch[n].open
        BY <1>0, <1>2, <2>1, <3>2
      <4>2. batch[m + 1].open \in Int /\ batch[n].open \in Int
        BY <1>0, <1>1, <2>1
      <4> QED BY <1>0, <4>1, <4>2
    <3>3. m + 1 <= n
      BY <1>0
    <3> QED BY <1>0, <2>1, <3>1, <3>2, <3>3
  <2>6. batch[m + 1].open = batch[m].open + Interval
    BY <2>1, <2>4, <2>5, NextBar
  <2>7. batch[m + 1].open = batch[first].open + (k + 1) * Interval
    <3> DEFINE gone == k * Interval
               further == (k + 1) * Interval
    <3>1. gone \in Int /\ further = gone + Interval /\ Interval \in Int /\ batch[first].open \in Int
      BY <1>0, <1>1, <2>3
    <3>2. batch[m].open = batch[first].open + gone /\ batch[m + 1].open = batch[m].open + Interval
      BY <2>2, <2>6
    <3>3. batch[m + 1].open = batch[first].open + further
      <4> HIDE DEF gone, further, m, first
      <4> QED BY <3>1, <3>2
    <3> QED BY <3>3
  <2>8. first + (k + 1) = m + 1 /\ k + 1 \in 0..Lookback
    <3>1. first \in Int /\ k \in Int /\ Lookback \in Int /\ k <= Lookback - 1 /\ k >= 0
      BY <1>0
    <3> HIDE DEF first
    <3> QED BY <3>1
  <2> QED BY <2>7, <2>8
<1>5. \A k \in 0..Lookback : k \in Good
  <2> HIDE DEF Good
  <2> QED BY <1>0, <1>3, <1>4, UpToBound
<1>6. Lookback \in Good /\ first + Lookback = n
  BY <1>0, <1>5
<1> QED BY <1>6

\* And with a price in every bar the last returns are those of that many bars.
LEMMA ReturnsOfLookback ==
  ASSUME NEW batch, NEW n \in Nat, n > Lookback, \A i \in 1..n : batch[i].price # 0
  PROVE  LastOnes(Returns(batch, n)) =
           {[k \in (n - Lookback)..(n - 1) |-> <<batch[k].price, batch[k + 1].price>>]}
<1> DEFINE values == Returns(batch, n)
<1>0. Lookback \in Nat \ {0}
  BY FeatureAssumption
<1>1. DOMAIN values = 1..(n - 1)
      /\ \A k \in 1..(n - 1) : values[k] = <<batch[k].price, batch[k + 1].price>>
  BY <1>0 DEF Returns, Price
<1> HIDE DEF values
<1>2. Cardinality(DOMAIN values) = n - 1
  <2>1. 1 \in Int /\ n - 1 \in Int /\ ~ 1 > n - 1 /\ (n - 1) - 1 + 1 = n - 1
    BY <1>0
  <2> QED BY <1>1, <2>1, FS_Interval
<1>3. ASSUME NEW i \in 1..(n - 1)
      PROVE  Cardinality({j \in 1..(n - 1) : j >= i}) <= Lookback <=> i \in (n - Lookback)..(n - 1)
  <2>1. {j \in 1..(n - 1) : j >= i} = i..(n - 1)
    OBVIOUS
  <2>2. i \in Int /\ n - 1 \in Int /\ ~ i > n - 1
    OBVIOUS
  <2>3. Cardinality(i..(n - 1)) = (n - 1) - i + 1
    BY <2>2, FS_Interval
  <2>4. (n - 1) - i + 1 <= Lookback <=> i \in (n - Lookback)..(n - 1)
    BY <1>0
  <2> QED BY <2>1, <2>3, <2>4
<1>4. {i \in DOMAIN values : Cardinality({j \in DOMAIN values : j >= i}) <= Lookback}
        = (n - Lookback)..(n - 1)
  <2>1. (n - Lookback)..(n - 1) \subseteq 1..(n - 1)
    BY <1>0
  <2> QED BY <1>1, <1>3, <2>1
<1>5. Restrict(values, (n - Lookback)..(n - 1))
        = [k \in (n - Lookback)..(n - 1) |-> <<batch[k].price, batch[k + 1].price>>]
  <2>1. (n - Lookback)..(n - 1) \subseteq 1..(n - 1)
    BY <1>0
  <2> QED BY <1>1, <2>1 DEF Restrict
<1>6. ~ Cardinality(DOMAIN values) < Lookback
  BY <1>0, <1>2
<1> QED BY <1>4, <1>5, <1>6 DEF LastOnes, values

\* A batch that evaluate_silver_ohlctv_batch reports clean and the feature
\* engine accepts has no hidden holes, whatever pages it came from.
THEOREM NoHiddenHoles == Spec => []CleanLookback
<1>1. ASSUME PublishedInv PROVE CleanLookback
  <2>1. ASSUME NEW batch \in Normalized(pages), NEW vectors \in TaVectors(batch, <<>>),
               Blockers(batch, NoTolerance) = {}, WellTimed(batch),
               NEW n \in (Lookback + 1)..Len(batch),
               Window.start <= batch[n - Lookback].open, batch[n].open < Window.end
        PROVE  /\ batch[n].close - batch[n - Lookback].close = Lookback * Interval
               /\ vectors[n].volatility =
                    {[k \in (n - Lookback)..(n - 1) |-> <<batch[k].price, batch[k + 1].price>>]}
    <3>1. batch \in Seq(Bars)
      BY <1>1, HistoryTyped, NormalizedIs DEF PublishedInv, History
    <3>2. FeaturesAccept(batch) /\ vectors = [k \in DOMAIN batch |-> TaVector(batch, <<>>, k)]
      BY DEF TaVectors
    <3>3. /\ Lookback \in Nat \ {0} /\ Interval \in Nat /\ n \in DOMAIN batch /\ n \in Nat
          /\ n - Lookback \in DOMAIN batch /\ n > Lookback /\ 1..n \subseteq DOMAIN batch
      BY <3>1, FeatureAssumption
    <3>4. \A i \in DOMAIN batch : /\ batch[i].close = batch[i].open + Interval
                                  /\ batch[i].price # 0 /\ batch[i].open \in Int
      <4>1. \A i \in DOMAIN batch : batch[i] \in Bars /\ batch[i] \in Range(batch)
        BY <3>1 DEF Range
      <4>2. \A i \in DOMAIN batch : batch[i].price > 0 /\ batch[i].price \in Int
        BY <2>1, <4>1, BarTyped DEF WellTimed
      <4> QED BY <2>1, <4>1, <4>2, BarTyped DEF WellTimed
    <3>5. batch[n].open = batch[n - Lookback].open + Lookback * Interval
      BY <2>1, <3>1, <3>2, LookbackSpan
    <3>6. batch[n].close - batch[n - Lookback].close = Lookback * Interval
      <4>1. Lookback * Interval \in Int
        BY <3>3
      <4> QED BY <3>3, <3>4, <3>5, <4>1
    <3>7. LastOnes(Returns(batch, n)) =
            {[k \in (n - Lookback)..(n - 1) |-> <<batch[k].price, batch[k + 1].price>>]}
      BY <3>3, <3>4, ReturnsOfLookback
    <3>8. vectors[n].volatility = LastOnes(Returns(batch, n))
      BY <3>2, <3>3 DEF TaVector
    <3> QED BY <3>6, <3>7, <3>8
  <2> QED BY <2>1 DEF CleanLookback
<1> QED BY <1>1, PublishedAlways, PTL
=============================================================================
