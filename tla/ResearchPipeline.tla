--------------------------- MODULE ResearchPipeline ---------------------------
(***************************************************************************)
(* datasets/snapshots.py, training/runner.py and                           *)
(* training/probabilistic_candidate.py over ResearchFeatures, run again    *)
(* and again as pages, quotes and label observations become available.     *)
(* Feature vectors and forecasts are published and never withdrawn: what a *)
(* later run says of the same moment must be what the earlier one said.    *)
(*                                                                         *)
(* A forecast's distribution is the labels it is fitted from.              *)
(***************************************************************************)
EXTENDS ResearchFeatures

CONSTANTS
  Pages,      \* HistoricalBackfillPages a connector may return
  Higher,     \* bars of a higher timeframe
  Quotes,     \* QuoteFeatureInputs in event order
  Labels,     \* LabelObservations: [ts, value], one for a moment
  Horizon,    \* the label rule's
  Splits,     \* ChronologicalSplitWindows, in order: [split, start, end]
  MaxTime, MaxPages

ASSUME PipelineAssumption ==
  /\ Horizon \in Nat \ {0} /\ MaxTime \in Int
  /\ \A page \in Pages :
       /\ page.bars \in Seq(Range(page.bars))
       /\ \A bar \in Range(page.bars) : {bar.open, bar.close, bar.price} \subseteq Int
  /\ \A bar \in Range(Higher) : bar.close \in Int
  /\ \A quote \in Range(Quotes) : {quote.event} \cup quote.source \subseteq Int
  /\ \A a \in Labels : a.ts \in Int
  /\ \A a, b \in Labels : a.ts = b.ts => a = b
  /\ [i \in DOMAIN Splits |-> Splits[i].split] = <<"train", "validation", "test">>
  /\ \A i \in DOMAIN Splits : /\ Splits[i].start \in Int /\ Splits[i].end \in Int
                              /\ Splits[i].start < Splits[i].end
  /\ \A i \in 2..3 : Splits[i - 1].end <= Splits[i].start

VARIABLES
  now,
  pages,     \* as delivered: the caller hands in all of them
  features,  \* published vectors: [kind, higher, vector]
  forecasts  \* published forecasts

vars == <<now, pages, features, forecasts>>

-----------------------------------------------------------------------------
(* The dataset. *)

\* _split_for_feature_ts: half-open windows.
SplitOf(ts) == {w.split : w \in {w \in Range(Splits) : w.start <= ts /\ ts < w.end}}

\* A slip: the first observation the horizon has passed.
LabelFrom(ts, observed) ==
  {o \in observed : o.ts >= ts + Horizon
                    /\ \A p \in observed : p.ts >= ts + Horizon => o.ts <= p.ts}

\* The observation at the horizon exactly.
LabelOf(ts, observed) == {o \in observed : o.ts = ts + Horizon}

Row(vector, observed) ==
  [ts |-> vector.ts, return |-> vector.return, split |-> SplitOf(vector.ts),
   label |-> LabelOf(vector.ts, observed)]

\* build_chronological_dataset_snapshot of future values.
Snapshots(vectors, observed) ==
  {rows \in {[i \in DOMAIN vectors |-> Row(vectors[i], observed)]} :
     /\ DOMAIN rows # {}
     /\ \A i \in DOMAIN rows : rows[i].split # {} /\ rows[i].label # {}
     /\ \A i, j \in DOMAIN rows : i < j => rows[i].ts < rows[j].ts}

-----------------------------------------------------------------------------
(* Training and forecasts. *)

Of(rows, split) == {i \in DOMAIN rows : rows[i].split = {split}}

\* run_training: rows to fit, and rows in every split to evaluate.
Trains(rows, splits) ==
  Of(rows, "train") # {} /\ \A s \in splits : Of(rows, s) # {}

\* A slip: a row is bucketed with the one that follows it.
FallingAhead(rows, i) ==
  \E r \in rows[i].return :
    LET next == {j \in DOMAIN rows : j > i /\ \A k \in DOMAIN rows : k > i => j <= k}
    IN \/ next = {} /\ r[2] < r[1]
       \/ \E j \in next : \E p \in rows[j].return :
            (p[2] - p[1]) * r[1] + (r[2] - r[1]) * p[1] < 0

\* _sequence_bucket of row i: the sign of the last two returns' sum.
Falling(rows, i) ==
  \E r \in rows[i].return :
    LET previous == Newest({j \in DOMAIN rows : j < i})
    IN \/ previous = {} /\ r[2] < r[1]
       \/ \E j \in previous : \E p \in rows[j].return :
            (p[2] - p[1]) * r[1] + (r[2] - r[1]) * p[1] < 0

\* _fit_sequence_candidate: the labels of a bucket, of all train rows if it
\* has none.
Fitted(rows, falling) ==
  LET train == Of(rows, "train")
      bucket == {i \in train : Falling(rows, i) = falling}
  IN UNION {rows[i].label : i \in IF bucket = {} THEN train ELSE bucket}

\* _score_row
Scored(rows, i) ==
  [ts |-> rows[i].ts, split |-> rows[i].split, fit |-> Fitted(rows, Falling(rows, i)),
   label |-> rows[i].label]

\* train_probabilistic_candidate
Candidates(rows, splits) ==
  IF splits # {} /\ Trains(rows, splits) /\ \A i \in DOMAIN rows : rows[i].return # {}
  THEN {Scored(rows, i) : i \in {i \in DOMAIN rows : rows[i].split \subseteq splits}}
  ELSE {}

-----------------------------------------------------------------------------
Observed == {o \in Labels : o.ts <= now}
HigherNow == Restrict(Higher, {i \in DOMAIN Higher : Higher[i].close <= now})
QuotesNow ==
  Restrict(Quotes, {i \in DOMAIN Quotes :
                      Quotes[i].event <= now /\ \A s \in Quotes[i].source : s <= now})

Init == now = 0 /\ pages = <<>> /\ features = {} /\ forecasts = {}

Tick == now < MaxTime /\ now' = now + Interval /\ UNCHANGED <<pages, features, forecasts>>

\* A page arrives: out of order, again or never, but not before its bars close.
Deliver ==
  /\ Len(pages) < MaxPages
  /\ \E page \in Pages : /\ \A bar \in Range(page.bars) : bar.close <= now
                         /\ pages' = Append(pages, page)
  /\ UNCHANGED <<now, features, forecasts>>

Publish(kind, higher, vectors) ==
  features' = features \cup {[kind |-> kind, higher |-> higher, vector |-> v] : v \in Range(vectors)}

PublishTa ==
  /\ \E batch \in Normalized(pages), higher \in {<<>>, HigherNow} :
     \E vectors \in TaVectors(batch, higher) : Publish("ta", DOMAIN higher # {}, vectors)
  /\ UNCHANGED <<now, pages, forecasts>>

PublishLiquidity ==
  /\ \E batch \in Normalized(pages) : \E vectors \in LiquidityVectors(batch, QuotesNow) :
       Publish("liquidity", FALSE, vectors)
  /\ UNCHANGED <<now, pages, forecasts>>

\* The vectors a caller builds a dataset from: all, or those that are in a
\* split, labelled by now and have a return.
Usable(vectors) ==
  Restrict(vectors, {n \in DOMAIN vectors :
                       /\ SplitOf(vectors[n].ts) # {} /\ vectors[n].return # {}
                       /\ LabelOf(vectors[n].ts, Observed) # {}})

PublishForecasts ==
  /\ \E batch \in Normalized(pages) : \E vectors \in TaVectors(batch, <<>>) :
     \E rows \in UNION {Snapshots(chosen, Observed) : chosen \in {vectors, Usable(vectors)}} :
     \E splits \in SUBSET {"validation", "test"} :
       /\ Candidates(rows, splits) # {}
       /\ forecasts' = forecasts \cup Candidates(rows, splits)
  /\ UNCHANGED <<now, pages, features>>

Next == Tick \/ Deliver \/ PublishTa \/ PublishLiquidity \/ PublishForecasts

Spec == Init /\ [][Next]_vars
-----------------------------------------------------------------------------
\* NFR-001: a vector built when its bar closed is the vector every later run
\* builds of that moment, whatever pages, quotes and higher bars came since.
FeaturesPointInTime ==
  \A a, b \in features :
    a.kind = b.kind /\ a.higher = b.higher /\ a.vector.ts = b.vector.ts => a = b

\* Bars that open on the window's grid, last one interval and have a price.
WellTimed(batch) ==
  \A bar \in Range(batch) :
    /\ (bar.open - Window.start) % Interval = 0
    /\ bar.close = bar.open + Interval /\ bar.price > 0

\* What the quality report calls clean and the feature engine accepts has no
\* hidden holes: a lookback inside the window covers that many intervals, its
\* volatility that many returns, one after the other.
CleanLookback ==
  \A batch \in Normalized(pages) : \A vectors \in TaVectors(batch, <<>>) :
    Blockers(batch, NoTolerance) = {} /\ WellTimed(batch) =>
      \A n \in (Lookback + 1)..Len(batch) :
        Window.start <= batch[n - Lookback].open /\ batch[n].open < Window.end =>
          /\ batch[n].close - batch[n - Lookback].close = Lookback * Interval
          /\ vectors[n].volatility =
               {[k \in (n - Lookback)..(n - 1) |-> <<batch[k].price, batch[k + 1].price>>]}

\* A forecast of a moment does not change as data, labels and splits are
\* added: every fit saw the same train rows.
ForecastsStable ==
  \A a, b \in forecasts : a.ts = b.ts => a = b

\* A forecast never knows its own label, nor a later one; from a horizon after
\* the train window on it knows nothing that was not observed when it was made.
FitKnowsNoFuture ==
  \A f \in forecasts : \A known \in f.fit :
    /\ \A own \in f.label : known.ts < own.ts
    /\ f.ts >= Splits[1].end + Horizon => known.ts <= f.ts
=============================================================================
