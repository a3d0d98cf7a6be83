--------------------------- MODULE ResearchFeatures ---------------------------
(***************************************************************************)
(* normalization/silver.py, validation/data_quality.py, features/ta.py and *)
(* features/liquidity_cost.py: from the historical pages a caller hands in *)
(* to one batch of bars, its quality report and its feature vectors.  Pure *)
(* functions; ResearchPipeline runs them over time.                        *)
(*                                                                         *)
(* A bar is [market, timeframe, open, close, source, price, raw]; it is    *)
(* its own silver record id, which hashes its contents and raw payload but *)
(* not its page.  A computed figure is the tuple of the prices it is       *)
(* computed from: <<100, 101>> for a return.  The result of a call that    *)
(* may raise, and a value that may be None, is a set: empty if it is.      *)
(*                                                                         *)
(* A list from which some elements were filtered keeps their positions: a  *)
(* function from some of 1..n, in that order.                              *)
(***************************************************************************)
EXTENDS Integers, Sequences, FiniteSets, Functions

CONSTANTS
  Market,    \* the instrument and venue normalised for
  Interval,  \* a timeframe's length
  Window,    \* of the quality report: [start, end]
  Lookback,  \* sma_window, volatility_window and momentum_window
  Fees       \* fee schedules: [id, from, to]

ASSUME FeatureAssumption ==
  /\ Interval \in Nat \ {0} /\ Lookback \in Nat \ {0}
  /\ Window.start \in Int /\ Window.end \in Int
  /\ Window.start < Window.end /\ (Window.end - Window.start) % Interval = 0

-----------------------------------------------------------------------------
(* Silver. *)

\* _validate_page_scope and HistoricalBackfillPage.records_match_data_kind
SameScope(page, first) ==
  /\ page.request = first.request /\ page.source = first.source
  /\ \A bar \in Range(page.bars) : bar.raw = page.raw

Concatenated(pages) ==
  LET upto[n \in 0..Len(pages)] == IF n = 0 THEN <<>> ELSE upto[n - 1] \o pages[n].bars
  IN upto[Len(pages)]

\* normalize_historical_pages: the records of the pages in the order given;
\* a page passed twice is in it twice.
Normalized(pages) ==
  {batch \in {Concatenated(pages)} :
     /\ batch # <<>>
     /\ \A page \in Range(pages) : SameScope(page, pages[1])
     /\ \A bar \in Range(batch) : bar.market = Market /\ bar.timeframe = batch[1].timeframe}

-----------------------------------------------------------------------------
(* Quality. *)

InWindow(batch) == {n \in DOMAIN batch : Window.start <= batch[n].open /\ batch[n].open < Window.end}
Opens(batch) == {batch[n].open : n \in InWindow(batch)}

\* _expected_interval_opens of an aligned window.
Expected ==
  {Window.start + k * Interval : k \in 0..((Window.end - Window.start) \div Interval - 1)}

Missing(batch) == Expected \ Opens(batch)

\* _count_contiguous_gaps
GapCount(batch) ==
  LET missing == Missing(batch)
  IN Cardinality({open \in missing : (open - Interval) \notin missing})

DuplicateBars(batch) == Cardinality(InWindow(batch)) - Cardinality(Opens(batch))

\* _ohlctv_blockers: a rate is compared with a threshold <<num, den>>.
Blockers(batch, limits) ==
  {c \in {"missing_bars"} : Cardinality(Missing(batch)) * limits.missing[2]
                              > limits.missing[1] * Cardinality(Expected)}
    \cup {c \in {"gaps"} : GapCount(batch) > limits.gaps}
    \cup {c \in {"duplicate_bars"} : DuplicateBars(batch) * limits.duplicates[2]
                                       > limits.duplicates[1] * Cardinality(InWindow(batch))}

\* The default thresholds tolerate nothing.
NoTolerance == [missing |-> <<0, 1>>, gaps |-> 0, duplicates |-> <<0, 1>>]

-----------------------------------------------------------------------------
(* Features. *)

\* A slip: bars are taken in any order.
FeaturesAcceptUnordered(bars) ==
  /\ \A bar \in Range(bars) : bar.source <= bar.close
  /\ Cardinality({bar.close : bar \in Range(bars)}) = Cardinality(DOMAIN bars)

\* _validate_ohlctv_batch, _validate_higher_timeframe
FeaturesAccept(bars) ==
  /\ \A bar \in Range(bars) : bar.source <= bar.close
  /\ \A i, j \in DOMAIN bars : i < j => bars[i].close < bars[j].close

Price(bar) == bar.price

\* _return
Return(before, close) == IF before = 0 THEN {} ELSE {<<before, close>>}

Newest(positions) == {i \in positions : \A j \in positions : j <= i}

\* The last Lookback values, with the positions they have.
LastOnes(values) ==
  IF Cardinality(DOMAIN values) < Lookback THEN {}
  ELSE {Restrict(values, {i \in DOMAIN values :
                            Cardinality({j \in DOMAIN values : j >= i}) <= Lookback})}

Closes(batch, n) == [i \in 1..n |-> Price(batch[i])]

\* The returns collected up to bar n: those that are not None.
Returns(batch, n) ==
  [i \in {i \in 1..(n - 1) : Price(batch[i]) # 0} |-> <<Price(batch[i]), Price(batch[i + 1])>>]

\* _latest_higher_timeframe_close: what has closed by then.
ClosedBy(bars, ts) == {i \in DOMAIN bars : bars[i].close <= ts}

\* The vector of bar n: a value is None for lack of history, and htf_close is
\* not a value at all without a higher timeframe.
TaVector(batch, higher, n) ==
  LET ts == batch[n].close
      closed == ClosedBy(higher, ts)
  IN [ts         |-> ts,
      return     |-> IF n = 1 THEN {} ELSE Return(Price(batch[n - 1]), Price(batch[n])),
      sma        |-> LastOnes(Closes(batch, n)),
      volatility |-> LastOnes(Returns(batch, n)),
      momentum   |-> IF n <= Lookback THEN {} ELSE Return(Price(batch[n - Lookback]), Price(batch[n])),
      htf_close  |-> IF DOMAIN higher = {} THEN {}
                     ELSE {{Price(higher[i]) : i \in Newest(closed)}},
      inputs     |-> <<Restrict(batch, 1..n), Restrict(higher, closed)>>]

\* build_ta_feature_vectors; a higher timeframe is one that accepts as well.
TaVectors(batch, higher) ==
  {vectors \in {[n \in DOMAIN batch |-> TaVector(batch, higher, n)]} :
     FeaturesAccept(batch) /\ FeaturesAccept(higher)}

\* A slip: a quote is known from its event on, however late its source was.
VisibleFromEvent(quotes, ts) == {i \in DOMAIN quotes : quotes[i].event <= ts}

\* _latest_quote
VisibleQuotes(quotes, ts) ==
  {i \in DOMAIN quotes : quotes[i].event <= ts /\ \A s \in quotes[i].source : s <= ts}

\* _active_fee_schedule: {} unless exactly one is.
ActiveFee(ts) ==
  LET active == {f \in Fees : f.from <= ts /\ \A to \in f.to : ts < to}
  IN IF Cardinality(active) = 1 THEN active ELSE {}

\* _validate_quotes
QuotesAccepted(quotes) ==
  /\ DOMAIN quotes # {}
  /\ \A q \in Range(quotes) : q.bid < q.ask /\ \A s \in q.source : q.event <= s
  /\ \A i, j \in DOMAIN quotes : i < j => quotes[i].event < quotes[j].event

LiquidityVector(batch, quotes, n) ==
  LET ts == batch[n].close
  IN [ts         |-> ts,
      quote      |-> {quotes[i] : i \in Newest(VisibleQuotes(quotes, ts))},
      fee        |-> ActiveFee(ts),
      volatility |-> LastOnes(Returns(batch, n)),
      inputs     |-> Restrict(batch, 1..n)]

\* build_liquidity_cost_feature_vectors: a bar without a quote or a fee
\* schedule of its own fails the batch.
LiquidityVectors(batch, quotes) ==
  IF /\ FeaturesAccept(batch) /\ QuotesAccepted(quotes)
     /\ \A bar \in Range(batch) :
          VisibleQuotes(quotes, bar.close) # {} /\ ActiveFee(bar.close) # {}
  THEN {[n \in DOMAIN batch |-> LiquidityVector(batch, quotes, n)]} ELSE {}
=============================================================================
