--------------------------- MODULE EventTimeReplay ---------------------------
(***************************************************************************)
(* simulation/replay.py: replay_ohlctv_market_orders.  A batch of intents  *)
(* is replayed in submission order against validated bars; each fills at   *)
(* the open of its first eligible bar, "latency_bars" later, and is paid   *)
(* for at once from the simulated balances.                                *)
(*                                                                         *)
(* Timestamps are integers.  A market is an (instrument, venue): its base  *)
(* asset bears its name, and the markets share one quote asset, CASH.      *)
(* Rates are numerators over Scale, so a quote amount is a multiple of     *)
(* 1 / Scale^2; bar volumes are multiples of Scale, so that volume times a *)
(* participation rate is a whole quantity.                                 *)
(***************************************************************************)
EXTENDS Integers, Sequences, FiniteSets

CONSTANTS
  Markets, CASH,
  BarSequences,     \* the bars a caller may pass
  IntentSequences,  \* the order intents a caller may pass
  CostModels,       \* ExecutionCostModels
  Constraints,      \* effective-dated instrument constraints
  Opening,          \* starting_account_state
  Scale

Assets == Markets \cup {CASH}

OHLCTVBar == [market : Markets, rank : Int, open : Int, close : Int, source : Int,
              timeframe : STRING, price : Nat, volume : Nat]
OrderIntent == [id : Int, market : Markets, side : {"buy", "sell"}, quantity : Nat \ {0},
                submitted : Int, type : STRING, metadata : STRING]
ExecutionCostModel ==
  [latency : Nat, rate : Nat, partial : BOOLEAN, adverse : Nat, fee : Nat]

ASSUME OpeningAssumption == CASH \notin Markets /\ Opening \in [Assets -> Nat]
ASSUME ScaleAssumption == Scale \in Nat \ {0}
ASSUME BarsAssumption ==
  /\ BarSequences \subseteq Seq(OHLCTVBar)
  /\ \A bs \in BarSequences : \A i \in 1..Len(bs) :
       bs[i].open < bs[i].close /\ bs[i].volume % Scale = 0
ASSUME IntentsAssumption == IntentSequences \subseteq Seq(OrderIntent)
\* BoundedFeeRate, and spread_bps plus slippage_bps below 10000.
ASSUME CostModelsAssumption ==
  CostModels \subseteq ExecutionCostModel /\ \A m \in CostModels : m.fee <= Scale /\ m.adverse < Scale

VARIABLES
  bars, intents,
  cost,      \* {model} or {}
  account,   \* TRUE when metadata snapshot and account state are supplied
  outcome,   \* "called", "running", "refused", "aborted", "done"
  state      \* balances and results so far

vars == <<bars, intents, cost, account, outcome, state>>
input == <<bars, intents, cost, account>>

-----------------------------------------------------------------------------
\* _validate_bars_are_safe.  The sort key ends with the stream: its order
\* among bars that close together is the order of Markets' ranks.
SameMarket(a, b) == a.market = b.market
GlobalKeyBefore(a, b) ==
  a.close < b.close \/ (a.close = b.close /\ a.rank < b.rank)

\* last_by_stream: no bar of the market lies between i and j.
Consecutive(bs, i, j) ==
  /\ i < j /\ SameMarket(bs[i], bs[j])
  /\ \A k \in (i + 1)..(j - 1) : ~ SameMarket(bs[k], bs[j])

\* A slip: overlap tested against the bar before, whatever its market.
SafeBarsAdjacent(bs) ==
  /\ \A i \in 1..Len(bs) : bs[i].source <= bs[i].close
  /\ \A i \in 1..(Len(bs) - 1) :
       /\ ~ GlobalKeyBefore(bs[i + 1], bs[i])
       /\ SameMarket(bs[i], bs[i + 1]) =>
            bs[i + 1].close > bs[i].close /\ bs[i + 1].open >= bs[i].close

SafeBars(bs) ==
  /\ \A i \in 1..Len(bs) : bs[i].source <= bs[i].close
  /\ \A i, j \in 1..Len(bs) : SameMarket(bs[i], bs[j]) => bs[i].timeframe = bs[j].timeframe
  /\ \A i \in 1..(Len(bs) - 1) : ~ GlobalKeyBefore(bs[i + 1], bs[i])
  /\ \A i, j \in 1..Len(bs) : Consecutive(bs, i, j) =>
       bs[j].close > bs[i].close /\ bs[j].open >= bs[i].close

\* _validate_order_intents: unique ids, sorted by (submitted_at, id).
SafeIntents(is) ==
  /\ \A i, j \in 1..Len(is) : i # j => is[i].id # is[j].id
  /\ \A i \in 1..(Len(is) - 1) :
       \/ is[i].submitted < is[i + 1].submitted
       \/ is[i].submitted = is[i + 1].submitted /\ is[i].id < is[i + 1].id

-----------------------------------------------------------------------------
\* A slip: the signal bar itself counts.
EligibleSameBar(bs, intent) ==
  {i \in 1..Len(bs) : bs[i].market = intent.market /\ bs[i].close >= intent.submitted}

\* Indices of the bars an intent may fill on.
Eligible(bs, intent) ==
  {i \in 1..Len(bs) : /\ bs[i].market = intent.market
                      /\ bs[i].open >= intent.submitted
                      /\ bs[i].close > intent.submitted}

\* A slip: bars counted from the newest one.
FillBarNewest(bs, intent, latency) ==
  {i \in Eligible(bs, intent) : Cardinality({j \in Eligible(bs, intent) : i < j}) = latency}

\* eligible[latency_bars]: the bar that comes after that many others, if any.
FillBar(bs, intent, latency) ==
  {i \in Eligible(bs, intent) : Cardinality({j \in Eligible(bs, intent) : j < i}) = latency}

\* _constraint_reject_reason, evaluate_order: exactly one constraint in force
\* when the bar opens, and the intent's whole quantity within it.
ConstraintHolds(intent, bar) ==
  LET active == {c \in Constraints : c.market = intent.market /\ c.from <= bar.open
                                     /\ bar.open < c.to}
  IN \E c \in active :
       /\ active = {c}
       /\ bar.price > 0 /\ bar.price % c.tick = 0
       /\ intent.quantity >= c.min_quantity /\ intent.quantity % c.lot = 0
       /\ intent.quantity <= c.max_quantity
       /\ bar.price * intent.quantity >= c.min_notional
       /\ bar.price * intent.quantity <= c.max_notional

IsFill(r) == r.status \in {"filled", "partial"}

\* _unfilled_result: what the market could not fill, and what was refused.
Unfilled(intent, reason) ==
  [id |-> intent.id, reason |-> reason, bar |-> 0, quantity |-> 0, notional |-> 0, fee |-> 0,
   status |-> IF reason \in {"no_future_eligible_event", "insufficient_liquidity"}
              THEN "unfilled" ELSE "rejected"]

\* Without a cost model the first eligible bar fills everything, for free.
NoCost == [latency |-> 0, rate |-> 0, partial |-> FALSE, adverse |-> 0, fee |-> 0]

\* _apply_balance_or_reject, when a fill is affordable.
Affordable(balances, intent, r) ==
  IF intent.side = "buy" THEN balances[CASH] >= r.notional + r.fee
  ELSE balances[intent.market] >= r.quantity

\* A slip: the fee of a sale forgotten.
SettledFeeless(balances, intent, r) ==
  IF intent.side = "buy"
  THEN [balances EXCEPT ![CASH] = @ - r.notional - r.fee, ![intent.market] = @ + r.quantity]
  ELSE [balances EXCEPT ![CASH] = @ + r.notional, ![intent.market] = @ - r.quantity]

Settled(balances, intent, r) ==
  IF intent.side = "buy"
  THEN [balances EXCEPT ![CASH] = @ - r.notional - r.fee, ![intent.market] = @ + r.quantity]
  ELSE [balances EXCEPT ![CASH] = @ + r.notional - r.fee, ![intent.market] = @ - r.quantity]

Model == IF cost = {} THEN NoCost ELSE CHOOSE m \in cost : TRUE

\* A fill of q on bar i: adverse spread and slippage, then the taker fee.
Filled(bar, i, intent, q) ==
  LET adverse == Scale + (IF intent.side = "buy" THEN Model.adverse ELSE - Model.adverse)
  IN [id |-> intent.id, status |-> IF q = intent.quantity THEN "filled" ELSE "partial",
      reason |-> "none", bar |-> i, quantity |-> q,
      notional |-> bar.price * q * adverse * Scale,
      fee |-> bar.price * q * adverse * Model.fee]

\* What bar i makes of an order.
AttemptOn(bar, i, intent) ==
  LET capacity == (bar.volume * Model.rate) \div Scale
      quantity == IF cost = {} \/ intent.quantity <= capacity THEN intent.quantity ELSE capacity
  IN IF account /\ ~ ConstraintHolds(intent, bar) THEN Unfilled(intent, "constraint_violation")
     ELSE IF quantity = 0 \/ (quantity < intent.quantity /\ ~ Model.partial)
          THEN Unfilled(intent, "insufficient_liquidity")
     ELSE Filled(bar, i, intent, quantity)

\* The fill _replay_one attempts, before the balances are asked.
Attempt(bs, intent) ==
  LET at == FillBar(bs, intent, Model.latency)
      i  == CHOOSE i \in at : TRUE
  IN IF account /\ intent.metadata # "tradable" THEN Unfilled(intent, intent.metadata)
     ELSE IF intent.type # "market" THEN Unfilled(intent, "unsupported_order_type")
     ELSE IF at = {} THEN Unfilled(intent, "no_future_eligible_event")
     ELSE AttemptOn(bs[i], i, intent)

\* What an attempted result does to the balances, or they to it.
Balanced(s, intent, r) ==
  IF ~ (IsFill(r) /\ account)
  THEN [s EXCEPT !.results = Append(@, r)]
  ELSE IF Affordable(s.balances, intent, r)
  THEN [balances |-> Settled(s.balances, intent, r), results |-> Append(s.results, r)]
  ELSE [s EXCEPT !.results = Append(@, Unfilled(intent,
          IF intent.side = "buy" THEN "insufficient_cash" ELSE "insufficient_inventory"))]

\* _replay_one
Replayed(bs, s, intent) == Balanced(s, intent, Attempt(bs, intent))

\* The states a replay goes through, one after each intent.
States(bs, opening, is) ==
  LET after[n \in 0..Len(is)] ==
        IF n = 0 THEN [balances |-> opening, results |-> <<>>]
        ELSE Replayed(bs, after[n - 1], is[n])
  IN after

Started == [balances |-> Opening, results |-> <<>>]

\* The whole batch, for the bars a run would have had.
Replay(bs) == States(bs, Opening, intents)[Len(intents)]
-----------------------------------------------------------------------------
Init ==
  /\ bars \in BarSequences
  /\ intents \in IntentSequences
  /\ cost \in {{}} \cup {{m} : m \in CostModels}
  /\ account \in BOOLEAN
  /\ outcome = "called"
  /\ state = Started

\* Validation comes first, and refuses the whole call.
Validate ==
  /\ outcome = "called"
  /\ outcome' = IF SafeBars(bars) /\ SafeIntents(intents) THEN "running" ELSE "refused"
  /\ UNCHANGED <<input, state>>

Current == intents[Len(state.results) + 1]

\* ReplayOrderResult refuses a fill at a price that is not positive: a bar
\* that opened at zero ends the call with an error.
Unpriceable(r) == IsFill(r) /\ bars[r.bar].price = 0

ReplayOne ==
  /\ outcome = "running" /\ Len(state.results) < Len(intents)
  /\ ~ Unpriceable(Attempt(bars, Current))
  /\ state' = Replayed(bars, state, Current)
  /\ UNCHANGED <<input, outcome>>

Abort ==
  /\ outcome = "running" /\ Len(state.results) < Len(intents)
  /\ Unpriceable(Attempt(bars, Current))
  /\ outcome' = "aborted"
  /\ UNCHANGED <<input, state>>

Report ==
  /\ outcome = "running" /\ Len(state.results) = Len(intents)
  /\ outcome' = "done"
  /\ UNCHANGED <<input, state>>

Next == Validate \/ ReplayOne \/ Abort \/ Report

Spec == Init /\ [][Next]_vars
-----------------------------------------------------------------------------
\* Orders of a market fill in the order they were submitted, on one bar or the
\* earlier one on a bar that is over when the other's opens, whatever other
\* markets' bars stand between; and never on a bar whose open the strategy had
\* seen when it decided.
FillsFollowSubmissions ==
  \A i, j \in 1..Len(state.results) :
    LET r == state.results[i]  s == state.results[j]
    IN /\ IsFill(r) => bars[r.bar].open >= intents[i].submitted
       /\ i < j /\ IsFill(r) /\ IsFill(s) /\ SameMarket(bars[r.bar], bars[s.bar])
            => r.bar = s.bar \/ bars[r.bar].close <= bars[s.bar].open

\* What the results say was bought, sold and paid is what the balances moved
\* by: a refused fill leaves no trace in them, and none is paid on credit.
Flow(asset, o, r) ==
  LET buy == o.side = "buy"
  IN IF ~ IsFill(r) THEN 0
     ELSE IF asset = CASH THEN (IF buy THEN - r.notional ELSE r.notional) - r.fee
     ELSE IF asset # o.market THEN 0
     ELSE IF buy THEN r.quantity ELSE - r.quantity

Flows(asset, is, rs) == [i \in 1..Len(rs) |-> Flow(asset, is[i], rs[i])]

Total(base, flows) ==
  LET sum[n \in 0..Len(flows)] == IF n = 0 THEN base ELSE sum[n - 1] + flows[n]
  IN sum[Len(flows)]

LedgerMatchesResults ==
  account => \A a \in Assets :
    /\ state.balances[a] >= 0
    /\ state.balances[a] = Total(Opening[a], Flows(a, intents, state.results))

\* NFR-001, no lookahead leakage: had the run stopped after its first k bars,
\* the orders that fill on those bars would have had the very same result.
NoLookahead ==
  outcome = "done" =>
    \A k \in 0..Len(bars) :
      LET early == Replay(SubSeq(bars, 1, k)).results
      IN \A i \in 1..Len(intents) :
           IsFill(early[i]) \/ (IsFill(state.results[i]) /\ state.results[i].bar <= k)
             => early[i] = state.results[i]

\* The same of a batch whose orders are all for one market.
CausalWithinMarket ==
  (\A i, j \in 1..Len(intents) : intents[i].market = intents[j].market) => NoLookahead
=============================================================================
