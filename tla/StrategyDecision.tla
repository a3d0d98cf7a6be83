--------------------------- MODULE StrategyDecision ---------------------------
(***************************************************************************)
(* strategy/decisions.py and the order seam of audit/trace.py: from a      *)
(* forecast to a decision, its pre-risk size, and the order intent the     *)
(* risk engine is asked about.  Pure functions; AuditTrail runs them.      *)
(*                                                                         *)
(* Decimals are integers in units fine enough for the divisions of the     *)
(* instance to be exact.  A content hash is the content: a decision's id   *)
(* is the tuple of the fields its hash covers that can differ here.        *)
(***************************************************************************)
EXTENDS Integers

\* A result of a call that may raise is a set: empty when it raises.

-----------------------------------------------------------------------------
\* _breaches_threshold: a threshold of zero tolerates exactly zero.
Breaches(value, threshold) == IF threshold = 0 THEN value > 0 ELSE value >= threshold

\* _threshold_multiplier as numerator and denominator.
Headroom(value, threshold) ==
  IF threshold = 0 THEN [num |-> IF value = 0 THEN 1 ELSE 0, den |-> 1]
  ELSE [num |-> IF value < threshold THEN threshold - value ELSE 0, den |-> threshold]

\* net_edge = expected_return - expected_cost - uncertainty_buffer
NetEdge(median, forecast, policy) ==
  median - policy.cost - forecast.uncertainty * policy.buffer

\* A slip: the edge is not compared with the policy's minimum.
ClassifyAnyEdge(forecast, policy) ==
  IF forecast.median = {} THEN "unsupported_forecast"
  ELSE LET median == CHOOSE m \in forecast.median : TRUE
       IN IF median <= 0 THEN "non_positive_expected_return"
          ELSE IF Breaches(policy.cost, policy.max_cost) THEN "cost_threshold"
          ELSE IF Breaches(forecast.uncertainty, policy.max_uncertainty)
               THEN "uncertainty_threshold"
          ELSE "trade_positive_net_edge"

\* _expected_return_from_forecast and _classify_decision: the reason code;
\* median is {} when the policy's quantile is not in the forecast.
Classify(forecast, policy) ==
  IF forecast.median = {} THEN "unsupported_forecast"
  ELSE LET median == CHOOSE m \in forecast.median : TRUE
       IN IF median <= 0 THEN "non_positive_expected_return"
          ELSE IF Breaches(policy.cost, policy.max_cost) THEN "cost_threshold"
          ELSE IF Breaches(forecast.uncertainty, policy.max_uncertainty)
               THEN "uncertainty_threshold"
          ELSE IF NetEdge(median, forecast, policy) <= policy.min_edge
               THEN "insufficient_net_edge"
          ELSE "trade_positive_net_edge"

\* _drawdown_blocks_size overrides a purchase.
Reason(forecast, policy, sizing) ==
  IF /\ Classify(forecast, policy) = "trade_positive_net_edge"
     /\ \E s \in sizing : s.drawdown >= s.max_drawdown
  THEN "drawdown_threshold" ELSE Classify(forecast, policy)

ZeroSize(status) == [status |-> status, notional |-> 0, quantity |-> 0]

Reductions(forecast, policy, s) ==
  <<Headroom(policy.cost, policy.max_cost),
    Headroom(forecast.uncertainty, policy.max_uncertainty),
    Headroom(s.drawdown, s.max_drawdown)>>

\* The base budget reduced by cost, uncertainty and drawdown, as a fraction.
Numerator(r, s) == s.budget * r[1].num * r[2].num * r[3].num
Denominator(r)  == r[1].den * r[2].den * r[3].den

Proposed(forecast, policy, s) ==
  LET r == Reductions(forecast, policy, s)
      notional == Numerator(r, s) \div Denominator(r)
  IN IF notional = 0 THEN ZeroSize("blocked")
     ELSE [status |-> "proposed", notional |-> notional, quantity |-> notional \div s.price]

\* The division of Proposed has no remainder, as with the code's decimals.
Exact(forecast, policy, s) ==
  LET r == Reductions(forecast, policy, s) IN Numerator(r, s) % Denominator(r) = 0

\* propose_pre_risk_size
Size(reason, forecast, policy, sizing) ==
  IF sizing = {} THEN ZeroSize("placeholder")
  ELSE IF reason # "trade_positive_net_edge" THEN ZeroSize("blocked")
  ELSE Proposed(forecast, policy, CHOOSE s \in sizing : TRUE)

\* build_strategy_trace_id: the sizing inputs are not part of it.
TraceId(run, forecast, policy, ts) == <<run, forecast.id, policy.id, ts>>

\* decide_expected_net_edge before validation.
Draft(run, forecast, policy, ts, sizing) ==
  LET reason == Reason(forecast, policy, sizing)
      size == Size(reason, forecast, policy, sizing)
      trace == TraceId(run, forecast, policy, ts)
  IN [id |-> <<trace, reason, size.status, size.notional, size.quantity>>,
      trace |-> trace, forecast |-> forecast.id, market |-> forecast.market,
      policy |-> policy, ts |-> ts,
      action |-> IF reason = "trade_positive_net_edge" THEN "buy" ELSE "no_trade",
      reason |-> reason,
      edge |-> IF forecast.median = {} THEN - policy.cost - forecast.uncertainty * policy.buffer
               ELSE NetEdge(CHOOSE m \in forecast.median : TRUE, forecast, policy),
      sizing |-> sizing, size |-> size]

\* decision_is_consistent_and_deterministic: a purchase with sizing inputs
\* must have a size.
Consistent(d) ==
  /\ d.action = "buy" => d.edge > 0 /\ (d.sizing # {} => d.size.status = "proposed")
  /\ d.action = "no_trade" => d.size.notional = 0

\* decide_expected_net_edge
Decide(run, forecast, policy, ts, sizing) ==
  {d \in {Draft(run, forecast, policy, ts, sizing)} :
     forecast.split # "train" /\ ts >= forecast.ts /\ Consistent(d)}

-----------------------------------------------------------------------------
\* build_order_intent_client_order_id
ClientOrderId(decision, submitted) == <<decision.id, submitted>>

\* build_order_intent_from_strategy_decision for a market order.
OrderIntents(decision, submitted) ==
  {i \in {[id |-> ClientOrderId(decision, submitted), trace |-> decision.trace,
           source |-> decision.id, market |-> decision.market, side |-> "buy",
           quantity |-> decision.size.quantity, submitted |-> submitted,
           type |-> "market", metadata |-> "tradable"]} :
     /\ decision.action = "buy" /\ decision.size.status = "proposed"
     /\ submitted >= decision.ts}

\* _no_order_reason: why a decision without an order is complete, {} if it is not.
NoOrderReason(decision) ==
  IF decision.action = "no_trade" THEN {decision.reason}
  ELSE IF decision.size.notional = 0 \/ decision.size.quantity = 0
       THEN {decision.size.status} ELSE {}
=============================================================================
