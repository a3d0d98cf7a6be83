------------------------------ MODULE RiskLimits ------------------------------
(***************************************************************************)
(* risk/engine.py: the limit evaluations of evaluate_pre_trade_risk and    *)
(* the decision drawn from them, as operators on one request.              *)
(*                                                                         *)
(* Amounts are integers.  A quantity is given by its value at the          *)
(* request's reference price: within one request the price only converts,  *)
(* so capped_quantity = allowed_notional / reference_price is the allowed  *)
(* notional itself.  Policy percentages appear as the amounts they give    *)
(* (paper_nav * pct).  An optional field is a set of at most one element.  *)
(*                                                                         *)
(* A request is [order, account, kill, records, market]: the intent, what  *)
(* the account holds, the active kill state, the idempotency records, and  *)
(* the rest of the telemetry and metadata.                                 *)
(***************************************************************************)
EXTENDS Integers

CONSTANTS
  Soft,             \* RiskPolicy soft thresholds, by LimitNames
  Hard,             \* RiskPolicy hard thresholds, by LimitNames
  AccountMax,       \* account.risk_limits maxima, by SizeNames
  ConstraintMax,    \* constraint.max_order_notional, if any
  PolicyReserve,    \* paper_nav * min_cash_reserve_pct of the policy
  AccountReserve    \* the same of the account

ExposureKinds == {"instrument", "strategy", "total"}
SizeNames == ExposureKinds \cup {"order"}
LimitNames ==
  SizeNames \cup {"collar", "account_loss", "strategy_loss", "drawdown",
                  "spread", "volatility", "tca"}

\* policy_is_consistent_and_deterministic: no soft threshold above its hard one.
ASSUME PolicyAssumption ==
  /\ Soft \in [LimitNames -> Nat]
  /\ Hard \in [LimitNames -> Nat]
  /\ \A l \in LimitNames : Soft[l] <= Hard[l]
  /\ AccountMax \in [SizeNames -> Nat]
  /\ ConstraintMax \subseteq Nat
  /\ PolicyReserve \in Nat /\ AccountReserve \in Nat

Least(S) == CHOOSE m \in S : \A n \in S : m <= n
Lesser(a, b) == IF a <= b THEN a ELSE b
Greater(a, b) == IF a >= b THEN a ELSE b
Positive(n) == Greater(0, n)

-----------------------------------------------------------------------------
\* _build_order_effect.  A buy always increases risk, a sell only when it
\* goes through zero.
RiskIncreasing(req) ==
  req.order.side = "buy" \/ req.account.position < req.order.notional

ResultingExposure(req, kind) ==
  IF req.order.side = "buy" THEN req.account.exposure[kind] + req.order.notional
  ELSE Positive(req.account.exposure[kind] - req.order.notional)

ResultingCash(req) ==
  IF req.order.side = "buy" THEN req.account.cash - req.order.notional
  ELSE req.account.cash + req.order.notional

\* The lower of the policy's and the account's limit.
SizeLimit(kind) == Lesser(Hard[kind], AccountMax[kind])
OrderLimit == Least({SizeLimit("order")} \cup ConstraintMax)

CashReserve == Greater(PolicyReserve, AccountReserve)

-----------------------------------------------------------------------------
\* _evaluation: a limit, its status, and the notional a soft breach leaves
\* room for (_allowed_incremental_notional; empty when it is None).
Evaluation(limit, status, room) ==
  [limit |-> limit, status |-> status, room |-> room]

Unless(ok) == IF ok THEN "pass" ELSE "hard"

\* _threshold_evaluation
OverThreshold(value, soft, hard) ==
  IF value > hard THEN "hard" ELSE IF value > soft THEN "soft" ELSE "pass"

\* _negative_loss_evaluation; reject bursts compare the same way, with >=
LossStatus(pnl, soft, hard) ==
  IF pnl <= - hard THEN "hard" ELSE IF pnl <= - soft THEN "soft" ELSE "pass"

RequiredState(req) ==
  Unless(req.market.metadata = "orderable" /\ req.kill # "unknown_fail_closed")

ProductScope(req) == Unless(req.market.metadata # "missing" /\ req.market.spot)

\* A slip: PAUSE_NEW_ORDERS and REDUCE_ONLY without the look at the effect.
KillSwitchLoose(req) ==
  CASE req.kill \in {"clear", "pause_new_orders", "reduce_only"} -> "pass"
    [] req.kill = "soft_limited" -> "soft"
    [] OTHER -> "hard"

KillSwitch(req) ==
  CASE req.kill = "clear" -> "pass"
    [] req.kill = "soft_limited" -> "soft"
    [] req.kill \in {"pause_new_orders", "reduce_only"} -> Unless(~ RiskIncreasing(req))
    [] OTHER -> "hard"

VenueStatus(req) ==
  CASE req.market.venue = "active"   -> "pass"
    [] req.market.venue = "degraded" -> "soft"
    [] OTHER                         -> "hard"

PriceCollar(req) ==
  IF \/ ~ req.market.price_known
     \/ req.order.type = "market" /\ req.market.deviation > Soft["collar"]
  THEN "hard"
  ELSE OverThreshold(req.market.deviation, Soft["collar"], Hard["collar"])

OrderNotional(req) ==
  IF RiskIncreasing(req)
  THEN OverThreshold(req.order.notional, Soft["order"], OrderLimit) ELSE "pass"

\* A slip: the hard limit tested before the order is added.
ExposureBefore(req, kind) ==
  IF RiskIncreasing(req)
  THEN OverThreshold(req.account.exposure[kind], Soft[kind], SizeLimit(kind)) ELSE "pass"

Exposure(req, kind) ==
  IF RiskIncreasing(req)
  THEN OverThreshold(ResultingExposure(req, kind), Soft[kind], SizeLimit(kind))
  ELSE "pass"

\* A slip: the reserve tested before the order is paid for.
CashReserveBreachBefore(req) == RiskIncreasing(req) /\ req.account.cash < CashReserve

CashReserveBreach(req) == RiskIncreasing(req) /\ ResultingCash(req) < CashReserve

TotalExposure(req) ==
  IF CashReserveBreach(req) THEN "hard" ELSE Exposure(req, "total")

NoShortOrOversell(req) ==
  Unless(req.order.side = "buy" \/ req.order.notional <= req.account.position)

\* The first check breached, 24h volume before depth, decides the status and
\* the cap.  A check is [soft, hard]: what its percentages allow.
Checks(req) == req.market.volume \cup req.market.depth

Participation(req) ==
  IF \/ req.market.depth_required /\ req.market.depth = {}
     \/ \E c \in Checks(req) : req.order.notional > c.hard
  THEN "hard"
  ELSE IF \E c \in Checks(req) : req.order.notional > c.soft THEN "soft" ELSE "pass"

ParticipationCap(req) ==
  IF \E c \in req.market.volume : req.order.notional > c.soft
  THEN {c.soft : c \in req.market.volume} ELSE {c.soft : c \in req.market.depth}

Spread(req) ==
  IF req.market.spread = {} THEN "hard"
  ELSE OverThreshold(Least(req.market.spread), Soft["spread"],
                     Least({Hard["spread"]} \cup req.market.envelope))

Volatility(req) ==
  IF ~ req.market.volatility_known \/ req.market.shock \/ req.market.volatility = {} THEN "hard"
  ELSE OverThreshold(Least(req.market.volatility), Soft["volatility"], Hard["volatility"])

\* The blocking signals, by the instrument they block: "all" stands for a
\* signal with no blocked_instrument_id.
DataFreshness(req) == Unless(req.market.blocking \cap {"all", req.order.instrument} = {})

\* A slip: an order already at the venue not counted as unresolved.
UnresolvedBeforePlacement == {"received", "accepted", "unknown"}

Unresolved == {"received", "accepted", "placed", "unknown"}

\* matches: which of key, client_order_id, trace_id and intent hash agree.
Idempotency(req) ==
  Unless(\A r \in req.records : r.state \in Unresolved => r.matches = {})

Throttle(w) == OverThreshold(w.count + 1, w.soft, w.hard)

RejectBurst(w) ==
  IF w.unknown \/ w.count >= w.hard THEN "hard"
  ELSE IF w.count >= w.soft THEN "soft" ELSE "pass"

\* The larger of decision-to-risk and risk-to-gateway time; the soft
\* threshold is half the budget.
EngineLatency(req) ==
  IF ~ req.market.time_proven \/ req.market.latency > req.market.budget THEN "hard"
  ELSE IF 2 * req.market.latency > req.market.budget THEN "soft" ELSE "pass"

ModelDrift(req) ==
  IF req.market.severe \/ ~ req.market.calibrated THEN "hard"
  ELSE IF req.market.drift THEN "soft" ELSE "pass"

TcaCostSlippage(req) ==
  IF ~ req.market.tca_known \/ req.market.tca = {} THEN "hard"
  ELSE OverThreshold(Least(req.market.tca), Soft["tca"], Hard["tca"])

-----------------------------------------------------------------------------
\* evaluate_pre_trade_risk, in its order.  Only the five sized limits carry
\* a cap; the one of a cash-reserve breach is never read, being hard.
Evaluations(req) ==
  {Evaluation("config.required_state", RequiredState(req), {}),
   Evaluation("scope.product_mvp", ProductScope(req), {}),
   Evaluation("kill_switch.active_state", KillSwitch(req), {}),
   Evaluation("venue.status", VenueStatus(req), {}),
   Evaluation("order.price_collar", PriceCollar(req), {}),
   Evaluation("order.max_notional", OrderNotional(req), {Soft["order"]}),
   Evaluation("position.instrument_exposure", Exposure(req, "instrument"),
              {Soft["instrument"] - req.account.exposure["instrument"]}),
   Evaluation("position.strategy_exposure", Exposure(req, "strategy"),
              {Soft["strategy"] - req.account.exposure["strategy"]}),
   Evaluation("position.total_spot_exposure", TotalExposure(req),
              {Soft["total"] - req.account.exposure["total"]}),
   Evaluation("position.no_short_or_oversell", NoShortOrOversell(req), {}),
   Evaluation("loss.daily_account",
              LossStatus(req.market.account_pnl, Soft["account_loss"], Hard["account_loss"]), {}),
   Evaluation("loss.daily_strategy",
              LossStatus(req.market.strategy_pnl, Soft["strategy_loss"], Hard["strategy_loss"]), {}),
   Evaluation("loss.max_drawdown",
              OverThreshold(req.market.drawdown, Soft["drawdown"], Hard["drawdown"]), {}),
   Evaluation("liquidity.participation", Participation(req), ParticipationCap(req)),
   Evaluation("liquidity.spread", Spread(req), {}),
   Evaluation("market.volatility", Volatility(req), {}),
   Evaluation("data.freshness", DataFreshness(req), {}),
   Evaluation("execution.duplicate_idempotency", Idempotency(req), {}),
   Evaluation("engine.latency", EngineLatency(req), {}),
   Evaluation("model.drift_or_calibration", ModelDrift(req), {}),
   Evaluation("tca.cost_slippage", TcaCostSlippage(req), {})}
  \cup {Evaluation("execution.order_throttle", Throttle(w), {}) : w \in req.market.throttle}
  \cup {Evaluation("execution.reject_burst", RejectBurst(w), {}) : w \in req.market.rejects}

HardBreach(req) == \E e \in Evaluations(req) : e.status = "hard"
SoftBreaches(req) == {e \in Evaluations(req) : e.status = "soft"}

\* allowed_incremental_notionals
Caps(req) == UNION {e.room : e \in SoftBreaches(req)}

\* A slip: the most generous cap instead of the least.
AllowedNotionalMost(req) == CHOOSE m \in Caps(req) : \A n \in Caps(req) : n <= m

AllowedNotional(req) == Least(Caps(req))

\* A slip: no check that the cap leaves room.
AfterSoftCapsUnchecked(req) ==
  IF req.order.side = "sell" \/ SoftBreaches(req) = {}
  THEN [decision |-> "approved", notional |-> req.order.notional]
  ELSE IF \E e \in SoftBreaches(req) : e.room = {}
  THEN [decision |-> "no_trade", notional |-> 0]
  ELSE [decision |-> "approved_after_cap", notional |-> AllowedNotional(req)]

\* _approval_after_soft_caps: the decision and the approved notional.
AfterSoftCaps(req) ==
  IF req.order.side = "sell" \/ SoftBreaches(req) = {}
  THEN [decision |-> "approved", notional |-> req.order.notional]
  ELSE IF \/ \E e \in SoftBreaches(req) : e.room = {}
          \/ \E c \in Caps(req) : c <= 0
  THEN [decision |-> "no_trade", notional |-> 0]
  ELSE IF AllowedNotional(req) >= req.order.notional
  THEN [decision |-> "approved", notional |-> req.order.notional]
  ELSE [decision |-> "approved_after_cap", notional |-> AllowedNotional(req)]

RiskDecision(req) ==
  IF HardBreach(req) THEN [decision |-> "rejected", notional |-> 0]
  ELSE AfterSoftCaps(req)

\* The decisions the gateway forwards (risk/replay.py _APPROVED_DECISIONS);
\* the engine never emits the third, cancel_reduce_only_approved.
ApprovedDecisions == {"approved", "approved_after_cap"}

Approved(req) == RiskDecision(req).decision \in ApprovedDecisions
=============================================================================
