---------------------------- MODULE PaperReadiness ----------------------------
(***************************************************************************)
(* observability/paper_readiness.py: what a day's reports, the risk events *)
(* and the data-health signals a caller passes are reduced to, and which   *)
(* of it is routed as an alert.                                            *)
(*                                                                         *)
(* Besides PaperSession's fields a risk event bears "kill", the active     *)
(* kill state, "drawdown" in percent, and "breaches", its hard breaches.   *)
(***************************************************************************)
EXTENDS PaperSession

CONSTANTS
  SignalSets,  \* data-health signals a caller may pass: [id, stale, blocks]
  Research     \* the figures taken from the model and strategy gate reports

Count(list, Is(_)) == Cardinality({i \in DOMAIN list : Is(list[i])})

\* A slip: an unreplayed closing state is a gap only after a fill.
LinkageGapOfFills(s) == IF s.source = "explicit_linkage" /\ DOMAIN s.fills # {} THEN 1 ELSE 0

LinkageGap(s) == IF s.source = "explicit_linkage" THEN 1 ELSE 0

KillBlocked(e) == "kill_switch_active" \in e.reasons \/ e.kill \notin {"clear", "soft_limited"}
RiskRefused(e) == e.decision \in {"rejected", "no_trade"}

Drawdown(risks) ==
  IF DOMAIN risks = {} THEN 0
  ELSE CHOOSE d \in {e.drawdown : e \in Range(risks)} : \A e \in Range(risks) : e.drawdown <= d

Metric(value, threshold) == [value |-> value, threshold |-> threshold]

\* _build_metric_evidence; every issue of a cost report is an error.
Metrics(s, t, risks, signals) ==
  [data_stale       |-> Metric(Cardinality({x \in signals : x.stale}), {0}),
   data_blocked     |-> Metric(Cardinality({x \in signals : x.blocks}), {0}),
   calibration      |-> Metric(Research.calibration, {5}),
   model_blocked    |-> Metric(IF Research.blocked THEN 1 ELSE 0, {0}),
   no_trade_quality |-> Metric(Research.delta, {5}),
   cost_drag        |-> Metric(Research.drag, {}),
   execution_cost   |-> Metric(s.cost, {}),
   drawdown         |-> Metric(Drawdown(risks), {5}),
   linkage_gap      |-> Metric(LinkageGap(s), {0}),
   tca_errors       |-> Metric(Cardinality(DOMAIN t.issues), {0}),
   order_rejects    |-> Metric(Count(s.rejections, LAMBDA v : v.status # "blocked"), {0}),
   cost_error       |-> Metric(Total(t.rows, LAMBDA r : r.realized - r.predicted), {}),
   kill_blocks      |-> Metric(Count(risks, KillBlocked), {0}),
   risk_blocks      |-> Metric(Count(risks, RiskRefused), {0}),
   hard_breaches    |-> Metric(Total(risks, LAMBDA e : e.breaches), {0})]

\* _metric
IsBreached(metric) == \E limit \in metric.threshold : metric.value > limit

\* _DEFAULT_ALERT_CONFIG: not every metric with a threshold has a rule.
Rule(category, metric, threshold) ==
  [category |-> category, metric |-> metric, operator |-> "gt", threshold |-> threshold]
DefaultRules ==
  {Rule("data_stale", "data_stale", 0), Rule("execution_tca_error", "tca_errors", 0),
   Rule("order_reject", "order_rejects", 0), Rule("portfolio_drawdown", "drawdown", 5),
   Rule("portfolio_accounting", "linkage_gap", 0), Rule("risk_kill_switch", "kill_blocks", 0),
   Rule("risk_pre_trade_block", "risk_blocks", 0)}

\* A slip: the threshold itself alerts.
RuleBreachesAtThreshold(rule, metric) == metric.value >= rule.threshold

\* _rule_breaches
RuleBreaches(rule, metric) ==
  CASE rule.operator = "gt" -> metric.value > rule.threshold
    [] rule.operator = "gte" -> metric.value >= rule.threshold
    [] rule.operator = "lt" -> metric.value < rule.threshold
    [] rule.operator = "lte" -> metric.value <= rule.threshold
    [] OTHER -> metric.value = rule.threshold

\* build_paper_readiness_observability_report, of reports that belong together.
Alerts(s, t, risks, signals) ==
  LET metrics == Metrics(s, t, risks, signals)
  IN {r \in DefaultRules : r.metric \in DOMAIN metrics /\ RuleBreaches(r, metrics[r.metric])}

\* What a caller may pass as the day's risk events: nothing ties them to the
\* gateway report, and some may be missing.
RiskEvidence == {Restrict(call.batch, kept) : kept \in SUBSET DOMAIN call.batch}
-----------------------------------------------------------------------------
\* A day without an alert is clean whatever risk events were left out: every
\* order was filled and measured against a quote its strategy could see, and
\* the closing state is the replay's or the opening one, never a caller's word.
QuietDayIsClean ==
  \A report \in gateway, s \in session, t \in tca, risks \in RiskEvidence, signals \in SignalSets :
    Alerts(s, t.report, risks, signals) = {} =>
      /\ \A v \in Range(report.events) : IsFill(v)
      /\ \A r \in Range(t.report.rows) : r.quote # {}
      /\ s.source # "explicit_linkage"

\* A dashboard panel and the alert of the same metric never disagree: their
\* thresholds are written down twice.
RoutedMeansBreached ==
  \A s \in session, t \in tca, risks \in RiskEvidence, signals \in SignalSets :
    LET metrics == Metrics(s, t.report, risks, signals)
    IN \A r \in DefaultRules :
         r \in Alerts(s, t.report, risks, signals) <=> IsBreached(metrics[r.metric])
=============================================================================
