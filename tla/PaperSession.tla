---------------------------- MODULE PaperSession ----------------------------
(***************************************************************************)
(* execution/gateway.py and execution/paper.py: a desk runs a batch of     *)
(* risk-checked orders through the paper gateway, has the session and its  *)
(* transaction costs reported, and starts the next day from the balances   *)
(* the session report closed with.  The fills come from EventTimeReplay.   *)
(*                                                                         *)
(* A risk event approves an intent exactly when its decision is one of     *)
(* ApprovedDecisions (RiskCheckEvent's validator); hashes and identifiers  *)
(* are the risk event's id, and an account state's id and hash are the     *)
(* state itself.  Amounts have EventTimeReplay's unit, 1 / Scale^2; costs  *)
(* are twice that, because a quote's mid price may be half a tick.         *)
(*                                                                         *)
(* A list for which some events of a batch were selected keeps their       *)
(* positions: a function from some of 1..n, in that order.                 *)
(***************************************************************************)
EXTENDS Integers, Sequences, FiniteSets, Functions

CONSTANTS
  Markets, CASH, BarSequences, CostModels, Constraints, Opening, Scale,
  Batches,         \* sequences of risk check events
  QuoteSequences,  \* quotes in the order they were delivered
  MaxDays          \* bound on the desk's days

VARIABLES
  desk,     \* balances the desk starts the day with
  booked,   \* Opening and every fill the session reports logged
  trusted,  \* TRUE once a closing state was only the caller's word
  day, stage,
  call,     \* arguments of run_paper_gateway_replay
  gateway,  \* {} or {ExecutionGatewayReport}
  session,  \* {} or {PaperAccountSessionReport}
  tca       \* {} or {PaperTcaReport}

vars == <<desk, booked, trusted, day, stage, call, gateway, session, tca>>

ApprovedDecisions == {"approved", "approved_after_cap", "cancel_reduce_only_approved"}
IsApproved(e) == e.decision \in ApprovedDecisions

\* The approved intents of the first n events.
ApprovedUpTo(batch) ==
  LET upto[n \in 0..Len(batch)] ==
        IF n = 0 THEN <<>>
        ELSE IF IsApproved(batch[n]) THEN Append(upto[n - 1], batch[n].approved)
        ELSE upto[n - 1]
  IN upto

ApprovedIntents(batch) == ApprovedUpTo(batch)[Len(batch)]

Simulator == INSTANCE EventTimeReplay WITH
  IntentSequences <- {ApprovedIntents(b) : b \in Batches},
  bars <- call.bars, intents <- ApprovedIntents(call.batch), cost <- call.cost,
  account <- call.funded, outcome <- stage, state <- gateway

ASSUME SimulatorAssumption ==
  /\ Simulator!OpeningAssumption /\ Simulator!ScaleAssumption
  /\ Simulator!BarsAssumption /\ Simulator!CostModelsAssumption

\* A risk check's id is the hash of all that it says.
RiskEvents == UNION {Range(batch) : batch \in Batches}
ASSUME RiskEventsAssumption ==
  /\ \A batch \in Batches : batch \in Seq(RiskEvents)
  /\ \A e \in RiskEvents :
       e.requested \in Simulator!OrderIntent /\ e.approved \in Simulator!OrderIntent
  /\ \A e, f \in RiskEvents : e.id = f.id => e = f

QuoteEvent == [id : Nat, market : Markets, ts : Int, bid : Nat, ask : Nat]
ASSUME QuotesAssumption == QuoteSequences \subseteq Seq(QuoteEvent)

-----------------------------------------------------------------------------
(* The gateway report. *)

FilledStatuses == {"filled", "partial"}

\* A slip: the results taken in the order of all events, blocked ones counted.
EvidenceOfAll(batch, results, i) == results[IF i <= Len(results) THEN i ELSE Len(results)]

\* _replay_results_by_risk_id: the results come in the order of the approved
\* events and are dealt out to them.
Evidence(batch, results, i) == results[Len(ApprovedUpTo(batch)[i])]

Blocked(e) == Simulator!Unfilled(e.requested, "risk")

\* A result's reference notional, and the rate its cost model adds for spread
\* and slippage.
Reference(r) == IF r.bar = 0 THEN 0 ELSE call.bars[r.bar].price * r.quantity * Scale
Adverse == IF call.cost = {} THEN 0 ELSE (CHOOSE m \in call.cost : TRUE).adverse

\* A slip: the order as requested, before the risk engine's cap.
GatewayOrderRequested(e) == e.requested
GatewayOrder(e) == IF IsApproved(e) THEN e.approved ELSE e.requested

\* make_execution_gateway_lifecycle_event
Lifecycle(batch, results, i) ==
  LET e == batch[i]
      r == IF IsApproved(e) THEN Evidence(batch, results, i) ELSE Blocked(e)
  IN [risk_id |-> e.id, decision |-> e.decision,
      order |-> GatewayOrder(e),
      result_id |-> r.id, status |-> IF IsApproved(e) THEN r.status ELSE "blocked",
      bar |-> r.bar, filled |-> r.quantity, notional |-> r.notional, fee |-> r.fee,
      reference |-> Reference(r) * Scale, spread |-> Reference(r) * Adverse]

\* lifecycle_event_is_consistent_and_deterministic: what the event's own
\* validator refuses.
Consistent(v) ==
  /\ v.status = "blocked" <=> v.decision \notin ApprovedDecisions
  /\ v.status = "filled" => v.filled = v.order.quantity
  /\ v.status = "partial" => v.filled \in 1..(v.order.quantity - 1)
  /\ v.status \notin FilledStatuses =>
       v.filled = 0 /\ v.notional = 0 /\ v.fee = 0 /\ v.spread = 0 /\ v.reference = 0
  /\ v.fee + v.spread > 0 => call.cost # {}

\* replay_risk_approved_market_orders: the approved intents replayed from the
\* desk's balances, when there are any.
Replay(batch) ==
  LET intents == ApprovedIntents(batch)
  IN Simulator!States(call.bars, desk, intents)[Len(intents)]

\* The replay refuses the bars, the intents, or a fill at price zero.
Refused(batch) ==
  /\ ApprovedIntents(batch) # <<>>
  /\ \/ ~ Simulator!SafeBars(call.bars)
     \/ ~ Simulator!SafeIntents(ApprovedIntents(batch))
     \/ \E o \in Range(ApprovedIntents(batch)) :
          Simulator!Unpriceable(Simulator!Attempt(call.bars, o))

\* make_execution_gateway_report
ReportOf(batch, replay) ==
  [events |-> [i \in DOMAIN batch |-> Lifecycle(batch, replay.results, i)],
   final  |-> IF call.funded /\ replay.results # <<>> THEN {replay.balances} ELSE {}]

\* _run_risk_gated_gateway: {} when it raises.
GatewayReports(batch) ==
  IF Refused(batch) THEN {}
  ELSE {report \in {ReportOf(batch, Replay(batch))} :
          \A v \in Range(report.events) : Consistent(v)}

Succeeds(batch) == GatewayReports(batch) # {}

-----------------------------------------------------------------------------
(* The session report. *)

IsFill(v) == v.status \in FilledStatuses

FillLogs(report)      == RestrictValues(report.events, IsFill)
RejectionLogs(report) == RestrictValues(report.events, LAMBDA v : ~ IsFill(v))
Filled(report)        == DOMAIN FillLogs(report) # {}

\* What a caller says of an account state: embedded, linked by id and hash,
\* both or neither.
NoClaim == [embedded |-> {}, linked |-> {}]
Claims(states) ==
  [embedded : {{}} \cup {{s} : s \in states}, linked : {{}} \cup {{s} : s \in states}]

\* _resolve_account_state_identity: {} when it raises.
Resolved(claim) ==
  IF claim.embedded = {} THEN claim.linked
  ELSE IF claim.linked \subseteq claim.embedded THEN claim.embedded ELSE {}

Closing(source, states) == {[source |-> source, final |-> s] : s \in states}

\* A slip: the caller's claim comes before the replay.
ClosingClaimFirst(report, initial, claim) ==
  IF claim # NoClaim THEN Closing("explicit_linkage", Resolved(claim))
  ELSE IF report.final # {} THEN Closing("gateway_replay", report.final)
  ELSE IF Filled(report) THEN {}
  ELSE Closing("unchanged_from_initial", initial.embedded)

\* _resolve_final_account_state: where the closing state comes from, {} when
\* it raises.
ClosingState(report, initial, claim) ==
  IF report.final # {}
  THEN Closing("gateway_replay",
               IF claim.embedded \cup claim.linked \subseteq report.final
               THEN report.final ELSE {})
  ELSE IF Filled(report)
  THEN Closing("explicit_linkage",
               IF claim.embedded \subseteq claim.linked THEN claim.linked ELSE {})
  ELSE IF claim # NoClaim THEN Closing("explicit_linkage", Resolved(claim))
  ELSE Closing("unchanged_from_initial", initial.embedded)

\* The cost make_paper_account_session_report adds up for a fill.
PredictedCost(v) == 2 * (v.fee + v.spread)

Total(list, Of(_)) == SumFunction([i \in DOMAIN list |-> Of(list[i])])

\* make_paper_account_session_report: {} when it raises.
SessionReports(report, initial, claim) ==
  IF Resolved(initial) = {} THEN {}
  ELSE {[source |-> c.source, final |-> c.final, fills |-> FillLogs(report),
         rejections |-> RejectionLogs(report),
         cost |-> Total(FillLogs(report), PredictedCost)]
         : c \in ClosingState(report, initial, claim)}

-----------------------------------------------------------------------------
(* The transaction cost report. *)

\* A slip: max() over the time alone.
PreferredByTime(quotes, i, j) ==
  quotes[j].ts < quotes[i].ts \/ (quotes[j].ts = quotes[i].ts /\ i <= j)

\* quotes[i] comes before quotes[j] in max(): newer, then of greater id, and of
\* two with one key the one delivered first.
Preferred(quotes, i, j) ==
  LET q == quotes[i]  p == quotes[j]
  IN \/ p.ts < q.ts
     \/ p.ts = q.ts /\ p.id < q.id
     \/ p.ts = q.ts /\ p.id = q.id /\ i <= j

\* _arrival_quote_for_event: the newest quote the order could have seen.
ArrivalQuote(v, quotes) ==
  LET past == {i \in DOMAIN quotes : quotes[i].market = v.order.market
                                       /\ quotes[i].ts <= v.order.submitted}
  IN {quotes[i] : i \in {i \in past : \A j \in past : Preferred(quotes, i, j)}}

\* A slip: a sale's cost with a purchase's sign.
AdverseCostOfBuy(v, reference) == 2 * v.notional - reference

\* _adverse_cost
AdverseCost(v, reference) ==
  IF v.order.side = "buy" THEN 2 * v.notional - reference ELSE reference - 2 * v.notional

\* _make_tca_row
TcaRow(v, quotes) ==
  LET quote     == ArrivalQuote(v, quotes)
      reference == IF quote = {} THEN 2 * v.reference
                   ELSE LET q == CHOOSE q \in quote : TRUE
                        IN (q.bid + q.ask) * v.filled * Scale * Scale
  IN [risk_id |-> v.risk_id, quote |-> quote, predicted |-> PredictedCost(v),
      realized |-> 2 * v.fee + AdverseCost(v, reference)]

\* A slip: what the replay left unfilled raises no issue.
NoFillCodeRejectedOnly(status) ==
  CASE status = "blocked" -> {"risk_blocked"} [] status = "rejected" -> {"gateway_rejected"}
    [] OTHER -> {}

NoFillCode(status) ==
  CASE status = "blocked" -> {"risk_blocked"} [] status = "rejected" -> {"gateway_rejected"}
    [] status = "unfilled" -> {"gateway_unfilled"} [] OTHER -> {}

\* The issue an event raises, if any.
IssueCode(v, quotes) ==
  IF v.status \in FilledStatuses
  THEN IF ArrivalQuote(v, quotes) = {} THEN {"missing_arrival_quote"} ELSE {}
  ELSE NoFillCode(v.status)

\* make_paper_tca_report
TcaReport(report, quotes) ==
  LET fills   == RestrictValues(report.events, LAMBDA v : v.status \in FilledStatuses)
      flagged == RestrictValues(report.events, LAMBDA v : IssueCode(v, quotes) # {})
  IN [rows   |-> [i \in DOMAIN fills |-> TcaRow(fills[i], quotes)],
      issues |-> [i \in DOMAIN flagged |->
                    [risk_id |-> flagged[i].risk_id,
                     code |-> CHOOSE c \in IssueCode(flagged[i], quotes) : TRUE]]]

-----------------------------------------------------------------------------
NoCall == [batch |-> <<>>, bars |-> <<>>, cost |-> {}, funded |-> FALSE]

Init ==
  /\ desk = Opening /\ booked = Opening /\ trusted = FALSE
  /\ day = 1 /\ stage = "idle" /\ call = NoCall
  /\ gateway = {} /\ session = {} /\ tca = {}

\* The desk's day begins: its orders and the market data it will see.
Call ==
  /\ stage = "idle"
  /\ \E batch \in Batches, bs \in BarSequences, funded \in BOOLEAN,
        cost \in {{}} \cup {{m} : m \in CostModels} :
       call' = [batch |-> batch, bars |-> bs, cost |-> cost, funded |-> funded]
  /\ stage' = "called"
  /\ UNCHANGED <<desk, booked, trusted, day, gateway, session, tca>>

RunGateway ==
  /\ stage = "called" /\ Succeeds(call.batch)
  /\ gateway' = GatewayReports(call.batch)
  /\ stage' = "reported"
  /\ UNCHANGED <<desk, booked, trusted, day, call, session, tca>>

\* The call raises: there is no report, and the day ends as it began.
GatewayRaises ==
  /\ stage = "called" /\ ~ Succeeds(call.batch)
  /\ stage' = IF day < MaxDays THEN "idle" ELSE "closed"
  /\ day' = IF day < MaxDays THEN day + 1 ELSE day
  /\ call' = NoCall
  /\ UNCHANGED <<desk, booked, trusted, gateway, session, tca>>

\* The caller states the balances the day began with; the report has no way
\* to compare them with the replay's.
ReportSession ==
  /\ stage = "reported" /\ session = {}
  /\ \E report \in gateway :
     \E initial \in Claims({desk}), claim \in Claims({desk, Opening} \cup report.final) :
       \E s \in SessionReports(report, initial, claim) : session' = {s}
  /\ UNCHANGED <<desk, booked, trusted, day, stage, call, gateway, tca>>

ReportTca ==
  /\ stage = "reported" /\ tca = {}
  /\ \E report \in gateway, quotes \in QuoteSequences :
       tca' = {[quotes |-> quotes, report |-> TcaReport(report, quotes)]}
  /\ UNCHANGED <<desk, booked, trusted, day, stage, call, gateway, session>>

\* What a logged fill moved.
Flow(v, a) ==
  IF a = CASH THEN (IF v.order.side = "buy" THEN - v.notional ELSE v.notional) - v.fee
  ELSE IF a # v.order.market THEN 0
  ELSE IF v.order.side = "buy" THEN v.filled ELSE - v.filled

\* The desk closes its books and starts the next day from the report.
CloseDay ==
  /\ stage = "reported"
  /\ \E s \in session, report \in gateway :
       /\ desk' = s.final
       /\ booked' = [a \in Markets \cup {CASH} |->
                       booked[a] + Total(s.fills, LAMBDA v : Flow(v, a))]
       /\ trusted' = (trusted \/ (s.source = "explicit_linkage" /\ report.final = {}))
  /\ stage' = IF day < MaxDays THEN "idle" ELSE "closed"
  /\ day' = IF day < MaxDays THEN day + 1 ELSE day
  /\ call' = NoCall /\ gateway' = {} /\ session' = {} /\ tca' = {}

Next == Call \/ RunGateway \/ GatewayRaises \/ ReportSession \/ ReportTca \/ CloseDay

Spec == Init /\ [][Next]_vars
-----------------------------------------------------------------------------
\* An order never bears another order's outcome: whatever was blocked around
\* it in the batch, its event carries the result of its own approved intent,
\* for the capped quantity and on a bar of its own market.
OwnEvidence ==
  \A report \in gateway : \A i \in DOMAIN report.events :
    LET v == report.events[i]  e == call.batch[i]
    IN IF ~ IsApproved(e) THEN v.filled = 0 /\ v.status = "blocked"
       ELSE /\ v.result_id = e.approved.id
            /\ v.filled <= e.approved.quantity
            /\ v.status \in FilledStatuses => call.bars[v.bar].market = e.approved.market

\* Over any number of days, the fills that session reports logged explain
\* every movement of the desk's balances, unless a closing state was the
\* caller's word because the replay had none.
LogsExplainBalances == ~ trusted => desk = booked

\* The gateway raises only for market data or orders the replay refuses: the
\* lifecycle contracts never refuse an outcome the replay can produce.
OnlyReplayRefuses ==
  stage = "called" /\ ~ Refused(call.batch) => Succeeds(call.batch)

\* The two reports of a day agree, though neither reads the other: a cost row
\* for every logged fill, an issue for every logged rejection, one total.
TcaMatchesSession ==
  \A s \in session, t \in tca :
    /\ [i \in DOMAIN s.fills |-> s.fills[i].risk_id]
         = [i \in DOMAIN t.report.rows |-> t.report.rows[i].risk_id]
    /\ [i \in DOMAIN s.rejections |-> s.rejections[i].risk_id]
         = [i \in {i \in DOMAIN t.report.issues : t.report.issues[i].code # "missing_arrival_quote"}
              |-> t.report.issues[i].risk_id]
    /\ s.cost = Total(t.report.rows, LAMBDA r : r.predicted)

\* A delivery order in which quotes of one market, time and id stay in the
\* order they had: nothing else tells a correction from what it corrects.
KeepsTies(quotes, order) ==
  \A i, j \in DOMAIN quotes :
    LET q == quotes[order[i]]  p == quotes[order[j]]
    IN i < j /\ q.market = p.market /\ q.ts = p.ts /\ q.id = p.id => order[i] < order[j]

\* Late and repeated quotes do not change the cost report: it is the same for
\* every order of delivery that keeps ties, and measures against no quote
\* published after the order was submitted.
QuoteOrderIrrelevant ==
  \A report \in gateway, t \in tca :
    /\ \A order \in Bijection(DOMAIN t.quotes, DOMAIN t.quotes) :
         KeepsTies(t.quotes, order) =>
           TcaReport(report, [i \in DOMAIN t.quotes |-> t.quotes[order[i]]]) = t.report
    /\ \A r \in Range(t.report.rows) : \A q \in r.quote :
         \A v \in Range(report.events) : v.risk_id = r.risk_id => q.ts <= v.order.submitted

\* Where there is no quote, realized and predicted cost are the same number
\* computed two ways: from the fill price, and from the cost model.
FallbackIsNeutral ==
  \A t \in tca : \A r \in Range(t.report.rows) : r.quote = {} => r.realized = r.predicted
=============================================================================
