------------------------------ MODULE AuditTrail ------------------------------
(***************************************************************************)
(* audit/trace.py, audit/replay.py and audit/gate.py: the evidence of a    *)
(* decision is kept, and an auditor later rebuilds every decision from it. *)
(* Decisions come from StrategyDecision, sessions from PaperSession.  What *)
(* keeps the evidence is outside the repository: here it may spoil it.     *)
(*                                                                         *)
(* An artifact's id and hash are its contents; "broken" names those that   *)
(* fail their contract's validators, their own hash among them, when it is *)
(* checked again.  An optional field is a set with at most one element.    *)
(***************************************************************************)
EXTENDS StrategyDecision, Sequences, SequencesExt

CONSTANTS
  Markets, CASH, Constraints, Opening, Scale,
  Cases,       \* what the strategy may be asked: forecast, policy, sizing
  Times,       \* when decisions are made and orders submitted
  Days,        \* what a session trades under and what its report is told
  Policies,    \* AuditGateSamplePolicies
  BLANK,       \* a trace id of white space
  MaxRecords, MaxBatch, MaxDamage,
  MaxSample    \* bound on how many decisions an auditor samples

VARIABLES
  pending,   \* risk-checked orders no session has traded yet
  records,   \* DecisionTraceReplayEvidence in the store
  recorded,  \* the same as they were recorded
  damage     \* how often the store was spoiled

vars == <<pending, records, recorded, damage>>

AtMostOne(S) == \A x, y \in S : x = y

\* An account state is embedded or linked once.
ASSUME DaysAssumption ==
  \A day \in Days : \A said \in {day.initial, day.claim} :
    AtMostOne(said.embedded) /\ AtMostOne(said.linked)

\* Policies and sizing inputs as their contracts have them.
ASSUME CasesAssumption ==
  /\ Times \subseteq Nat
  /\ \A c \in Cases :
       /\ {c.policy.cost, c.policy.max_cost, c.policy.buffer, c.policy.max_uncertainty,
           c.policy.min_edge, c.forecast.uncertainty, c.forecast.ts} \subseteq Nat
       /\ c.forecast.median \subseteq Int
       /\ \A s \in c.sizing : {s.budget, s.drawdown, s.max_drawdown} \subseteq Nat

\* AuditGateSamplePolicy: at least one sample is asked for.
ASSUME PoliciesAssumption ==
  MaxSample \in Nat /\ \A policy \in Policies : policy.minimum \in Nat \ {0}

\* The unit of money is fine enough: a proposed size is never rounded.
ASSUME UnitAssumption ==
  \A c \in Cases : \A s \in c.sizing : Exact(c.forecast, c.policy, s)

Desk(c, d) == INSTANCE PaperSession WITH
  Batches <- {}, BarSequences <- {}, CostModels <- {}, QuoteSequences <- {}, MaxDays <- 1,
  Opening <- d, call <- c, desk <- d, booked <- d, trusted <- FALSE, day <- 1,
  stage <- "called", gateway <- {}, session <- {}, tca <- {}

\* The builders of its reports read neither market data nor balances.
NoMarket == [batch |-> <<>>, bars |-> <<>>, cost |-> {}, funded |-> FALSE]
Book == INSTANCE PaperSession WITH
  Batches <- {}, BarSequences <- {}, CostModels <- {}, QuoteSequences <- {}, MaxDays <- 1,
  call <- NoMarket, desk <- Opening, booked <- Opening, trusted <- FALSE, day <- 1,
  stage <- "called", gateway <- {}, session <- {}, tca <- {}

Approved(risk) == risk.decision \in Book!ApprovedDecisions
The(S) == CHOOSE x \in S : TRUE

-----------------------------------------------------------------------------
(* The artifacts of a session. *)

\* run_paper_gateway_replay, {} when it raises.  The report's hashes cover the
\* bars and the cost model only when the replay ran at all.
Gateways(batch, bars, cost, account) ==
  LET call == [batch |-> batch, bars |-> bars, cost |-> cost, funded |-> account # {}]
      desk == The(account \cup (IF account = {} THEN {Opening} ELSE {}))
      hashed == IF \E e \in Range(batch) : Approved(e) THEN {<<bars, cost>>} ELSE {}
  IN [hashed : {hashed}, report : Desk(call, desk)!GatewayReports(batch)]

\* What _resolve_final_account_state embeds.
EmbeddedFinal(s, initial, claim) ==
  CASE s.source = "gateway_replay" -> {s.final}
    [] s.source = "unchanged_from_initial" -> initial.embedded
    [] OTHER -> claim.embedded

\* make_paper_account_session_report, {} when it raises.
Papers(gateway, initial, claim) ==
  {[gateway |-> gateway, logs |-> s,
    initial |-> [embedded |-> initial.embedded, linked |-> Book!Resolved(initial)],
    final |-> [embedded |-> EmbeddedFinal(s, initial, claim), linked |-> {s.final}]]
     : s \in Book!SessionReports(gateway.report, initial, claim)}

\* make_paper_tca_report
Tca(gateway, quotes) == [gateway |-> gateway, report |-> Book!TcaReport(gateway.report, quotes)]

-----------------------------------------------------------------------------
(* The trace envelope. *)

\* _validate_order_intent_matches_decision
IntentMatches(intent, decision) ==
  /\ intent.trace = decision.trace /\ intent.source = decision.id
  /\ intent.market = decision.market /\ intent.side = "buy"
  /\ intent.quantity = decision.size.quantity
  /\ intent.submitted >= decision.ts
  /\ intent.id = ClientOrderId(decision, intent.submitted)

\* _validate_risk_event_matches_order
RiskMatches(risk, intent) ==
  /\ risk.requested = intent
  /\ Approved(risk) => [risk.approved EXCEPT !.quantity = intent.quantity] = intent

\* _matching_gateway_event: the session's events of this order.
Matching(gateway, risk, decision) ==
  SelectSeq(gateway.report.events,
            LAMBDA v : v.risk_id = risk.id /\ v.order.trace = decision.trace
                       /\ v.order.source = decision.id)

\* _validate_gateway_event_matches_risk_order
GatewayMatches(v, risk) ==
  v.decision = risk.decision /\ v.order = IF Approved(risk) THEN risk.approved ELSE risk.requested

\* _validate_paper_fill_log_matches_gateway and its like: a log repeats its
\* event, a row or an issue of the cost report names its risk check.
LogOf(entry, v) == entry = v
RowOf(row, v) == row.risk_id = v.risk_id

\* _paper_account_ids_for_event, _paper_tca_ids_for_event: what the reports
\* hold of an event.
Logs(v, paper, tca) ==
  [fills      |-> RestrictValues(paper.logs.fills, LAMBDA l : LogOf(l, v)),
   rejections |-> RestrictValues(paper.logs.rejections, LAMBDA l : LogOf(l, v)),
   rows       |-> RestrictValues(tca.report.rows, LAMBDA r : RowOf(r, v)),
   issues     |-> RestrictValues(tca.report.issues, LAMBDA u : RowOf(u, v))]

Some(list) == DOMAIN list # {}
Accounted(v, logs) ==
  IF v.status \in Book!FilledStatuses THEN Some(logs.fills) /\ Some(logs.rows)
  ELSE Some(logs.rejections) /\ Some(logs.issues)

\* make_decision_trace_envelope for an order.
OrderLinked(decision, x) ==
  LET found == Matching(x.gateway, x.risk, decision)
  IN /\ IntentMatches(x.intent, decision) /\ RiskMatches(x.risk, x.intent)
     /\ Len(found) = 1 /\ GatewayMatches(found[1], x.risk)
     /\ x.paper.gateway = x.gateway /\ x.tca.gateway = x.gateway
     /\ Accounted(found[1], Logs(found[1], x.paper, x.tca))

\* _validate_forecast_decision_lineage
Lineage(forecast, decision) ==
  forecast.id = decision.forecast /\ forecast.market = decision.market

\* _build_trace_envelope
Envelope(e, reason, order, logs) ==
  [trace |-> e.decision.trace, forecast |-> e.forecast, decision |-> e.decision,
   reason |-> reason, order |-> order, logs |-> logs]

\* _make_envelope_from_evidence: {} when it raises.  Without an order intent
\* nothing downstream of it is looked at.
Envelopes(e) ==
  IF ~ Lineage(e.forecast, e.decision) THEN {}
  ELSE IF e.intent = {} THEN {Envelope(e, {r}, {}, {}) : r \in NoOrderReason(e.decision)}
  ELSE {Envelope(e, {}, {x}, {Logs(Matching(x.gateway, x.risk, e.decision)[1], x.paper, x.tca)})
         : x \in {x \in [intent : e.intent, risk : e.risk, gateway : e.gateway,
                         paper : e.paper, tca : e.tca] : OrderLinked(e.decision, x)}}

-----------------------------------------------------------------------------
(* The replay of one decision. *)

\* _missing_order_input_blockers
InputMissing(e) ==
  /\ e.intent # {} \/ e.envelope.order # {}
  /\ {} \in {e.intent, e.risk, e.gateway, e.paper, e.tca} \/ e.bars = <<>>

\* The order alone, through a gateway of its own.
Rerun(e) == UNION {Gateways(<<risk>>, e.bars, e.cost, e.account) : risk \in e.risk}

\* A slip: a session opened on a linked state is rebuilt from nothing.
RebuiltEmbedded(paper, gateway) ==
  Papers(gateway, [embedded |-> paper.initial.embedded, linked |-> {}],
         IF gateway.report.final = {} /\ paper.logs.source = "explicit_linkage"
         THEN paper.final ELSE Book!NoClaim)

\* _rebuild_paper_account_report: an embedded state is not linked as well.
Rebuilt(paper, gateway) ==
  LET Claim(said) == IF said.embedded # {} THEN [said EXCEPT !.linked = {}] ELSE said
  IN Papers(gateway, Claim(paper.initial),
            IF gateway.report.final = {} /\ paper.logs.source = "explicit_linkage"
            THEN Claim(paper.final) ELSE Book!NoClaim)

\* _requested_trace_blockers
Misaddressed(trace, e) == {e.trace, e.envelope.trace, e.decision.trace} # {trace}

\* _compare_gateway_reports: reports and, one on each side, their events.
GatewayDiffers(stored, again) ==
  stored # again \/ Len(stored.report.events) # 1 \/ Len(again.report.events) # 1

\* _compare_paper_reports, _compare_tca_reports: identity, hash and records.
ReportDiffers(stored, again) == stored # again

Result(e, status, blockers, rebuilt) ==
  [status |-> status, blockers |-> blockers, evidence |-> e, rebuilt |-> rebuilt]
Failed(e, code) == Result(e, "failed", {code}, {})

\* A slip: the order's status is compared, not the reports' hashes.
ComparedStatuses(e, again) ==
  LET Status(x) == x.gateway.report.events[1].status
      differ == Status(The(e.envelope.order)) # Status(The(again))
  IN Result(e, IF differ THEN "failed" ELSE "passed",
            IF differ THEN {"risk_gateway_replay_mismatch"} ELSE {}, again)

\* The end of replay_decision_trace_by_id: everything rebuilt is compared.
Compared(e, again) ==
  LET stored   == The(e.envelope.order)
      x        == The(again)
      blockers ==
        {c \in {"risk_gateway_replay_mismatch"} : GatewayDiffers(stored.gateway, x.gateway)}
          \cup {c \in {"paper_replay_mismatch"} : ReportDiffers(stored.paper, x.paper)}
          \cup {c \in {"tca_replay_mismatch"} : ReportDiffers(stored.tca, x.tca)}
          \cup {c \in {"tampered_evidence"} : stored # x}
  IN Result(e, IF blockers = {} THEN "passed" ELSE "failed", blockers, again)

\* The artifacts rebuilt from a rerun that link up again.
Relinked(e, gateways, papers) ==
  {x \in [intent : e.intent, risk : e.risk, gateway : gateways, paper : papers,
          tca : {Tca(g, e.quotes) : g \in gateways}] : OrderLinked(e.decision, x)}

\* The steps of a replay once its inputs are checked: each may end it.
AfterRelinking(e, again) ==
  IF again = {} THEN Failed(e, "tca_replay_mismatch") ELSE Compared(e, again)

AfterRebuilding(e, gateways, papers) ==
  IF papers = {} THEN Failed(e, "paper_replay_mismatch")
  ELSE AfterRelinking(e, Relinked(e, gateways, papers))

AfterRerunning(e, gateways) ==
  IF gateways = {} THEN Failed(e, "risk_gateway_replay_mismatch")
  ELSE AfterRebuilding(e, gateways, UNION {Rebuilt(p, g) : p \in e.paper, g \in gateways})

\* replay_decision_trace_by_id on the one evidence record it found.
Replay(trace, e) ==
  IF Misaddressed(trace, e) THEN Failed(e, "mismatched_requested_trace")
  ELSE IF e.broken # {} THEN Failed(e, "tampered_evidence")
  ELSE IF InputMissing(e) THEN Failed(e, "missing_replay_input")
  ELSE IF Envelopes(e) # {e.envelope} THEN Failed(e, "tampered_evidence")
  ELSE IF e.intent = {} THEN Result(e, "no_order", {}, {})
  ELSE AfterRerunning(e, Rerun(e))

\* resolve_trace_evidence: the records filed under a trace id.
Filed(trace) == {i \in DOMAIN records : records[i].trace = trace}

\* replay_decision_trace_by_id
ReplayById(trace) ==
  IF Filed(trace) = {} THEN [status |-> "failed", blockers |-> {"missing_trace_id"}]
  ELSE IF Cardinality(Filed(trace)) > 1
  THEN [status |-> "failed", blockers |-> {"duplicate_trace_evidence"}]
  ELSE Replay(trace, records[The(Filed(trace))])

-----------------------------------------------------------------------------
(* The audit gate. *)

\* A slip: a passed sample needs a fill and a rejection.
SampleIncoherentStrict(r) ==
  CASE r.status = "passed" ->
         \E l \in r.evidence.envelope.logs :
           ~ (Some(l.fills) /\ Some(l.rows) /\ Some(l.rejections) /\ Some(l.issues))
    [] r.status = "no_order" ->
         r.evidence.risk \cup r.evidence.gateway \cup r.evidence.paper \cup r.evidence.tca # {}
    [] OTHER -> FALSE

\* _sample_replay_evidence_error: raised while the sample is made.
SampleIncoherent(r) ==
  CASE r.status = "passed" ->
         \E l \in r.evidence.envelope.logs :
           ~ (Some(l.fills) /\ Some(l.rows)) /\ ~ (Some(l.rejections) /\ Some(l.issues))
    [] r.status = "no_order" ->
         r.evidence.risk \cup r.evidence.gateway \cup r.evidence.paper \cup r.evidence.tca # {}
    [] OTHER -> r.blockers = {}

\* _duplicate_trace_ids, _eligible_unique_trace_ids
Repeated(ids) == \E i, j \in DOMAIN ids : i # j /\ ids[i] = ids[j]
Eligible(ids) == Range(ids) \ {BLANK}

\* A slip: samples are counted, not the traces they are of.
PolicyBrokenCounted(ids, results, policy) ==
  \/ \E i \in DOMAIN ids : ids[i] = BLANK \/ results[i].status = "failed"
  \/ Len(ids) < policy.minimum
  \/ policy.no_order /\ \A i \in DOMAIN ids : results[i].status # "no_order"

\* _gate_blockers: blank, repeated, failed or too few samples.
PolicyBroken(ids, results, policy) ==
  \/ \E i \in DOMAIN ids : ids[i] = BLANK \/ results[i].status = "failed"
  \/ Repeated(ids)
  \/ Cardinality(Eligible(ids)) < policy.minimum
  \/ policy.no_order /\ \A i \in DOMAIN ids : results[i].status # "no_order"

\* run_audit_gate_validation; "replays" holds the replay of every trace asked for.
Gate(ids, policy, replays) ==
  LET results == [i \in DOMAIN ids |-> The({r \in replays : r.asked = ids[i]}).result]
  IN IF \E i \in DOMAIN ids : SampleIncoherent(results[i]) THEN "raised"
     ELSE IF PolicyBroken(ids, results, policy) THEN "failed" ELSE "passed"

-----------------------------------------------------------------------------
Init == pending = <<>> /\ records = <<>> /\ recorded = <<>> /\ damage = 0

\* Spoiling commutes with recording: it is left for last.
Recording == damage = 0 /\ Len(records) + Len(pending) < MaxRecords

Store(new) ==
  /\ records' = records \o new
  /\ recorded' = recorded \o new

NoEvidence ==
  [trace |-> <<>>, forecast |-> {}, decision |-> {}, envelope |-> {}, broken |-> {},
   intent |-> {}, risk |-> {}, gateway |-> {}, paper |-> {}, tca |-> {},
   bars |-> <<>>, cost |-> {}, account |-> {}, quotes |-> <<>>]

Decided(forecast, d) ==
  [NoEvidence EXCEPT !.trace = d.trace, !.forecast = forecast, !.decision = d]

\* The evidence of an order that was traded on a day.
Traded(o, day, g, p) ==
  [Decided(o.forecast, o.decision) EXCEPT
     !.intent = {o.risk.requested}, !.risk = {o.risk}, !.gateway = {g}, !.paper = {p},
     !.tca = {Tca(g, day.quotes)}, !.bars = day.bars, !.cost = day.cost,
     !.account = day.account, !.quotes = day.quotes]

Recorded(e, envelope) == [e EXCEPT !.envelope = envelope]

\* make_decision_trace_envelope for a decision that places no order.
DecideNoOrder ==
  /\ Recording
  /\ \E c \in Cases, ts \in Times :
     \E d \in Decide("run", c.forecast, c.policy, ts, c.sizing) :
     \E envelope \in Envelopes(Decided(c.forecast, d)) :
       Store(<<Recorded(Decided(c.forecast, d), envelope)>>)
  /\ UNCHANGED <<pending, damage>>

\* What the risk engine may answer: as asked, less, or no.
RiskEvents(i) ==
  {[id |-> <<i.id, a[1], a[2]>>, decision |-> a[1], requested |-> i,
    approved |-> [i EXCEPT !.quantity = a[2]]] :
     a \in {<<"approved", i.quantity>>, <<"rejected", i.quantity>>}
             \cup {<<"approved_after_cap", q>> : q \in 1..(i.quantity - 1)}}

\* A decision's order is checked and waits for the session; a batch is sorted
\* by the time of submission.
Submit ==
  /\ Recording /\ Len(pending) < MaxBatch
  /\ \E c \in Cases, ts, submitted \in Times :
     \E d \in Decide("run", c.forecast, c.policy, ts, c.sizing) :
     \E i \in OrderIntents(d, submitted) : \E risk \in RiskEvents(i) :
       /\ \A o \in Range(pending) : o.risk.requested.submitted < submitted
       /\ pending' = Append(pending, [forecast |-> c.forecast, decision |-> d, risk |-> risk])
  /\ UNCHANGED <<records, recorded, damage>>

\* The waiting orders are traded and reported, and each one's evidence is kept.
Session ==
  /\ pending # <<>>
  /\ \E day \in Days :
     \E g \in Gateways([n \in DOMAIN pending |-> pending[n].risk], day.bars, day.cost, day.account) :
     \E p \in Papers(g, day.initial, day.claim) :
       LET new == [n \in DOMAIN pending |-> Traded(pending[n], day, g, p)]
       IN /\ \A n \in DOMAIN new : Envelopes(new[n]) # {}
          /\ Store([n \in DOMAIN new |-> Recorded(new[n], The(Envelopes(new[n])))])
  /\ pending' = <<>>
  /\ UNCHANGED damage

Optional  == {"intent", "risk", "gateway", "paper", "tca", "cost", "account"}
Artifacts == Optional \cup {"forecast", "decision", "envelope", "bars", "quotes"}
Inputs    == {"bars", "cost", "account", "quotes"}

Spoil(i, field, value) == records' = [records EXCEPT ![i][field] = value]

Spoiling ==
  damage < MaxDamage /\ damage' = damage + 1 /\ pending = <<>> /\ UNCHANGED pending

\* Contents changed, and not their hash.
BreakSeal ==
  /\ Spoiling /\ UNCHANGED recorded
  /\ \E i \in DOMAIN records, a \in Artifacts : Spoil(i, "broken", {a})

\* A genuine artifact, or trace id, of another record.
Misfile ==
  /\ Spoiling /\ UNCHANGED recorded
  /\ \E i, j \in DOMAIN records, a \in Artifacts \cup {"trace"} :
       records[i][a] # records[j][a] /\ Spoil(i, a, records[j][a])

Lose ==
  /\ Spoiling /\ UNCHANGED recorded
  /\ \E i \in DOMAIN records : \/ \E a \in Optional : Spoil(i, a, {})
                              \/ \E a \in {"bars", "quotes"} : Spoil(i, a, <<>>)

\* The inputs of a session fetched again, and different.
Refetch ==
  /\ Spoiling /\ UNCHANGED recorded
  /\ \E i \in DOMAIN records, day \in Days, a \in Inputs :
       records[i][a] # day[a] /\ Spoil(i, a, day[a])

\* The same evidence written twice.
WriteAgain ==
  /\ Spoiling
  /\ \E i \in DOMAIN records : /\ records' = Append(records, records[i])
                              /\ recorded' = Append(recorded, recorded[i])

Next == DecideNoOrder \/ Submit \/ Session \/ BreakSeal \/ Misfile \/ Lose \/ Refetch \/ WriteAgain

Spec == Init /\ [][Next]_vars
-----------------------------------------------------------------------------
Outcome(e) ==
  <<e.forecast, e.decision, e.intent, e.risk, e.gateway, e.paper, e.tca>>

\* A replay that passes vouches for what happened: whatever became of the
\* store, the record holds the artifacts it was written with, and its inputs,
\* run again, give the gateway report of the day.  A trace is closed as
\* "no order" only if its decision placed none.
OutcomeReproduced ==
  \A i \in DOMAIN records :
    \A r \in {ReplayById(records[i].trace)} :
      /\ r.status = "passed" =>
           Outcome(records[i]) = Outcome(recorded[i]) /\ r.rebuilt # {}
             /\ \A x \in r.rebuilt : {x.gateway} = recorded[i].gateway
      /\ r.status = "no_order" =>
           records[i].decision = recorded[i].decision /\ recorded[i].intent = {}

\* An untouched record, filed under a trace id of its own.
Genuine(i) == records[i] = recorded[i] /\ Filed(records[i].trace) = {i}

\* The closing state of an unfunded fill both embedded and linked: the linkage
\* is required, and a rebuild drops it.
DoublyClosed(e) ==
  \E p \in e.paper : /\ p.gateway.report.final = {} /\ Some(p.logs.fills)
                      /\ p.final.embedded # {}

Reproduces(i) == ReplayById(records[i].trace).status \in {"passed", "no_order"}

\* What the writing side records the reading side reproduces, when the order
\* was its session's only one: two paths through the code that share no
\* bookkeeping agree on every outcome but the two named here.
SingleOrderReplays ==
  \A i \in DOMAIN records :
    /\ Genuine(i) /\ ~ DoublyClosed(records[i])
    /\ records[i].intent # {} =>
         records[i].bars # <<>> /\ \A g \in records[i].gateway : Len(g.report.events) = 1
    => Reproduces(i)

\* docs/01_project_spec.md: a sampled decision can be reconstructed end to
\* end.  The same of an order that was traded with others.
SampledOrderReplays ==
  \A i \in DOMAIN records :
    Genuine(i) /\ ~ DoublyClosed(records[i]) /\ (records[i].intent # {} => records[i].bars # <<>>)
      => Reproduces(i)

Traces   == {records[i].trace : i \in DOMAIN records} \cup {BLANK}
Requests == UNION {[1..n -> Traces] : n \in 0..MaxSample}
Replays  == {[asked |-> t, result |-> ReplayById(t)] : t \in Traces}

\* The gate passes on evidence only: as many different decisions as its policy
\* asks for, each from a record nothing else is filed with, and untouched in
\* what it says happened.
GateNeedsEvidence ==
  LET replays == Replays IN
  \A ids \in Requests, policy \in Policies :
    Gate(ids, policy, replays) = "passed" =>
      LET sampled == UNION {Filed(t) : t \in Range(ids)}
      IN /\ Cardinality(sampled) >= policy.minimum /\ Cardinality(sampled) = Len(ids)
         /\ \A i \in sampled : Outcome(records[i]) = Outcome(recorded[i]) \/ recorded[i].intent = {}
         /\ policy.no_order => \E i \in sampled : recorded[i].intent = {}

\* The gate raises, where it promises a report, only over a decision without
\* an order that a later artifact was filed with.
GateRaisesOnlyForStray ==
  LET replays == Replays IN
  \A ids \in Requests, policy \in Policies :
    Gate(ids, policy, replays) = "raised" =>
      \E i \in DOMAIN records :
        /\ recorded[i].intent = {}
        /\ records[i].risk \cup records[i].gateway \cup records[i].paper \cup records[i].tca # {}

\* As long as decisions are recorded, one is refused only for what its caller
\* got wrong: a training forecast, one from the future, or no budget to spend
\* on a purchase.
RefusesForCause ==
  Recording =>
    \A c \in Cases, ts \in Times :
      Decide("run", c.forecast, c.policy, ts, c.sizing) = {} =>
        \/ c.forecast.split = "train" \/ ts < c.forecast.ts
        \/ \E s \in c.sizing : s.budget = 0
=============================================================================
