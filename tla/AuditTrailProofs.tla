--------------------------- MODULE AuditTrailProofs ---------------------------
(***************************************************************************)
(* Theorems about AuditTrail: what a decision is refused for, that a       *)
(* replay which passes vouches for what happened, that an order traded     *)
(* alone is reproduced, and what the audit gate's verdict is worth.        *)
(***************************************************************************)
EXTENDS AuditTrail, FiniteSetTheorems, TLAPS

-----------------------------------------------------------------------------
(* Decisions. *)

\* A value that does not breach its threshold leaves some of the budget.
LEMMA SomeHeadroom ==
  ASSUME NEW value \in Nat, NEW threshold \in Nat, ~ Breaches(value, threshold)
  PROVE  /\ Headroom(value, threshold).num \in Nat \ {0}
         /\ Headroom(value, threshold).den \in Nat \ {0}
<1>1. CASE threshold = 0
  <2>1. value = 0
    BY <1>1 DEF Breaches
  <2> QED BY <1>1, <2>1 DEF Headroom
<1>2. CASE threshold # 0
  <2>1. value < threshold
    BY <1>2 DEF Breaches
  <2> QED BY <1>2, <2>1 DEF Headroom
<1> QED BY <1>1, <1>2

LEMMA ProductPositive ==
  ASSUME NEW a \in Nat \ {0}, NEW b \in Nat \ {0}
  PROVE  a * b \in Nat \ {0}
<1> QED OBVIOUS

\* An exact division of something by something is not zero.
LEMMA ExactQuotient ==
  ASSUME NEW a \in Nat \ {0}, NEW b \in Nat \ {0}, a % b = 0
  PROVE  a \div b # 0
<1> QED OBVIOUS

\* A trade with a budget is sized: nothing that passed its threshold takes all.
LEMMA TradeIsSized ==
  ASSUME NEW c \in Cases, NEW s \in c.sizing, s.budget # 0,
         Reason(c.forecast, c.policy, c.sizing) = "trade_positive_net_edge"
  PROVE  Proposed(c.forecast, c.policy, s).status = "proposed"
<1> DEFINE r == Reductions(c.forecast, c.policy, s)
<1>1. /\ c.policy.cost \in Nat /\ c.policy.max_cost \in Nat
      /\ c.policy.max_uncertainty \in Nat /\ c.forecast.uncertainty \in Nat
      /\ s.budget \in Nat /\ s.drawdown \in Nat /\ s.max_drawdown \in Nat
  BY CasesAssumption
<1>2. /\ Classify(c.forecast, c.policy) = "trade_positive_net_edge"
      /\ s.drawdown < s.max_drawdown
  BY <1>1 DEF Reason
<1>3. ~ Breaches(c.policy.cost, c.policy.max_cost)
      /\ ~ Breaches(c.forecast.uncertainty, c.policy.max_uncertainty)
  BY <1>2 DEF Classify
<1>4. ~ Breaches(s.drawdown, s.max_drawdown)
  BY <1>1, <1>2 DEF Breaches
<1>5. \A i \in 1..3 : r[i].num \in Nat \ {0} /\ r[i].den \in Nat \ {0}
  BY <1>1, <1>3, <1>4, SomeHeadroom DEF Reductions
<1> HIDE DEF r
<1>6. Numerator(r, s) \in Nat \ {0}
  <2>1. s.budget * r[1].num \in Nat \ {0}
    BY <1>1, <1>5, ProductPositive
  <2>2. s.budget * r[1].num * r[2].num \in Nat \ {0}
    BY <2>1, <1>5, ProductPositive
  <2> QED BY <2>2, <1>5, ProductPositive DEF Numerator
<1>7. Denominator(r) \in Nat \ {0}
  <2>1. r[1].den * r[2].den \in Nat \ {0}
    BY <1>5, ProductPositive
  <2> QED BY <2>1, <1>5, ProductPositive DEF Denominator
<1>8. Numerator(r, s) % Denominator(r) = 0
  BY UnitAssumption DEF Exact, r
<1>9. Numerator(r, s) \div Denominator(r) # 0
  BY <1>6, <1>7, <1>8, ExactQuotient
<1> QED BY <1>9 DEF Proposed, r

\* What the contract says of a purchase and of any other decision holds of
\* every draft that is not a purchase without a budget.
LEMMA DraftConsistent ==
  ASSUME NEW c \in Cases, NEW ts, \A s \in c.sizing : s.budget # 0
  PROVE  Consistent(Draft("run", c.forecast, c.policy, ts, c.sizing))
<1> DEFINE reason == Reason(c.forecast, c.policy, c.sizing)
           d == Draft("run", c.forecast, c.policy, ts, c.sizing)
<1>1. d.size = Size(reason, c.forecast, c.policy, c.sizing) /\ d.sizing = c.sizing
  BY DEF Draft
<1>2. CASE reason = "trade_positive_net_edge"
  <2>1. d.action = "buy"
    BY <1>2 DEF Draft
  <2>2. d.edge > 0
    <3>1. Classify(c.forecast, c.policy) = "trade_positive_net_edge"
      BY <1>2 DEF Reason
    <3>2. c.forecast.median # {}
      BY <3>1 DEF Classify
    <3>3. ~ (NetEdge(CHOOSE m \in c.forecast.median : TRUE, c.forecast, c.policy)
               <= c.policy.min_edge)
      BY <3>1 DEF Classify
    <3>4. c.policy.min_edge \in Nat
      BY CasesAssumption
    <3>5. d.edge = NetEdge(CHOOSE m \in c.forecast.median : TRUE, c.forecast, c.policy)
      BY <3>2 DEF Draft
    <3>6. NetEdge(CHOOSE m \in c.forecast.median : TRUE, c.forecast, c.policy) \in Int
      <4> DEFINE median == CHOOSE m \in c.forecast.median : TRUE
                 buffer == c.forecast.uncertainty * c.policy.buffer
      <4>1. median \in Int
        BY <3>2, CasesAssumption
      <4>2. c.policy.cost \in Nat /\ c.forecast.uncertainty \in Nat /\ c.policy.buffer \in Nat
        BY CasesAssumption
      <4>3. buffer \in Int
        BY <4>2
      <4>4. NetEdge(median, c.forecast, c.policy) = median - c.policy.cost - buffer
        BY DEF NetEdge
      <4> HIDE DEF median, buffer
      <4>5. NetEdge(median, c.forecast, c.policy) \in Int
        BY <4>1, <4>2, <4>3, <4>4
      <4> QED BY <4>5 DEF median
    <3> QED BY <3>3, <3>4, <3>5, <3>6
  <2>3. ASSUME c.sizing # {} PROVE d.size.status = "proposed"
    <3>1. (CHOOSE s \in c.sizing : TRUE) \in c.sizing
      BY <2>3
    <3>2. d.size = Proposed(c.forecast, c.policy, CHOOSE s \in c.sizing : TRUE)
      BY <1>1, <1>2, <2>3 DEF Size
    <3> QED BY <1>2, <3>1, <3>2, TradeIsSized
  <2> QED BY <1>1, <2>1, <2>2, <2>3 DEF Consistent
<1>3. CASE reason # "trade_positive_net_edge"
  <2>1. d.action = "no_trade"
    BY <1>3 DEF Draft
  <2>2. d.size.notional = 0
    BY <1>1, <1>3 DEF Size, ZeroSize
  <2> QED BY <2>1, <2>2 DEF Consistent
<1> QED BY <1>2, <1>3

\* The contract of a decision (decision_is_consistent_and_deterministic)
\* never refuses what the strategy decides, but for a purchase without a
\* budget: what is refused is refused for what the caller asked.
THEOREM RefusalHasCause == Spec => []RefusesForCause
<1>1. RefusesForCause
  <2> SUFFICES ASSUME NEW c \in Cases, NEW ts \in Times,
                      Decide("run", c.forecast, c.policy, ts, c.sizing) = {},
                      c.forecast.split # "train", ~ (ts < c.forecast.ts),
                      \A s \in c.sizing : s.budget # 0
               PROVE  FALSE
    BY DEF RefusesForCause
  <2>1. Consistent(Draft("run", c.forecast, c.policy, ts, c.sizing))
    BY DraftConsistent
  <2>2. ts >= c.forecast.ts
    BY CasesAssumption
  <2> QED BY <2>1, <2>2 DEF Decide
<1> QED BY <1>1, PTL

-----------------------------------------------------------------------------
(* The replay of one evidence record. *)

OrderChoices(e) ==
  [intent : e.intent, risk : e.risk, gateway : e.gateway, paper : e.paper, tca : e.tca]

\* What an envelope says of the evidence it was made from.
EnvelopeOf(v, e) ==
  /\ v.trace = e.decision.trace /\ v.forecast = e.forecast /\ v.decision = e.decision
  /\ \/ e.intent = {} /\ v.order = {} /\ v.logs = {}
     \/ /\ e.intent # {}
        /\ \E x \in OrderChoices(e) :
             /\ OrderLinked(e.decision, x) /\ v.order = {x}
             /\ v.logs = {Logs(Matching(x.gateway, x.risk, e.decision)[1], x.paper, x.tca)}

LEMMA EnvelopeSays ==
  ASSUME NEW e, NEW v \in Envelopes(e)
  PROVE  EnvelopeOf(v, e)
<1>1. CASE e.intent = {}
  <2>1. PICK r \in NoOrderReason(e.decision) : v = Envelope(e, {r}, {}, {})
    BY <1>1 DEF Envelopes
  <2> QED BY <1>1, <2>1 DEF Envelope, EnvelopeOf
<1>2. CASE e.intent # {}
  <2> DEFINE Said(x) == Logs(Matching(x.gateway, x.risk, e.decision)[1], x.paper, x.tca)
  <2>1. PICK x \in OrderChoices(e) : OrderLinked(e.decision, x) /\ v = Envelope(e, {}, {x}, {Said(x)})
    BY <1>2 DEF Envelopes, OrderChoices
  <2>2. /\ v.trace = e.decision.trace /\ v.forecast = e.forecast /\ v.decision = e.decision
        /\ v.order = {x} /\ v.logs = {Said(x)}
    BY <2>1 DEF Envelope
  <2> QED BY <1>2, <2>1, <2>2 DEF EnvelopeOf
<1> QED BY <1>1, <1>2

\* A replay gets past the checks of its inputs.
Sound(trace, e) ==
  /\ e.trace = trace /\ e.broken = {} /\ ~ InputMissing(e) /\ Envelopes(e) = {e.envelope}

\* A passed replay compared what it rebuilt, and found it equal.
LEMMA PassedCompares ==
  ASSUME NEW trace, NEW e, Replay(trace, e).status = "passed"
  PROVE  LET r == Replay(trace, e)
             stored == The(e.envelope.order)
         IN /\ Sound(trace, e) /\ e.intent # {} /\ r.evidence = e
            /\ r.rebuilt # {} /\ \A x \in r.rebuilt : x.gateway \in Rerun(e)
            /\ stored.gateway = The(r.rebuilt).gateway
<1> DEFINE gateways == Rerun(e)
           papers == UNION {Rebuilt(p, g) : p \in e.paper, g \in gateways}
           again == Relinked(e, gateways, papers)
           stored == The(e.envelope.order)
<1>1. \A code : Failed(e, code).status = "failed"
  BY DEF Failed, Result
<1>2. Result(e, "no_order", {}, {}).status = "no_order"
  BY DEF Result
<1>3. Sound(trace, e) /\ e.intent # {} /\ Replay(trace, e) = AfterRerunning(e, gateways)
  BY <1>1, <1>2 DEF Replay, Sound, Misaddressed
<1>4. /\ again # {} /\ Replay(trace, e) = Compared(e, again)
  <2> HIDE DEF gateways
  <2>1. gateways # {} /\ Replay(trace, e) = AfterRebuilding(e, gateways, papers)
    BY <1>1, <1>3 DEF AfterRerunning
  <2> HIDE DEF papers
  <2>2. papers # {} /\ Replay(trace, e) = AfterRelinking(e, again)
    BY <1>1, <2>1 DEF AfterRebuilding
  <2> HIDE DEF again
  <2> QED BY <1>1, <2>2 DEF AfterRelinking
<1>5. again \subseteq [intent : e.intent, risk : e.risk, gateway : gateways, paper : papers,
                       tca : {Tca(g, e.quotes) : g \in gateways}]
  BY DEF Relinked
<1>6. /\ Compared(e, again).evidence = e /\ Compared(e, again).rebuilt = again
      /\ ~ GatewayDiffers(stored.gateway, The(again).gateway)
  <2> HIDE DEF again
  <2>1. Compared(e, again).evidence = e /\ Compared(e, again).rebuilt = again
    BY DEF Compared, Result
  <2> QED BY <1>4, <2>1 DEF Compared, Result
<1>7. stored.gateway = The(again).gateway
  BY <1>6 DEF GatewayDiffers
<1>8. \A x \in again : x.gateway \in gateways
  BY <1>5
<1> HIDE DEF gateways, papers, again
<1> QED BY <1>3, <1>4, <1>6, <1>7, <1>8 DEF gateways

\* A replay ends as "no order" only where there is none.
LEMMA NoOrderReplayed ==
  ASSUME NEW trace, NEW e, Replay(trace, e).status = "no_order"
  PROVE  Sound(trace, e) /\ e.intent = {} /\ Replay(trace, e).evidence = e
<1>1. \A code : Failed(e, code).status = "failed"
  BY DEF Failed, Result
<1>2. \A again : Compared(e, again).status \in {"passed", "failed"}
  BY DEF Compared, Result
<1>3. \A gateways : AfterRerunning(e, gateways).status \in {"passed", "failed"}
  BY <1>1, <1>2 DEF AfterRerunning, AfterRebuilding, AfterRelinking
<1>4. AfterRerunning(e, Rerun(e)).status # "no_order"
  BY <1>3
<1>5. Sound(trace, e) /\ e.intent = {} /\ Replay(trace, e) = Result(e, "no_order", {}, {})
  BY <1>1, <1>4 DEF Replay, Sound, Misaddressed
<1> QED BY <1>5 DEF Result

\* A failed replay says why.
LEMMA FailureExplained ==
  ASSUME NEW trace, NEW e
  PROVE  /\ Replay(trace, e).status \in {"passed", "no_order", "failed"}
         /\ Replay(trace, e).status = "failed" => Replay(trace, e).blockers # {}
<1> DEFINE Explained(r) == /\ r.status \in {"passed", "no_order", "failed"}
                           /\ r.status = "failed" => r.blockers # {}
<1>1. \A code : Explained(Failed(e, code))
  BY DEF Failed, Result
<1>2. \A again : Explained(Compared(e, again))
  BY DEF Compared, Result
<1>3. Explained(Result(e, "no_order", {}, {}))
  BY DEF Result
<1> HIDE DEF Explained
<1>4. \A gateways : Explained(AfterRerunning(e, gateways))
  BY <1>1, <1>2 DEF AfterRerunning, AfterRebuilding, AfterRelinking
<1>5. Explained(Replay(trace, e))
  BY <1>1, <1>3, <1>4 DEF Replay
<1> QED BY <1>5 DEF Explained

-----------------------------------------------------------------------------
(* What the store holds. *)

Fields == DOMAIN NoEvidence

Downstream == {"risk", "gateway", "paper", "tca"}

Undone(e) == e.intent = {} /\ \A f \in Downstream : e[f] = {}

\* The evidence of the n-th order of a batch that was traded on a day.
TradedIn(e, day, batch, n, g, p) ==
  /\ n \in DOMAIN batch
  /\ g \in Gateways(batch, day.bars, day.cost, day.account)
  /\ p \in Papers(g, day.initial, day.claim)
  /\ e.intent = {batch[n].requested} /\ e.risk = {batch[n]}
  /\ e.gateway = {g} /\ e.paper = {p} /\ e.tca = {Tca(g, day.quotes)}
  /\ e.bars = day.bars /\ e.cost = day.cost /\ e.account = day.account /\ e.quotes = day.quotes

IsBatch(batch) == \E k \in Nat : batch = [n \in 1..k |-> batch[n]]

TradedSome(e) ==
  \E day \in Days : \E batch, n, g, p : IsBatch(batch) /\ TradedIn(e, day, batch, n, g, p)

\* A record as it is written.
Written(e) ==
  /\ DOMAIN e = Fields /\ e.broken = {} /\ e.trace = e.decision.trace
  /\ e.envelope \in Envelopes(e)
  /\ Undone(e) \/ TradedSome(e)

\* What became of one in the store: at most one field is another.
Spoiled(e, written) ==
  \/ e = written
  \/ \E f \in Fields : \E v :
       /\ e = [written EXCEPT ![f] = v]
       /\ f = "broken" => v # {}
       /\ f \in Downstream \cup {"intent"} => AtMostOne(v)

Stored(list) == \E S : list \in Seq(S)

\* Whatever happened to the store, what was recorded is as it was written; and
\* after one fault what is stored is that, spoiled once.
StoreInv ==
  /\ Stored(pending) /\ Stored(records) /\ Stored(recorded)
  /\ Len(recorded) = Len(records)
  /\ damage \in Nat /\ (damage = 0 => records = recorded)
  /\ MaxDamage \in {0, 1} => damage <= 1
  /\ \A i \in DOMAIN records :
       Written(recorded[i]) /\ (damage <= 1 => Spoiled(records[i], recorded[i]))

LEMMA EvidenceFields ==
  /\ Fields = {"trace", "forecast", "decision", "envelope", "broken", "intent", "risk",
               "gateway", "paper", "tca", "bars", "cost", "account", "quotes"}
  /\ Downstream \subseteq Fields /\ Artifacts \cup {"trace", "broken"} = Fields
<1> QED BY DEF Fields, NoEvidence, Downstream, Artifacts, Optional

LEMMA TheIn == ASSUME NEW S, S # {} PROVE The(S) \in S
<1> QED BY DEF The

\* The artifacts of a record are single.
LEMMA WrittenSingle ==
  ASSUME NEW e, Written(e), NEW f \in Downstream \cup {"intent"}
  PROVE  AtMostOne(e[f])
<1>1. CASE Undone(e)
  BY <1>1 DEF Undone, AtMostOne
<1>2. CASE TradedSome(e)
  <2>1. ASSUME NEW day, NEW batch, NEW n, NEW g, NEW p, TradedIn(e, day, batch, n, g, p)
        PROVE  /\ AtMostOne(e.intent) /\ AtMostOne(e.risk) /\ AtMostOne(e.gateway)
               /\ AtMostOne(e.paper) /\ AtMostOne(e.tca)
    BY <2>1 DEF TradedIn, AtMostOne
  <2>2. /\ AtMostOne(e.intent) /\ AtMostOne(e.risk) /\ AtMostOne(e.gateway)
        /\ AtMostOne(e.paper) /\ AtMostOne(e.tca)
    BY <1>2, <2>1 DEF TradedSome
  <2> QED BY <2>2 DEF Downstream
<1> QED BY <1>1, <1>2 DEF Written

\* Lists behind one another.
LEMMA Appended ==
  ASSUME NEW list, Stored(list), NEW more, Stored(more)
  PROVE  /\ Stored(list \o more) /\ Len(list) \in Nat /\ Len(more) \in Nat
         /\ DOMAIN list = 1..Len(list) /\ DOMAIN more = 1..Len(more)
         /\ Len(list \o more) = Len(list) + Len(more)
         /\ DOMAIN (list \o more) = 1..Len(list \o more)
         /\ \A i \in DOMAIN (list \o more) :
              \/ i \in DOMAIN list /\ (list \o more)[i] = list[i]
              \/ i - Len(list) \in DOMAIN more /\ (list \o more)[i] = more[i - Len(list)]
<1>1. PICK S : list \in Seq(S)
  BY DEF Stored
<1>2. PICK T : more \in Seq(T)
  BY DEF Stored
<1>3. list \in Seq(S \cup T) /\ more \in Seq(S \cup T)
  BY <1>1, <1>2
<1>4. list \o more \in Seq(S \cup T)
  BY <1>3
<1>5. Len(list \o more) = Len(list) + Len(more) /\ Len(list) \in Nat /\ Len(more) \in Nat
  BY <1>3
<1>6. \A i \in 1..(Len(list) + Len(more)) :
        (list \o more)[i] = IF i <= Len(list) THEN list[i] ELSE more[i - Len(list)]
  BY <1>3
<1>7. DOMAIN (list \o more) = 1..(Len(list) + Len(more))
      /\ DOMAIN list = 1..Len(list) /\ DOMAIN more = 1..Len(more)
  BY <1>3, <1>4, <1>5
<1> QED BY <1>4, <1>5, <1>6, <1>7 DEF Stored

\* Records behind the others keep the invariant when they are as it wants them.
LEMMA StoreKeeps ==
  ASSUME StoreInv, NEW new, Stored(new), NEW was, Stored(was), Len(was) = Len(new),
         \A n \in DOMAIN new : Written(was[n]) /\ (damage' <= 1 => Spoiled(new[n], was[n])),
         records' = records \o new, recorded' = recorded \o was, Stored(pending'),
         damage' \in Nat, damage <= damage', damage' = 0 => new = was,
         MaxDamage \in {0, 1} => damage' <= 1
  PROVE  StoreInv'
<1>1. /\ Stored(records') /\ Stored(recorded') /\ Len(recorded') = Len(records')
  BY Appended DEF StoreInv
<1>2. damage' = 0 => records' = recorded'
  BY DEF StoreInv
<1>3. /\ DOMAIN records' = 1..Len(records') /\ DOMAIN recorded' = 1..Len(recorded')
      /\ DOMAIN records = 1..Len(records) /\ DOMAIN recorded = 1..Len(recorded)
      /\ DOMAIN new = 1..Len(new) /\ DOMAIN was = 1..Len(was) /\ Len(records) \in Nat
  BY Appended DEF StoreInv
<1>4. ASSUME NEW i \in DOMAIN records'
      PROVE  Written(recorded'[i]) /\ (damage' <= 1 => Spoiled(records'[i], recorded'[i]))
  <2>1. \/ i \in DOMAIN records /\ records'[i] = records[i]
        \/ i - Len(records) \in DOMAIN new /\ records'[i] = new[i - Len(records)]
    <3>1. Stored(records) /\ i \in DOMAIN (records \o new)
      BY DEF StoreInv
    <3>2. \A k \in DOMAIN (records \o new) :
            \/ k \in DOMAIN records /\ (records \o new)[k] = records[k]
            \/ k - Len(records) \in DOMAIN new /\ (records \o new)[k] = new[k - Len(records)]
      BY <3>1, Appended
    <3> QED BY <3>1, <3>2
  <2>2. DOMAIN recorded' = DOMAIN records' /\ DOMAIN recorded = DOMAIN records
        /\ DOMAIN was = DOMAIN new /\ Len(records) = Len(recorded)
    BY <1>1, <1>3 DEF StoreInv
  <2>3. \/ i \in DOMAIN recorded /\ recorded'[i] = recorded[i]
        \/ i - Len(recorded) \in DOMAIN was /\ recorded'[i] = was[i - Len(recorded)]
    <3>1. Stored(recorded) /\ i \in DOMAIN (recorded \o was)
      BY <2>2 DEF StoreInv
    <3>2. \A k \in DOMAIN (recorded \o was) :
            \/ k \in DOMAIN recorded /\ (recorded \o was)[k] = recorded[k]
            \/ k - Len(recorded) \in DOMAIN was /\ (recorded \o was)[k] = was[k - Len(recorded)]
      BY <3>1, Appended
    <3> QED BY <3>1, <3>2
  <2>4. CASE i \in DOMAIN records
    <3>1. records'[i] = records[i] /\ recorded'[i] = recorded[i]
      BY <1>3, <2>1, <2>2, <2>3, <2>4
    <3>2. damage' <= 1 => damage <= 1
      BY DEF StoreInv
    <3> QED BY <2>4, <3>1, <3>2 DEF StoreInv
  <2>5. CASE i \notin DOMAIN records
    BY <2>1, <2>2, <2>3, <2>5
  <2> QED BY <2>4, <2>5
<1> QED BY <1>1, <1>2, <1>4 DEF StoreInv, Stored

\* What is written now is stored as it is written.
LEMMA WriteKeeps ==
  ASSUME StoreInv, NEW new, Stored(new), \A n \in DOMAIN new : Written(new[n]), Store(new),
         damage' = damage, Stored(pending')
  PROVE  StoreInv'
<1>1. \A n \in DOMAIN new : Spoiled(new[n], new[n])
  BY DEF Spoiled
<1>2. damage' \in Nat /\ damage <= damage' /\ (MaxDamage \in {0, 1} => damage' <= 1)
  BY DEF StoreInv
<1> QED BY <1>1, <1>2, StoreKeeps DEF Store

\* An envelope says nothing of the envelope that was filed.
LEMMA RecordedWritten ==
  ASSUME NEW e, DOMAIN e = Fields, e.broken = {}, e.trace = e.decision.trace,
         NEW v \in Envelopes(e), Undone(e) \/ TradedSome(e)
  PROVE  Written(Recorded(e, v))
<1> DEFINE w == Recorded(e, v)
<1>1. /\ DOMAIN w = Fields /\ w.envelope = v /\ w.broken = e.broken /\ w.trace = e.trace
      /\ w.forecast = e.forecast /\ w.decision = e.decision /\ w.intent = e.intent
      /\ w.risk = e.risk /\ w.gateway = e.gateway /\ w.paper = e.paper /\ w.tca = e.tca
      /\ w.bars = e.bars /\ w.cost = e.cost /\ w.account = e.account /\ w.quotes = e.quotes
  BY EvidenceFields DEF Recorded
<1> HIDE DEF w
<1>2. Envelopes(w) = Envelopes(e)
  BY <1>1 DEF Envelopes, Envelope
<1>3. Undone(e) => Undone(w)
  BY <1>1 DEF Undone, Downstream
<1>4. \A day, batch, n, g, p : TradedIn(e, day, batch, n, g, p) => TradedIn(w, day, batch, n, g, p)
  BY <1>1 DEF TradedIn
<1>5. TradedSome(e) => TradedSome(w)
  BY <1>4 DEF TradedSome
<1> QED BY <1>1, <1>2, <1>3, <1>5 DEF Written, w

LEMMA StoredTuple == ASSUME NEW x PROVE Stored(<<x>>) /\ DOMAIN <<x>> = 1..1 /\ <<x>>[1] = x
<1>1. <<x>> \in Seq({x})
  OBVIOUS
<1>2. Stored(<<x>>)
  BY <1>1 DEF Stored
<1>3. Len(<<x>>) = 1 /\ <<x>>[1] = x
  OBVIOUS
<1>4. DOMAIN <<x>> = 1..1
  BY <1>1, <1>3
<1> QED BY <1>2, <1>3, <1>4

LEMMA AppendedOne == ASSUME NEW list, Stored(list), NEW x PROVE Append(list, x) = list \o <<x>>
<1>1. PICK S : list \in Seq(S)
  BY DEF Stored
<1>2. list \in Seq(S \cup {x}) /\ x \in S \cup {x}
  BY <1>1
<1> QED BY <1>2

LEMMA DecideNoOrderKeeps == ASSUME StoreInv, DecideNoOrder PROVE StoreInv'
<1>1. PICK c \in Cases, ts \in Times : 
             \E d \in Decide("run", c.forecast, c.policy, ts, c.sizing) :
             \E v \in Envelopes(Decided(c.forecast, d)) :
               Store(<<Recorded(Decided(c.forecast, d), v)>>)
  BY DEF DecideNoOrder
<1>6. PICK d \in Decide("run", c.forecast, c.policy, ts, c.sizing) :
             \E v \in Envelopes(Decided(c.forecast, d)) :
               Store(<<Recorded(Decided(c.forecast, d), v)>>)
  BY <1>1
<1> DEFINE e == Decided(c.forecast, d)
<1>2. PICK v \in Envelopes(e) : Store(<<Recorded(e, v)>>)
  BY <1>6
<1>3. DOMAIN e = Fields /\ e.broken = {} /\ e.trace = e.decision.trace /\ Undone(e)
  BY DEF Decided, NoEvidence, Fields, Undone, Downstream
<1>4. Written(Recorded(e, v))
  BY <1>2, <1>3, RecordedWritten
<1>5. damage' = damage /\ pending' = pending
  BY DEF DecideNoOrder
<1> HIDE DEF e
<1> QED BY <1>2, <1>4, <1>5, WriteKeeps, StoredTuple DEF e, StoreInv

LEMMA SessionKeeps == ASSUME StoreInv, Session PROVE StoreInv'
<1> DEFINE k == Len(pending)
           risks == [n \in DOMAIN pending |-> pending[n].risk]
<1>1. PICK day \in Days :
             \E g \in Gateways(risks, day.bars, day.cost, day.account) :
             \E p \in Papers(g, day.initial, day.claim) :
               LET new == [n \in DOMAIN pending |-> Traded(pending[n], day, g, p)]
               IN /\ \A n \in DOMAIN new : Envelopes(new[n]) # {}
                  /\ Store([n \in DOMAIN new |-> Recorded(new[n], The(Envelopes(new[n])))])
  BY DEF Session
<1>2. PICK g \in Gateways(risks, day.bars, day.cost, day.account) :
             \E p \in Papers(g, day.initial, day.claim) :
               LET new == [n \in DOMAIN pending |-> Traded(pending[n], day, g, p)]
               IN /\ \A n \in DOMAIN new : Envelopes(new[n]) # {}
                  /\ Store([n \in DOMAIN new |-> Recorded(new[n], The(Envelopes(new[n])))])
  BY <1>1
<1>3. PICK p \in Papers(g, day.initial, day.claim) :
               LET new == [n \in DOMAIN pending |-> Traded(pending[n], day, g, p)]
               IN /\ \A n \in DOMAIN new : Envelopes(new[n]) # {}
                  /\ Store([n \in DOMAIN new |-> Recorded(new[n], The(Envelopes(new[n])))])
  BY <1>2
<1> DEFINE Of(n) == Traded(pending[n], day, g, p)
           new == [n \in DOMAIN pending |-> Recorded(Of(n), The(Envelopes(Of(n))))]
<1>4. (\A n \in DOMAIN pending : Envelopes(Of(n)) # {}) /\ Store(new)
  BY <1>3
<1>5. k \in Nat /\ DOMAIN pending = 1..k
  BY Appended DEF StoreInv
<1>6. ASSUME NEW n \in DOMAIN pending PROVE Written(new[n])
  <2>1. /\ DOMAIN Of(n) = Fields /\ Of(n).broken = {}
        /\ Of(n).trace = Of(n).decision.trace
    BY DEF Traded, Decided, NoEvidence, Fields
  <2>2. TradedIn(Of(n), day, risks, n, g, p)
    BY <1>2, <1>3 DEF Traded, Decided, NoEvidence, TradedIn
  <2>3. IsBatch(risks)
    BY <1>5 DEF IsBatch
  <2>4. TradedSome(Of(n))
    <3> HIDE DEF Of, risks
    <3> QED BY <2>2, <2>3 DEF TradedSome
  <2>5. The(Envelopes(Of(n))) \in Envelopes(Of(n))
    BY <1>4, TheIn
  <2> HIDE DEF Of
  <2> QED BY <2>1, <2>4, <2>5, RecordedWritten
<1>7. Stored(new)
  <2>1. new \in [1..k -> {new[n] : n \in 1..k}]
    BY <1>5
  <2> HIDE DEF new
  <2>2. new \in Seq({new[n] : n \in 1..k})
    BY <1>5, <2>1
  <2> QED BY <2>2 DEF Stored
<1>8. damage' = damage /\ pending' = <<>> /\ <<>> \in Seq({})
  BY DEF Session
<1>9. DOMAIN new = DOMAIN pending
  OBVIOUS
<1> HIDE DEF new, k
<1> QED BY <1>4, <1>6, <1>7, <1>8, <1>9, WriteKeeps DEF StoreInv, Stored

\* Another value in one field of one record.
LEMMA SpoilKeeps ==
  ASSUME StoreInv, damage' = damage + 1, MaxDamage \in {0, 1} => damage' <= 1,
         pending' = pending, recorded' = recorded,
         NEW i \in DOMAIN records, NEW f \in Fields, NEW v, Spoil(i, f, v),
         f = "broken" => v # {},
         damage = 0 /\ f \in Downstream \cup {"intent"} => AtMostOne(v)
  PROVE  StoreInv'
<1>1. PICK S : records \in Seq(S)
  BY DEF StoreInv, Stored
<1> DEFINE e == [records[i] EXCEPT ![f] = v]
<1>2. records' = [records EXCEPT ![i] = e]
  BY DEF Spoil
<1>3. records' \in Seq(S \cup {e})
  <2> HIDE DEF e
  <2> QED BY <1>1, <1>2
<1>4. Len(records') = Len(records) /\ DOMAIN records' = DOMAIN records
  <2> HIDE DEF e
  <2> QED BY <1>1, <1>2
<1>5. damage \in Nat /\ damage' \in Nat /\ damage' # 0 /\ (damage' <= 1 => damage = 0)
  BY DEF StoreInv
<1>6. ASSUME damage' <= 1, NEW j \in DOMAIN records PROVE Spoiled(records'[j], recorded[j])
  <2>1. damage = 0 /\ records = recorded
    BY <1>5, <1>6 DEF StoreInv
  <2>2. CASE j = i
    <3>1. records'[j] = [recorded[j] EXCEPT ![f] = v]
      BY <1>2, <2>1, <2>2
    <3> QED BY <2>1, <3>1 DEF Spoiled
  <2>3. CASE j # i
    BY <1>2, <2>1, <2>3 DEF Spoiled
  <2> QED BY <2>2, <2>3
<1>7. \A j \in DOMAIN records : Written(recorded[j])
  BY DEF StoreInv
<1> QED BY <1>3, <1>4, <1>5, <1>6, <1>7 DEF StoreInv, Stored

LEMMA StoreStep == ASSUME StoreInv, [Next]_vars PROVE StoreInv'
<1> USE EvidenceFields
<1>1. CASE DecideNoOrder
  BY <1>1, DecideNoOrderKeeps
<1>2. CASE Session
  BY <1>2, SessionKeeps
<1>3. CASE Submit
  <2>1. UNCHANGED <<records, recorded, damage>> /\ \E x : pending' = Append(pending, x)
    BY <1>3 DEF Submit
  <2>2. PICK x : pending' = Append(pending, x)
    BY <2>1
  <2>3. Stored(pending')
    <3>1. PICK S : pending \in Seq(S)
      BY DEF StoreInv, Stored
    <3>2. pending' \in Seq(S \cup {x})
      BY <2>2, <3>1
    <3> QED BY <3>2 DEF Stored
  <2> QED BY <2>1, <2>3 DEF StoreInv, Stored
<1>4. ASSUME Spoiling
      PROVE  /\ damage' = damage + 1 /\ (MaxDamage \in {0, 1} => damage' <= 1)
             /\ pending' = pending
  BY <1>4 DEF Spoiling, StoreInv
<1>5. CASE BreakSeal
  <2>1. PICK i \in DOMAIN records, a \in Artifacts : Spoil(i, "broken", {a})
    BY <1>5 DEF BreakSeal
  <2>2. {a} # {} /\ "broken" \in Fields /\ "broken" \notin Downstream \cup {"intent"}
    BY DEF Downstream
  <2> QED BY <1>4, <1>5, <2>1, <2>2, SpoilKeeps DEF BreakSeal
<1>6. CASE Misfile
  <2>1. PICK i, j \in DOMAIN records, a \in Artifacts \cup {"trace"} : Spoil(i, a, records[j][a])
    BY <1>6 DEF Misfile
  <2>2. damage = 0 /\ a \in Downstream \cup {"intent"} => AtMostOne(records[j][a])
    BY WrittenSingle DEF StoreInv
  <2>3. a \in Fields /\ a # "broken"
    BY DEF Artifacts, Optional
  <2> QED BY <1>4, <1>6, <2>1, <2>2, <2>3, SpoilKeeps DEF Misfile
<1>7. CASE Lose
  <2>1. PICK i \in DOMAIN records : \/ \E a \in Optional : Spoil(i, a, {})
                                    \/ \E a \in {"bars", "quotes"} : Spoil(i, a, <<>>)
    BY <1>7 DEF Lose
  <2>2. AtMostOne({})
    BY DEF AtMostOne
  <2>3. CASE \E a \in Optional : Spoil(i, a, {})
    <3>1. PICK a \in Optional : Spoil(i, a, {})
      BY <2>3
    <3>2. a \in Fields /\ a # "broken"
      BY DEF Optional
    <3> QED BY <1>4, <1>7, <2>2, <3>1, <3>2, SpoilKeeps DEF Lose
  <2>4. CASE \E a \in {"bars", "quotes"} : Spoil(i, a, <<>>)
    <3>1. PICK a \in {"bars", "quotes"} : Spoil(i, a, <<>>)
      BY <2>4
    <3>2. a \in Fields /\ a # "broken" /\ a \notin Downstream \cup {"intent"}
      BY DEF Downstream
    <3> QED BY <1>4, <1>7, <3>1, <3>2, SpoilKeeps DEF Lose
  <2> QED BY <2>1, <2>3, <2>4
<1>8. CASE Refetch
  <2>1. PICK i \in DOMAIN records, day \in Days, a \in Inputs : Spoil(i, a, day[a])
    BY <1>8 DEF Refetch
  <2>2. a \in Fields /\ a # "broken" /\ a \notin Downstream \cup {"intent"}
    BY DEF Downstream, Inputs
  <2> QED BY <1>4, <1>8, <2>1, <2>2, SpoilKeeps DEF Refetch
<1>9. CASE WriteAgain
  <2>1. PICK i \in DOMAIN records : /\ records' = Append(records, records[i])
                                    /\ recorded' = Append(recorded, recorded[i])
    BY <1>9 DEF WriteAgain
  <2> DEFINE new == <<records[i]>>
             was == <<recorded[i]>>
  <2>2. records' = records \o new /\ recorded' = recorded \o was
    BY <2>1, AppendedOne DEF StoreInv
  <2>3. /\ Stored(new) /\ Stored(was) /\ Len(was) = Len(new)
        /\ DOMAIN new = 1..1 /\ new[1] = records[i] /\ was[1] = recorded[i]
    BY StoredTuple
  <2>4. /\ damage \in Nat /\ damage' \in Nat /\ damage <= damage' /\ damage' # 0
        /\ damage' <= 1 => damage <= 1
        /\ MaxDamage \in {0, 1} => damage' <= 1
    BY <1>4, <1>9 DEF WriteAgain, StoreInv
  <2>5. ASSUME NEW n \in DOMAIN new
        PROVE  Written(was[n]) /\ (damage' <= 1 => Spoiled(new[n], was[n]))
    <3>1. n = 1
      BY <2>3
    <3>2. Written(recorded[i]) /\ (damage' <= 1 => Spoiled(records[i], recorded[i]))
      BY <2>4 DEF StoreInv
    <3> QED BY <2>3, <3>1, <3>2
  <2>6. Stored(pending')
    BY <1>4, <1>9 DEF WriteAgain, StoreInv
  <2>7. damage' = 0 => new = was
    BY <2>4
  <2> HIDE DEF new, was
  <2> QED BY <2>2, <2>3, <2>4, <2>5, <2>6, <2>7, StoreKeeps
<1>10. CASE UNCHANGED vars
  BY <1>10 DEF vars, StoreInv, Stored
<1> QED BY <1>1, <1>2, <1>3, <1>5, <1>6, <1>7, <1>8, <1>9, <1>10 DEF Next

LEMMA StoreAlways == Spec => []StoreInv
<1>1. Init => StoreInv
  <2>1. <<>> \in Seq({}) /\ DOMAIN <<>> = {} /\ Len(<<>>) = 0
    OBVIOUS
  <2> QED BY <2>1 DEF Init, StoreInv, Stored
<1>2. StoreInv /\ [Next]_vars => StoreInv'
  BY StoreStep
<1> QED BY <1>1, <1>2, PTL DEF Spec

-----------------------------------------------------------------------------
(* What a replay vouches for. *)

Single == Downstream \cup {"intent"}

LEMMA SpoiledSingle ==
  ASSUME NEW w, Written(w), NEW e, Spoiled(e, w), NEW f \in Single
  PROVE  AtMostOne(e[f])
<1>1. AtMostOne(w[f])
  BY WrittenSingle DEF Single
<1>2. CASE e = w
  BY <1>1, <1>2
<1>3. CASE e # w
  <2>0. PICK g \in Fields : \E v : e = [w EXCEPT ![g] = v] /\ (g \in Single => AtMostOne(v))
    BY <1>3 DEF Spoiled, Single
  <2>1. PICK v : e = [w EXCEPT ![g] = v] /\ (g \in Single => AtMostOne(v))
    BY <2>0
  <2>2. e[f] = w[f] \/ (f = g /\ e[f] = v)
    BY <2>1, EvidenceFields DEF Written
  <2> QED BY <1>1, <2>1, <2>2
<1> QED BY <1>2, <1>3

\* Two sets with one common member, and no other.
LEMMA SameSingleton ==
  ASSUME NEW S, NEW T, AtMostOne(S), AtMostOne(T), NEW x, x \in S, x \in T
  PROVE  S = T /\ S = {x}
<1> QED BY DEF AtMostOne

\* What an envelope was made from is what it is made from again.
LEMMA EnvelopeDetermines ==
  ASSUME NEW w, NEW e, NEW v, EnvelopeOf(v, w), EnvelopeOf(v, e),
         \A f \in Single : AtMostOne(w[f]) /\ AtMostOne(e[f])
  PROVE  /\ e.forecast = w.forecast /\ e.decision = w.decision
         /\ e.intent = {} <=> w.intent = {}
         /\ e.intent # {} => Outcome(e) = Outcome(w)
<1>1. e.forecast = w.forecast /\ e.decision = w.decision
  BY DEF EnvelopeOf
<1>2. e.intent = {} <=> w.intent = {}
  BY DEF EnvelopeOf
<1>3. ASSUME e.intent # {} PROVE Outcome(e) = Outcome(w)
  <2>1. PICK x \in OrderChoices(e) : v.order = {x}
    BY <1>3 DEF EnvelopeOf
  <2>2. PICK y \in OrderChoices(w) : v.order = {y}
    BY <1>2, <1>3 DEF EnvelopeOf
  <2>3. x \in OrderChoices(w)
    BY <2>1, <2>2
  <2>4. /\ x.intent \in e.intent /\ x.risk \in e.risk /\ x.gateway \in e.gateway
        /\ x.paper \in e.paper /\ x.tca \in e.tca
    BY DEF OrderChoices
  <2>5. /\ x.intent \in w.intent /\ x.risk \in w.risk /\ x.gateway \in w.gateway
        /\ x.paper \in w.paper /\ x.tca \in w.tca
    BY <2>3 DEF OrderChoices
  <2>6. /\ AtMostOne(w.intent) /\ AtMostOne(w.risk) /\ AtMostOne(w.gateway)
        /\ AtMostOne(w.paper) /\ AtMostOne(w.tca)
        /\ AtMostOne(e.intent) /\ AtMostOne(e.risk) /\ AtMostOne(e.gateway)
        /\ AtMostOne(e.paper) /\ AtMostOne(e.tca)
    BY DEF Single, Downstream
  <2>7. /\ e.intent = w.intent /\ e.risk = w.risk /\ e.gateway = w.gateway
        /\ e.paper = w.paper /\ e.tca = w.tca
    BY <2>4, <2>5, <2>6, SameSingleton
  <2> QED BY <1>1, <2>7 DEF Outcome
<1> QED BY <1>1, <1>2, <1>3

\* A record whose replay gets past the checks of its inputs was not spoiled
\* in what it says happened: an envelope filed in place of another is found
\* to be another, and any other artifact is not the one the envelope names.
LEMMA SoundIsUnspoiled ==
  ASSUME NEW w, Written(w), NEW e, Spoiled(e, w), NEW trace, Sound(trace, e)
  PROVE  /\ e.decision = w.decision /\ (e.intent = {} <=> w.intent = {})
         /\ e.intent # {} => Outcome(e) = Outcome(w)
<1>1. CASE e.envelope = w.envelope
  <2>1. EnvelopeOf(w.envelope, w)
    BY EnvelopeSays DEF Written
  <2>2. EnvelopeOf(w.envelope, e)
    BY <1>1, EnvelopeSays DEF Sound
  <2>3. \A f \in Single : AtMostOne(w[f]) /\ AtMostOne(e[f])
    BY SpoiledSingle, WrittenSingle DEF Single
  <2> QED BY <2>1, <2>2, <2>3, EnvelopeDetermines
<1>2. CASE e.envelope # w.envelope
  <2>1. PICK v : e = [w EXCEPT !["envelope"] = v]
    <3>1. PICK f \in Fields : \E v : e = [w EXCEPT ![f] = v]
      BY <1>2 DEF Spoiled
    <3>2. PICK v : e = [w EXCEPT ![f] = v]
      BY <3>1
    <3>3. f = "envelope"
      BY <1>2, <3>2, EvidenceFields DEF Written
    <3> QED BY <3>2, <3>3
  <2>2. /\ e.forecast = w.forecast /\ e.decision = w.decision /\ e.intent = w.intent
        /\ e.risk = w.risk /\ e.gateway = w.gateway /\ e.paper = w.paper /\ e.tca = w.tca
    BY <2>1, EvidenceFields DEF Written
  <2> QED BY <2>2 DEF Outcome
<1> QED BY <1>1, <1>2

\* A session on given market data has at most one gateway report.
LEMMA OneReport ==
  ASSUME NEW batch, NEW bars, NEW cost, NEW account
  PROVE  AtMostOne(Gateways(batch, bars, cost, account))
<1> DEFINE call == [batch |-> batch, bars |-> bars, cost |-> cost, funded |-> account # {}]
           desk == The(account \cup (IF account = {} THEN {Opening} ELSE {}))
<1>1. AtMostOne(Desk(call, desk)!GatewayReports(batch))
  BY DEF AtMostOne, Desk!GatewayReports
<1> HIDE DEF call, desk
<1> QED BY <1>1 DEF Gateways, AtMostOne, call, desk

\* One order, run again alone, gives one gateway report.
LEMMA OneRerun == ASSUME NEW e, AtMostOne(e.risk) PROVE AtMostOne(Rerun(e))
<1> SUFFICES ASSUME NEW x \in Rerun(e), NEW y \in Rerun(e) PROVE x = y
  BY DEF AtMostOne
<1>1. PICK a \in e.risk : x \in Gateways(<<a>>, e.bars, e.cost, e.account)
  BY DEF Rerun
<1>2. PICK b \in e.risk : y \in Gateways(<<b>>, e.bars, e.cost, e.account)
  BY DEF Rerun
<1>3. a = b
  BY DEF AtMostOne
<1> QED BY <1>1, <1>2, <1>3, OneReport DEF AtMostOne

LEMMA RecordVouched ==
  ASSUME NEW w, Written(w), NEW e, Spoiled(e, w), NEW trace
  PROVE  LET r == Replay(trace, e)
         IN /\ r.status = "passed" =>
                 /\ Outcome(e) = Outcome(w) /\ r.rebuilt # {}
                 /\ \A x \in r.rebuilt : {x.gateway} = w.gateway
            /\ r.status = "no_order" => e.decision = w.decision /\ w.intent = {}
<1> DEFINE r == Replay(trace, e)
<1>1. ASSUME r.status = "no_order" PROVE e.decision = w.decision /\ w.intent = {}
  BY <1>1, NoOrderReplayed, SoundIsUnspoiled
<1>2. ASSUME r.status = "passed"
      PROVE  /\ Outcome(e) = Outcome(w) /\ r.rebuilt # {}
             /\ \A x \in r.rebuilt : {x.gateway} = w.gateway
  <2> DEFINE stored == The(e.envelope.order)
  <2>1. /\ Sound(trace, e) /\ e.intent # {} /\ r.rebuilt # {}
        /\ \A x \in r.rebuilt : x.gateway \in Rerun(e)
        /\ stored.gateway = The(r.rebuilt).gateway
    BY <1>2, PassedCompares
  <2>2. Outcome(e) = Outcome(w) /\ e.gateway = w.gateway
    <3>1. Outcome(e) = Outcome(w)
      BY <2>1, SoundIsUnspoiled
    <3> QED BY <3>1 DEF Outcome
  <2>3. stored \in OrderChoices(e)
    <3>1. EnvelopeOf(e.envelope, e)
      BY <2>1, EnvelopeSays DEF Sound
    <3>2. PICK x \in OrderChoices(e) : e.envelope.order = {x}
      BY <2>1, <3>1 DEF EnvelopeOf
    <3> QED BY <3>2 DEF The
  <2>4. stored.gateway \in e.gateway
    BY <2>3 DEF OrderChoices
  <2>5. AtMostOne(e.gateway) /\ AtMostOne(e.risk)
    BY SpoiledSingle DEF Single, Downstream
  <2>6. ASSUME NEW x \in r.rebuilt PROVE x.gateway = stored.gateway
    <3>1. The(r.rebuilt) \in r.rebuilt
      BY <2>1, TheIn
    <3> QED BY <2>1, <2>5, <3>1, OneRerun DEF AtMostOne
  <2>7. w.gateway = {stored.gateway}
    BY <2>2, <2>4, <2>5 DEF AtMostOne
  <2> QED BY <2>1, <2>2, <2>6, <2>7
<1> QED BY <1>1, <1>2

\* resolve_trace_evidence: what is not failed was one record's replay.
LEMMA ByIdReplays ==
  ASSUME StoreInv, NEW trace
  PROVE  LET r == ReplayById(trace)
         IN /\ r.status \in {"passed", "no_order", "failed"}
            /\ r.status = "failed" => r.blockers # {}
            /\ r.status # "failed" =>
                 \E i \in DOMAIN records : /\ Filed(trace) = {i}
                                          /\ r = Replay(trace, records[i])
<1> DEFINE r == ReplayById(trace)
           F == Filed(trace)
<1>1. IsFiniteSet(F) /\ F \subseteq DOMAIN records
  <2>1. DOMAIN records = 1..Len(records) /\ Len(records) \in Nat
    BY Appended DEF StoreInv
  <2>2. F \subseteq 1..Len(records)
    BY <2>1 DEF Filed
  <2>3. IsFiniteSet(1..Len(records))
    BY <2>1, FS_Interval
  <2> HIDE DEF F
  <2>4. IsFiniteSet(F)
    BY <2>2, <2>3, FS_Subset
  <2> QED BY <2>1, <2>2, <2>4
<1>2. CASE F = {} \/ Cardinality(F) > 1
  <2>1. r.status = "failed" /\ r.blockers # {}
    BY <1>2 DEF ReplayById
  <2> QED BY <2>1
<1>3. CASE ~ (F = {} \/ Cardinality(F) > 1)
  <2>1. r = Replay(trace, records[The(F)])
    BY <1>3 DEF ReplayById
  <2>2. F = {The(F)}
    <3> HIDE DEF F
    <3>1. The(F) \in F
      BY <1>3, TheIn
    <3>2. Cardinality(F) = 1
      BY <1>1, <1>3, FS_CardinalityType, FS_EmptySet
    <3>3. PICK x : F = {x}
      BY <1>1, <3>2, FS_Singleton
    <3> QED BY <3>1, <3>3
  <2> HIDE DEF F
  <2>3. The(F) \in DOMAIN records
    BY <1>1, <2>2
  <2> QED BY <2>1, <2>2, <2>3, FailureExplained DEF F
<1> QED BY <1>2, <1>3

LEMMA StoreVouches == MaxDamage \in {0, 1} /\ StoreInv => OutcomeReproduced
<1> SUFFICES ASSUME MaxDamage \in {0, 1}, StoreInv, NEW i \in DOMAIN records
           PROVE  LET r == ReplayById(records[i].trace)
                    IN /\ r.status = "passed" =>
                            Outcome(records[i]) = Outcome(recorded[i]) /\ r.rebuilt # {}
                              /\ \A x \in r.rebuilt : {x.gateway} = recorded[i].gateway
                       /\ r.status = "no_order" =>
                            records[i].decision = recorded[i].decision /\ recorded[i].intent = {}
  BY DEF OutcomeReproduced
<1> DEFINE trace == records[i].trace
           r == ReplayById(trace)
<1>1. CASE r.status = "failed"
  BY <1>1
<1>2. CASE r.status # "failed"
  <2>1. PICK j \in DOMAIN records : Filed(trace) = {j} /\ r = Replay(trace, records[j])
    BY <1>2, ByIdReplays
  <2>2. i \in Filed(trace)
    BY DEF Filed
  <2>3. r = Replay(trace, records[i])
    BY <2>1, <2>2
  <2>4. Written(recorded[i]) /\ Spoiled(records[i], recorded[i])
    BY DEF StoreInv
  <2> HIDE DEF r, trace
  <2>5. /\ r.status = "passed" =>
             /\ Outcome(records[i]) = Outcome(recorded[i]) /\ r.rebuilt # {}
             /\ \A x \in r.rebuilt : {x.gateway} = recorded[i].gateway
        /\ r.status = "no_order" =>
             records[i].decision = recorded[i].decision /\ recorded[i].intent = {}
    BY <2>3, <2>4, RecordVouched
  <2> QED BY <2>5 DEF r, trace
<1> QED BY <1>1, <1>2

\* Whatever a store does to one field of its records, a replay that passes
\* vouches for the artifacts that were recorded, and for a rerun that gives
\* the gateway report of the day (replay_decision_trace_by_id).
THEOREM PassedMeansReproduced == MaxDamage \in {0, 1} => (Spec => []OutcomeReproduced)
<1> SUFFICES ASSUME MaxDamage \in {0, 1} PROVE Spec => []OutcomeReproduced
  OBVIOUS
<1> QED BY StoreVouches, StoreAlways, PTL

-----------------------------------------------------------------------------
(* The audit gate. *)

LEMMA RequestsTyped ==
  ASSUME NEW ids \in Requests
  PROVE  \E n \in Nat : DOMAIN ids = 1..n /\ ids \in [1..n -> Traces] /\ Len(ids) = n
<1>1. PICK n \in 0..MaxSample : ids \in [1..n -> Traces]
  BY DEF Requests
<1>2. n \in Nat /\ ids \in Seq(Traces)
  BY <1>1, PoliciesAssumption
<1> QED BY <1>1, <1>2

\* Each sample is the replay of its trace.
LEMMA ReplayOf ==
  ASSUME NEW trace \in Traces
  PROVE  The({r \in Replays : r.asked = trace}).result = ReplayById(trace)
<1>1. [asked |-> trace, result |-> ReplayById(trace)] \in {r \in Replays : r.asked = trace}
  BY DEF Replays
<1>2. \A r \in Replays : r.asked = trace => r.result = ReplayById(trace)
  BY DEF Replays
<1>3. The({r \in Replays : r.asked = trace}) \in {r \in Replays : r.asked = trace}
  BY <1>1, TheIn
<1> QED BY <1>2, <1>3

\* A sample that passed is accounted for: its envelope was made from linked
\* artifacts, which hold a log of the order.
LEMMA PassedCoherent ==
  ASSUME NEW trace, NEW e, Replay(trace, e).status = "passed"
  PROVE  ~ SampleIncoherent(Replay(trace, e))
<1> DEFINE r == Replay(trace, e)
<1>1. Sound(trace, e) /\ e.intent # {} /\ r.evidence = e
  BY PassedCompares
<1>2. EnvelopeOf(e.envelope, e)
  BY <1>1, EnvelopeSays DEF Sound
<1>3. PICK x \in OrderChoices(e) :
        /\ OrderLinked(e.decision, x)
        /\ e.envelope.logs = {Logs(Matching(x.gateway, x.risk, e.decision)[1], x.paper, x.tca)}
  BY <1>1, <1>2 DEF EnvelopeOf
<1> DEFINE v == Matching(x.gateway, x.risk, e.decision)[1]
           logs == Logs(v, x.paper, x.tca)
<1>4. Accounted(v, logs)
  BY <1>3 DEF OrderLinked
<1>5. \/ Some(logs.fills) /\ Some(logs.rows)
      \/ Some(logs.rejections) /\ Some(logs.issues)
  <2> HIDE DEF logs, v
  <2> QED BY <1>4 DEF Accounted
<1> HIDE DEF logs, r
<1>6. \A l \in r.evidence.envelope.logs :
         (Some(l.fills) /\ Some(l.rows)) \/ (Some(l.rejections) /\ Some(l.issues))
  BY <1>1, <1>3, <1>5 DEF logs
<1>7. r.status = "passed"
  BY DEF r
<1>8. ~ SampleIncoherent(r)
  BY <1>6, <1>7 DEF SampleIncoherent
<1> QED BY <1>8 DEF r

\* The gate (run_audit_gate_validation) raises, instead of reporting, only for
\* a decision without an order that a later artifact was filed with.
LEMMA StoreRaisesOnlyForStray == MaxDamage \in {0, 1} /\ StoreInv => GateRaisesOnlyForStray
<1> SUFFICES ASSUME MaxDamage \in {0, 1}, StoreInv, NEW ids \in Requests, NEW policy \in Policies,
                    Gate(ids, policy, Replays) = "raised"
             PROVE  \E i \in DOMAIN records :
                      /\ recorded[i].intent = {}
                      /\ records[i].risk \cup records[i].gateway
                           \cup records[i].paper \cup records[i].tca # {}
  BY DEF GateRaisesOnlyForStray
<1>1. PICK n \in DOMAIN ids :
        SampleIncoherent(The({r \in Replays : r.asked = ids[n]}).result)
  BY DEF Gate
<1> DEFINE trace == ids[n]
           r == ReplayById(trace)
<1>2. trace \in Traces /\ SampleIncoherent(r)
  BY <1>1, RequestsTyped, ReplayOf
<1> HIDE DEF trace
<1>3. r.status # "failed"
  <2>1. r.status = "failed" => r.blockers # {}
    BY ByIdReplays
  <2> HIDE DEF r
  <2> QED BY <1>2, <2>1 DEF SampleIncoherent
<1>4. PICK i \in DOMAIN records : r = Replay(trace, records[i])
  BY <1>3, ByIdReplays
<1>5. r.status = "no_order"
  BY <1>2, <1>3, <1>4, FailureExplained, PassedCoherent
<1>6. r.evidence = records[i]
  BY <1>4, <1>5, NoOrderReplayed
<1>7. recorded[i].intent = {}
  <2>1. Written(recorded[i]) /\ Spoiled(records[i], recorded[i])
    BY DEF StoreInv
  <2> QED BY <1>4, <1>5, <2>1, RecordVouched
<1> HIDE DEF r
<1>8. records[i].risk \cup records[i].gateway \cup records[i].paper \cup records[i].tca # {}
  BY <1>2, <1>5, <1>6 DEF SampleIncoherent
<1> QED BY <1>7, <1>8

THEOREM RaisesOnlyForStray == MaxDamage \in {0, 1} => (Spec => []GateRaisesOnlyForStray)
<1> SUFFICES ASSUME MaxDamage \in {0, 1} PROVE Spec => []GateRaisesOnlyForStray
  OBVIOUS
<1> QED BY StoreRaisesOnlyForStray, StoreAlways, PTL

LEMMA CountBy ==
  ASSUME NEW n \in Nat, NEW S, NEW f \in [1..n -> S],
         \A x \in S : \E i \in 1..n : f[i] = x,
         \A i, j \in 1..n : f[i] = f[j] => i = j
  PROVE  Cardinality(S) = n
<1>1. f \in Bijection(1..n, S)
  BY DEF Bijection, Injection, Surjection, IsInjective
<1>2. ExistsBijection(1..n, S)
  BY <1>1 DEF ExistsBijection
<1> QED BY <1>2, FS_CountingElements

\* What a gate that passes rests on.
Supported(ids, policy) ==
  LET sampled == UNION {Filed(t) : t \in Range(ids)}
  IN /\ Cardinality(sampled) >= policy.minimum /\ Cardinality(sampled) = Len(ids)
     /\ \A i \in sampled : Outcome(records[i]) = Outcome(recorded[i]) \/ recorded[i].intent = {}
     /\ policy.no_order => \E i \in sampled : recorded[i].intent = {}

\* A gate (run_audit_gate_validation) that passes rests on as many records as
\* its policy asks for, one for each decision sampled, none of them spoiled.
LEMMA StoreGatePassesOnEvidence == MaxDamage \in {0, 1} /\ StoreInv => GateNeedsEvidence
<1> SUFFICES ASSUME MaxDamage \in {0, 1}, StoreInv, NEW ids \in Requests, NEW policy \in Policies,
                    Gate(ids, policy, Replays) = "passed"
             PROVE  Supported(ids, policy)
  BY DEF GateNeedsEvidence, Supported
<1> DEFINE sampled == UNION {Filed(t) : t \in Range(ids)}
           results == [n \in DOMAIN ids |-> The({r \in Replays : r.asked = ids[n]}).result]
<1>1. PICK k \in Nat : DOMAIN ids = 1..k /\ ids \in [1..k -> Traces] /\ Len(ids) = k
  BY RequestsTyped
<1>2. ~ PolicyBroken(ids, results, policy)
  BY DEF Gate
<1>3. /\ \A n \in 1..k : ids[n] # BLANK /\ results[n].status # "failed"
      /\ ~ Repeated(ids) /\ ~ (Cardinality(Eligible(ids)) < policy.minimum)
      /\ policy.no_order => \E n \in 1..k : results[n].status = "no_order"
  <2> HIDE DEF results
  <2> QED BY <1>1, <1>2 DEF PolicyBroken
<1>4. \A n \in 1..k : results[n] = ReplayById(ids[n])
  BY <1>1, ReplayOf
<1> HIDE DEF results
<1>5. \A n \in 1..k : \E i \in DOMAIN records :
         Filed(ids[n]) = {i} /\ ReplayById(ids[n]) = Replay(ids[n], records[i])
  BY <1>3, <1>4, ByIdReplays
<1> DEFINE of == [n \in 1..k |-> CHOOSE i \in DOMAIN records :
                     Filed(ids[n]) = {i} /\ ReplayById(ids[n]) = Replay(ids[n], records[i])]
<1>6. \A n \in 1..k : /\ of[n] \in DOMAIN records /\ Filed(ids[n]) = {of[n]}
                      /\ ReplayById(ids[n]) = Replay(ids[n], records[of[n]])
  BY <1>5
<1>7. of \in [1..k -> DOMAIN records]
  BY <1>6
<1> HIDE DEF of
<1>8. \A n \in 1..k : records[of[n]].trace = ids[n]
  <2>1. \A n \in 1..k : of[n] \in Filed(ids[n])
    BY <1>6
  <2> QED BY <2>1 DEF Filed
<1>9. \A i \in sampled : \E n \in 1..k : of[n] = i
  <2> SUFFICES ASSUME NEW t \in Range(ids), NEW i \in Filed(t)
               PROVE  \E n \in 1..k : of[n] = i
    OBVIOUS
  <2>1. PICK n \in 1..k : t = ids[n]
    BY <1>1 DEF Range
  <2> QED BY <1>6, <2>1
<1>10. ASSUME NEW n \in 1..k PROVE of[n] \in sampled
  <2>1. ids[n] \in Range(ids)
    BY <1>1 DEF Range
  <2>2. of[n] \in Filed(ids[n])
    BY <1>6
  <2> QED BY <2>1, <2>2
<1>11. Cardinality(sampled) = k
  <2>1. of \in [1..k -> sampled]
    BY <1>7, <1>10
  <2>2. \A m, n \in 1..k : of[m] = of[n] => m = n
    BY <1>1, <1>3, <1>8 DEF Repeated
  <2> HIDE DEF sampled
  <2> QED BY <1>9, <2>1, <2>2, CountBy
<1>12. Cardinality(Eligible(ids)) = k
  <2>1. /\ \A n \in 1..k : ids[n] \in Eligible(ids)
        /\ \A x \in Eligible(ids) : \E n \in 1..k : ids[n] = x
    BY <1>1, <1>3 DEF Eligible, Range
  <2>3. ids \in [1..k -> Eligible(ids)]
    BY <1>1, <2>1
  <2>2. \A m, n \in 1..k : ids[m] = ids[n] => m = n
    BY <1>1, <1>3 DEF Repeated
  <2> QED BY <2>1, <2>2, <2>3, CountBy
<1>13. Cardinality(sampled) >= policy.minimum
  BY <1>3, <1>11, <1>12, PoliciesAssumption
<1>14. ASSUME NEW n \in 1..k
       PROVE  LET i == of[n]
              IN /\ \/ Outcome(records[i]) = Outcome(recorded[i])
                    \/ recorded[i].intent = {}
                 /\ results[n].status = "no_order" => recorded[i].intent = {}
  <2> DEFINE i == of[n]
             r == Replay(ids[n], records[i])
  <2>1. results[n] = r /\ r.status \in {"passed", "no_order"}
    BY <1>3, <1>4, <1>6, FailureExplained
  <2>2. Written(recorded[i]) /\ Spoiled(records[i], recorded[i])
    BY <1>6 DEF StoreInv
  <2>3. /\ r.status = "passed" => Outcome(records[i]) = Outcome(recorded[i])
        /\ r.status = "no_order" => recorded[i].intent = {}
    BY <2>2, RecordVouched
  <2> HIDE DEF r, i
  <2> QED BY <2>1, <2>3 DEF i
<1>15. \A i \in sampled : Outcome(records[i]) = Outcome(recorded[i]) \/ recorded[i].intent = {}
  BY <1>9, <1>14
<1>16. policy.no_order => \E i \in sampled : recorded[i].intent = {}
  BY <1>3, <1>10, <1>14
<1> QED BY <1>1, <1>11, <1>13, <1>15, <1>16 DEF Supported

THEOREM GatePassesOnEvidence == MaxDamage \in {0, 1} => (Spec => []GateNeedsEvidence)
<1> SUFFICES ASSUME MaxDamage \in {0, 1} PROVE Spec => []GateNeedsEvidence
  OBVIOUS
<1> QED BY StoreGatePassesOnEvidence, StoreAlways, PTL

-----------------------------------------------------------------------------
(* An order traded alone. *)

LEMMA OneEnvelope ==
  ASSUME NEW e, \A f \in Single : AtMostOne(e[f])
  PROVE  AtMostOne(Envelopes(e))
<1> SUFFICES ASSUME NEW u \in Envelopes(e), NEW v \in Envelopes(e) PROVE u = v
  BY DEF AtMostOne
<1>1. CASE e.intent = {}
  <2>1. AtMostOne(NoOrderReason(e.decision))
    BY DEF NoOrderReason, AtMostOne
  <2> QED BY <1>1, <2>1 DEF Envelopes, AtMostOne
<1>2. CASE e.intent # {}
  <2>1. /\ AtMostOne(e.intent) /\ AtMostOne(e.risk) /\ AtMostOne(e.gateway)
        /\ AtMostOne(e.paper) /\ AtMostOne(e.tca)
    BY DEF Single, Downstream
  <2>2. AtMostOne(OrderChoices(e))
    BY <2>1 DEF OrderChoices, AtMostOne
  <2> DEFINE From(x) == Envelope(e, {}, {x},
                          {Logs(Matching(x.gateway, x.risk, e.decision)[1], x.paper, x.tca)})
  <2>3. PICK x \in OrderChoices(e) : u = From(x)
    BY <1>2 DEF Envelopes, OrderChoices
  <2>4. PICK y \in OrderChoices(e) : v = From(y)
    BY <1>2 DEF Envelopes, OrderChoices
  <2>5. x = y
    BY <2>2 DEF AtMostOne
  <2> QED BY <2>3, <2>4, <2>5
<1> QED BY <1>1, <1>2

\* The lifecycle events of a batch, one for each risk check.
LEMMA ReportShape ==
  ASSUME NEW batch, NEW bars, NEW cost, NEW account,
         NEW g \in Gateways(batch, bars, cost, account)
  PROVE  DOMAIN g.report.events = DOMAIN batch /\ AtMostOne(g.report.final)
         /\ g.report.events = [i \in DOMAIN batch |-> g.report.events[i]]
<1> DEFINE call == [batch |-> batch, bars |-> bars, cost |-> cost, funded |-> account # {}]
           desk == The(account \cup (IF account = {} THEN {Opening} ELSE {}))
<1>1. g.report \in Desk(call, desk)!GatewayReports(batch)
  BY DEF Gateways
<1> HIDE DEF call, desk
<1>2. \E replay : g.report = Desk(call, desk)!ReportOf(batch, replay)
  BY <1>1 DEF Desk!GatewayReports
<1>3. PICK replay : g.report = Desk(call, desk)!ReportOf(batch, replay)
  BY <1>2
<1>4. g.report.events = [i \in DOMAIN batch |-> Desk(call, desk)!Lifecycle(batch, replay.results, i)]
  BY <1>3 DEF Desk!ReportOf
<1>5. AtMostOne(g.report.final)
  BY <1>3 DEF Desk!ReportOf, AtMostOne
<1>6. DOMAIN g.report.events = DOMAIN batch
  BY <1>4
<1>7. g.report.events = [i \in DOMAIN batch |-> g.report.events[i]]
  BY <1>4
<1> QED BY <1>5, <1>6, <1>7

\* A report with one event is that of a batch of one.
LEMMA BatchOfOne ==
  ASSUME NEW batch, IsBatch(batch), NEW n \in DOMAIN batch, NEW bars, NEW cost, NEW account,
         NEW g \in Gateways(batch, bars, cost, account), Len(g.report.events) = 1
  PROVE  batch = <<batch[n]>>
<1>1. PICK k \in Nat : batch = [i \in 1..k |-> batch[i]]
  BY DEF IsBatch
<1>2. DOMAIN batch = 1..k
  BY <1>1
<1> DEFINE events == g.report.events
<1>3. events = [i \in 1..k |-> events[i]]
  BY <1>2, ReportShape
<1> HIDE DEF events
<1>4. Len([i \in 1..k |-> events[i]]) = k
  BY <1>1
<1>5. k = 1
  BY <1>3, <1>4 DEF events
<1>6. n = 1
  BY <1>2, <1>5
<1>7. batch = [i \in 1..1 |-> batch[i]]
  BY <1>1, <1>5
<1>8. <<batch[1]>> = [i \in 1..1 |-> batch[i]]
  OBVIOUS
<1> QED BY <1>6, <1>7, <1>8

\* The session report that one closing state makes.
SessionOf(report, c) ==
  [source |-> c.source, final |-> c.final, fills |-> Book!FillLogs(report),
   rejections |-> Book!RejectionLogs(report),
   cost |-> Book!Total(Book!FillLogs(report), Book!PredictedCost)]

PaperOf(g, initial, claim, s) ==
  [gateway |-> g, logs |-> s,
   initial |-> [embedded |-> initial.embedded, linked |-> Book!Resolved(initial)],
   final |-> [embedded |-> EmbeddedFinal(s, initial, claim), linked |-> {s.final}]]

LEMMA PapersAre ==
  ASSUME NEW g, NEW initial, NEW claim
  PROVE  Papers(g, initial, claim) =
           IF Book!Resolved(initial) = {} THEN {}
           ELSE {PaperOf(g, initial, claim, SessionOf(g.report, c)) :
                   c \in Book!ClosingState(g.report, initial, claim)}
<1> DEFINE sessions == Book!SessionReports(g.report, initial, claim)
           closings == Book!ClosingState(g.report, initial, claim)
<1>1. Papers(g, initial, claim) = {PaperOf(g, initial, claim, s) : s \in sessions}
  BY DEF Papers, PaperOf
<1>2. sessions = IF Book!Resolved(initial) = {} THEN {}
                 ELSE {SessionOf(g.report, c) : c \in closings}
  BY DEF Book!SessionReports, SessionOf
<1> HIDE DEF sessions, closings
<1>3. CASE Book!Resolved(initial) = {}
  BY <1>1, <1>2, <1>3
<1>4. CASE Book!Resolved(initial) # {}
  BY <1>1, <1>2, <1>4 DEF closings
<1> QED BY <1>3, <1>4

\* A state a report embeds or links, as a rebuild hands it in: Claim of Rebuilt.
Handed(said) == IF said.embedded # {} THEN [said EXCEPT !.linked = {}] ELSE said

\* An opening state resolves to the same state when it is rebuilt.
LEMMA OpeningRebuilt ==
  ASSUME NEW initial, Book!Resolved(initial) # {}
  PROVE  LET again == Handed([embedded |-> initial.embedded, linked |-> Book!Resolved(initial)])
         IN again.embedded = initial.embedded /\ Book!Resolved(again) = Book!Resolved(initial)
<1>1. CASE initial.embedded = {}
  BY <1>1 DEF Handed, Book!Resolved
<1>2. CASE initial.embedded # {}
  BY <1>2 DEF Handed, Book!Resolved
<1> QED BY <1>1, <1>2

\* What a rebuild is told of the closing state.
Retold(g, s, final) ==
  IF g.report.final = {} /\ s.source = "explicit_linkage" THEN Handed(final) ELSE Book!NoClaim

\* No place a state is read from holds two.
Unambiguous(g, initial, claim) ==
  /\ AtMostOne(g.report.final) /\ AtMostOne(initial.embedded)
  /\ AtMostOne(claim.embedded) /\ AtMostOne(claim.linked)

\* The closing state is found again from what the report says of it, unless
\* an unfunded fill's was embedded as well as linked.
LEMMA ClosingRebuilt ==
  ASSUME NEW g, NEW initial, NEW claim, Unambiguous(g, initial, claim),
         NEW again, again.embedded = initial.embedded,
         NEW c, c \in Book!ClosingState(g.report, initial, claim),
         g.report.final = {} /\ Book!Filled(g.report) => claim.embedded = {},
         NEW s, s = SessionOf(g.report, c),
         NEW final,
         final = [embedded |-> EmbeddedFinal(s, initial, claim), linked |-> {s.final}],
         NEW told, told = Retold(g, s, final)
  PROVE  /\ Book!ClosingState(g.report, again, told) = {c}
         /\ EmbeddedFinal(s, again, told) = EmbeddedFinal(s, initial, claim)
<1>0. /\ AtMostOne(g.report.final) /\ AtMostOne(initial.embedded)
      /\ AtMostOne(claim.embedded) /\ AtMostOne(claim.linked)
  BY DEF Unambiguous
<1>1. s.source = c.source /\ s.final = c.final
  BY DEF SessionOf
<1>2. ASSUME NEW source, NEW S, AtMostOne(S), c \in Book!Closing(source, S)
      PROVE  /\ c.source = source /\ S = {c.final} /\ c = [source |-> source, final |-> c.final]
             /\ Book!Closing(source, {c.final}) = {c}
  BY <1>2 DEF Book!Closing, AtMostOne
<1>3. CASE g.report.final # {}
  <2>1. c \in Book!Closing("gateway_replay", g.report.final)
    BY <1>3 DEF Book!ClosingState, Book!Closing
  <2>2. c.source = "gateway_replay" /\ g.report.final = {c.final}
        /\ Book!Closing("gateway_replay", {c.final}) = {c}
    BY <1>0, <1>2, <2>1
  <2>3. told = Book!NoClaim
    BY <1>3 DEF Retold
  <2>4. Book!ClosingState(g.report, again, Book!NoClaim) = {c}
    BY <1>3, <2>2 DEF Book!ClosingState, Book!NoClaim
  <2>5. EmbeddedFinal(s, again, told) = EmbeddedFinal(s, initial, claim)
    BY <1>1, <2>2 DEF EmbeddedFinal
  <2> QED BY <2>3, <2>4, <2>5
<1>4. CASE g.report.final = {} /\ Book!Filled(g.report)
  <2>1. claim.embedded = {}
    BY <1>4
  <2>2. c \in Book!Closing("explicit_linkage", claim.linked)
    BY <1>4, <2>1 DEF Book!ClosingState
  <2>3. c.source = "explicit_linkage" /\ Book!Closing("explicit_linkage", {c.final}) = {c}
    BY <1>0, <1>2, <2>2
  <2>4. EmbeddedFinal(s, initial, claim) = {}
    BY <1>1, <2>1, <2>3 DEF EmbeddedFinal
  <2>5. told = [embedded |-> {}, linked |-> {c.final}]
    BY <1>1, <1>4, <2>3, <2>4 DEF Retold, Handed
  <2>6. Book!ClosingState(g.report, again, told) = {c}
    BY <1>4, <2>3, <2>5 DEF Book!ClosingState
  <2>7. EmbeddedFinal(s, again, told) = {}
    BY <1>1, <2>3, <2>5 DEF EmbeddedFinal
  <2> QED BY <2>4, <2>6, <2>7
<1>5. CASE g.report.final = {} /\ ~ Book!Filled(g.report) /\ claim # Book!NoClaim
  <2>1. c \in Book!Closing("explicit_linkage", Book!Resolved(claim))
    BY <1>5 DEF Book!ClosingState
  <2>2. AtMostOne(Book!Resolved(claim))
    BY <1>0 DEF Book!Resolved, AtMostOne
  <2>3. /\ c.source = "explicit_linkage" /\ Book!Resolved(claim) = {c.final}
        /\ Book!Closing("explicit_linkage", {c.final}) = {c}
    BY <1>2, <2>1, <2>2
  <2>4. EmbeddedFinal(s, initial, claim) = claim.embedded
    BY <1>1, <2>3 DEF EmbeddedFinal
  <2>5. told = Handed([embedded |-> claim.embedded, linked |-> {c.final}])
    BY <1>1, <1>5, <2>3, <2>4 DEF Retold
  <2>6. /\ told.embedded = claim.embedded /\ told # Book!NoClaim
        /\ Book!Resolved(told) = {c.final}
    <3> DEFINE w == [embedded |-> claim.embedded, linked |-> {c.final}]
    <3>1. CASE claim.embedded = {}
      <4>1. told = w
        BY <2>5, <3>1 DEF Handed
      <4> QED BY <3>1, <4>1 DEF Book!Resolved, Book!NoClaim
    <3>2. CASE claim.embedded # {}
      <4>1. told = [embedded |-> claim.embedded, linked |-> {}]
        BY <2>5, <3>2 DEF Handed
      <4>2. Book!Resolved(claim) = claim.embedded
        BY <2>3, <3>2 DEF Book!Resolved
      <4>3. told.embedded = claim.embedded /\ told.linked = {}
        BY <4>1
      <4>4. told # Book!NoClaim
        BY <3>2, <4>3 DEF Book!NoClaim
      <4>5. Book!Resolved(told) = told.embedded
        BY <3>2, <4>3 DEF Book!Resolved
      <4> QED BY <2>3, <4>2, <4>3, <4>4, <4>5
    <3> QED BY <3>1, <3>2
  <2>7. Book!ClosingState(g.report, again, told) = {c}
    BY <1>5, <2>3, <2>6 DEF Book!ClosingState
  <2>8. EmbeddedFinal(s, again, told) = claim.embedded
    BY <1>1, <2>3, <2>6 DEF EmbeddedFinal
  <2> QED BY <2>4, <2>7, <2>8
<1>6. CASE g.report.final = {} /\ ~ Book!Filled(g.report) /\ claim = Book!NoClaim
  <2>1. c \in Book!Closing("unchanged_from_initial", initial.embedded)
    BY <1>6 DEF Book!ClosingState
  <2>2. /\ c.source = "unchanged_from_initial" /\ initial.embedded = {c.final}
        /\ Book!Closing("unchanged_from_initial", {c.final}) = {c}
    BY <1>0, <1>2, <2>1
  <2>3. told = Book!NoClaim
    BY <1>1, <2>2 DEF Retold
  <2>4. Book!ClosingState(g.report, again, Book!NoClaim) = {c}
    BY <1>6, <2>2 DEF Book!ClosingState
  <2>5. EmbeddedFinal(s, again, told) = EmbeddedFinal(s, initial, claim)
    BY <1>1, <2>2 DEF EmbeddedFinal
  <2> QED BY <2>3, <2>4, <2>5
<1> QED BY <1>3, <1>4, <1>5, <1>6

\* A session report rebuilt from itself is itself (_rebuild_paper_account_report).
LEMMA PaperRebuilt ==
  ASSUME NEW g, NEW initial, NEW claim, Unambiguous(g, initial, claim),
         NEW p \in Papers(g, initial, claim),
         ~ (p.gateway.report.final = {} /\ Some(p.logs.fills) /\ p.final.embedded # {})
  PROVE  Rebuilt(p, g) = {p}
<1>1. PICK c \in Book!ClosingState(g.report, initial, claim) :
        p = PaperOf(g, initial, claim, SessionOf(g.report, c)) /\ Book!Resolved(initial) # {}
  BY PapersAre
<1> DEFINE logs == SessionOf(g.report, c)
           closing == [embedded |-> EmbeddedFinal(logs, initial, claim), linked |-> {logs.final}]
           said == Retold(g, logs, closing)
           opened == Handed([embedded |-> initial.embedded, linked |-> Book!Resolved(initial)])
<1>2. /\ p.gateway = g /\ p.logs = logs /\ p.final = closing
      /\ p.initial = [embedded |-> initial.embedded, linked |-> Book!Resolved(initial)]
  BY <1>1 DEF PaperOf
<1>3. Some(p.logs.fills) <=> Book!Filled(g.report)
  BY <1>2 DEF SessionOf, Some, Book!Filled
<1>4. ASSUME g.report.final = {}, Book!Filled(g.report) PROVE claim.embedded = {}
  <2>1. closing.embedded = {}
    BY <1>2, <1>3, <1>4
  <2>2. logs.source = "explicit_linkage"
    BY <1>4 DEF Book!ClosingState, Book!Closing, SessionOf
  <2> QED BY <2>1, <2>2 DEF EmbeddedFinal
<1>5. opened.embedded = initial.embedded /\ Book!Resolved(opened) = Book!Resolved(initial)
  BY <1>1, OpeningRebuilt
<1>6. /\ Book!ClosingState(g.report, opened, said) = {c}
      /\ EmbeddedFinal(logs, opened, said) = EmbeddedFinal(logs, initial, claim)
  <2>1. g.report.final = {} /\ Book!Filled(g.report) => claim.embedded = {}
    BY <1>4
  <2>2. opened.embedded = initial.embedded
    BY <1>5
  <2>3. logs = SessionOf(g.report, c) /\ said = Retold(g, logs, closing)
    OBVIOUS
  <2>4. closing = [embedded |-> EmbeddedFinal(logs, initial, claim), linked |-> {logs.final}]
    OBVIOUS
  <2> HIDE DEF opened, closing, logs, said
  <2> QED BY <2>1, <2>2, <2>3, <2>4, ClosingRebuilt
<1>7. Rebuilt(p, g) = Papers(g, opened, said)
  BY <1>2 DEF Rebuilt, Handed, Retold
<1> HIDE DEF opened, said
<1>8. Papers(g, opened, said) = {PaperOf(g, opened, said, SessionOf(g.report, c))}
  BY <1>1, <1>5, <1>6, PapersAre
<1>9. PaperOf(g, opened, said, logs) = p
  BY <1>1, <1>5, <1>6 DEF PaperOf
<1> QED BY <1>7, <1>8, <1>9

\* Evidence of one order, rerun, relinks to the artifacts it was recorded with.
LEMMA RerunAgrees ==
  ASSUME NEW e, Sound(e.trace, e), e.decision.trace = e.trace, e.intent # {}, NEW g, NEW p,
         \A f \in Single : AtMostOne(e[f]),
         Rerun(e) = {g}, e.gateway = {g}, e.paper = {p}, e.tca = {Tca(g, e.quotes)},
         Rebuilt(p, g) = {p}, Len(g.report.events) = 1
  PROVE  Replay(e.trace, e).status = "passed"
<1>1. EnvelopeOf(e.envelope, e)
  BY EnvelopeSays DEF Sound
<1>2. PICK x \in OrderChoices(e) : OrderLinked(e.decision, x) /\ e.envelope.order = {x}
  BY <1>1 DEF EnvelopeOf
<1>3. UNION {Rebuilt(a, b) : a \in e.paper, b \in {g}} = {p}
  OBVIOUS
<1>4. Replay(e.trace, e) = AfterRerunning(e, {g})
  <2>1. e.envelope.trace = e.trace
    BY <1>1 DEF EnvelopeOf
  <2>2. ~ Misaddressed(e.trace, e)
    BY <2>1 DEF Misaddressed
  <2> QED BY <2>2 DEF Replay, Sound
<1>5. AfterRerunning(e, {g}) = AfterRelinking(e, Relinked(e, {g}, {p}))
  BY <1>3 DEF AfterRerunning, AfterRebuilding
<1>6. Relinked(e, {g}, {p}) = {x}
  <2>1. {Tca(b, e.quotes) : b \in {g}} = e.tca
    OBVIOUS
  <2>2. Relinked(e, {g}, {p}) = {y \in OrderChoices(e) : OrderLinked(e.decision, y)}
    BY <2>1 DEF Relinked, OrderChoices
  <2>3. AtMostOne(OrderChoices(e))
    <3>1. /\ AtMostOne(e.intent) /\ AtMostOne(e.risk) /\ AtMostOne(e.gateway)
          /\ AtMostOne(e.paper) /\ AtMostOne(e.tca)
      BY DEF Single, Downstream
    <3> QED BY <3>1 DEF OrderChoices, AtMostOne
  <2> QED BY <1>2, <2>2, <2>3 DEF AtMostOne
<1>7. AfterRelinking(e, {x}) = Compared(e, {x})
  BY DEF AfterRelinking
<1>8. The({x}) = x /\ The(e.envelope.order) = x /\ x.gateway = g
  BY <1>2 DEF The, OrderChoices
<1>9. ~ GatewayDiffers(x.gateway, x.gateway)
  BY <1>8 DEF GatewayDiffers
<1>10. Compared(e, {x}).status = "passed"
  BY <1>8, <1>9 DEF Compared, ReportDiffers, Result
<1> QED BY <1>4, <1>5, <1>6, <1>7, <1>10

\* A record as it was written, of one order in a session with market data,
\* is reproduced.
LEMMA WrittenReproduces ==
  ASSUME NEW e, Written(e), ~ DoublyClosed(e),
         e.intent # {} => e.bars # <<>> /\ \A g \in e.gateway : Len(g.report.events) = 1
  PROVE  Replay(e.trace, e).status \in {"passed", "no_order"}
<1>1. \A f \in Single : AtMostOne(e[f])
  BY WrittenSingle DEF Single
<1>2. Envelopes(e) = {e.envelope}
  BY <1>1, OneEnvelope DEF Written, AtMostOne
<1>3. EnvelopeOf(e.envelope, e)
  BY EnvelopeSays DEF Written
<1>4. e.broken = {} /\ e.trace = e.decision.trace /\ e.envelope.trace = e.trace
  BY <1>3 DEF Written, EnvelopeOf
<1>5. CASE e.intent = {}
  <2>1. ~ InputMissing(e)
    BY <1>3, <1>5 DEF InputMissing, EnvelopeOf
  <2>2. Replay(e.trace, e) = Result(e, "no_order", {}, {})
    BY <1>2, <1>4, <1>5, <2>1 DEF Replay, Misaddressed
  <2> QED BY <2>2 DEF Result
<1>6. CASE e.intent # {}
  <2>1. TradedSome(e)
    BY <1>6 DEF Written, Undone
  <2>2. PICK day \in Days : \E batch, n, g, p : IsBatch(batch) /\ TradedIn(e, day, batch, n, g, p)
    BY <2>1 DEF TradedSome
  <2>3. PICK batch, n, g, p : IsBatch(batch) /\ TradedIn(e, day, batch, n, g, p)
    BY <2>2
  <2>4. /\ n \in DOMAIN batch /\ g \in Gateways(batch, e.bars, e.cost, e.account)
        /\ p \in Papers(g, day.initial, day.claim)
        /\ e.intent = {batch[n].requested} /\ e.risk = {batch[n]} /\ e.gateway = {g}
        /\ e.paper = {p} /\ e.tca = {Tca(g, e.quotes)}
    BY <2>3 DEF TradedIn
  <2>5. Len(g.report.events) = 1
    BY <1>6, <2>4
  <2>6. batch = <<batch[n]>>
    BY <2>3, <2>4, <2>5, BatchOfOne
  <2>7. Rerun(e) = {g}
    <3>1. Rerun(e) = Gateways(<<batch[n]>>, e.bars, e.cost, e.account)
      BY <2>4 DEF Rerun
    <3>2. AtMostOne(Gateways(<<batch[n]>>, e.bars, e.cost, e.account))
      BY OneReport
    <3>3. g \in Gateways(<<batch[n]>>, e.bars, e.cost, e.account)
      BY <2>4, <2>6
    <3> QED BY <3>1, <3>2, <3>3 DEF AtMostOne
  <2>8. Rebuilt(p, g) = {p}
    <3>1. ~ (p.gateway.report.final = {} /\ Some(p.logs.fills) /\ p.final.embedded # {})
      BY <2>4 DEF DoublyClosed
    <3>2. /\ AtMostOne(day.initial.embedded)
          /\ AtMostOne(day.claim.embedded) /\ AtMostOne(day.claim.linked)
      BY DaysAssumption
    <3>3. AtMostOne(g.report.final)
      BY <2>4, ReportShape
    <3> QED BY <2>4, <3>1, <3>2, <3>3, PaperRebuilt DEF Unambiguous
  <2>9. ~ InputMissing(e)
    BY <1>6, <2>4 DEF InputMissing
  <2>10. Sound(e.trace, e)
    BY <1>2, <1>4, <2>9 DEF Sound
  <2> QED BY <1>1, <1>4, <1>6, <2>4, <2>5, <2>7, <2>8, <2>10, RerunAgrees
<1> QED BY <1>5, <1>6

LEMMA StoreReplaysSingle == StoreInv => SingleOrderReplays
<1> SUFFICES ASSUME StoreInv, NEW i \in DOMAIN records, Genuine(i), ~ DoublyClosed(records[i]),
                    records[i].intent # {} =>
                      records[i].bars # <<>> /\ \A g \in records[i].gateway : Len(g.report.events) = 1
             PROVE  Reproduces(i)
  BY DEF SingleOrderReplays
<1> DEFINE e == records[i]
<1>1. e = recorded[i] /\ Filed(e.trace) = {i}
  BY DEF Genuine
<1>2. Written(e)
  BY <1>1 DEF StoreInv
<1>3. Replay(e.trace, e).status \in {"passed", "no_order"}
  <2> HIDE DEF e
  <2>1. /\ ~ DoublyClosed(e)
        /\ e.intent # {} => e.bars # <<>> /\ \A g \in e.gateway : Len(g.report.events) = 1
    BY DEF e
  <2> QED BY <1>2, <2>1, WrittenReproduces
<1>4. Cardinality({i}) = 1 /\ The({i}) = i
  BY FS_Singleton DEF The
<1>5. ReplayById(e.trace) = Replay(e.trace, e)
  <2>1. Filed(e.trace) # {} /\ ~ (Cardinality(Filed(e.trace)) > 1) /\ The(Filed(e.trace)) = i
    BY <1>1, <1>4
  <2> QED BY <2>1 DEF ReplayById
<1> QED BY <1>3, <1>5 DEF Reproduces

\* What make_decision_trace_envelope and the reports recorded of an order that
\* was its session's only one, replay_decision_trace_by_id reproduces.
THEOREM SingleOrderReproduced == Spec => []SingleOrderReplays
BY StoreReplaysSingle, StoreAlways, PTL
=============================================================================
