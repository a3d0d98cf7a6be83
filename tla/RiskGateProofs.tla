---------------------------- MODULE RiskGateProofs ----------------------------
(***************************************************************************)
(* Proofs about RiskGate, for every policy, account, set of orders, market *)
(* telemetry and kill-switch history.                                      *)
(***************************************************************************)
EXTENDS RiskGate, FiniteSetTheorems, WellFoundedInduction, TLAPS

USE PolicyAssumption, OrdersAssumption, MarketsAssumption, SlipsAssumption,
    BatchAssumption, OpeningAssumption

-----------------------------------------------------------------------------
HasLeast(S) == S = {} \/ \E m \in S : \A n \in S : m <= n

LEMMA LeastWithOneMore ==
  ASSUME NEW S \in SUBSET Int, NEW T, NEW x \in Int, HasLeast(S \cap T)
  PROVE  HasLeast(S \cap (T \cup {x}))
<1> DEFINE old == S \cap T
           new == S \cap (T \cup {x})
<1>1. CASE x \notin S
  <2>1. new = old
    BY <1>1
  <2> QED BY <2>1
<1>2. CASE x \in S /\ old = {}
  <2>1. new = {x}
    BY <1>2
  <2> QED BY <2>1 DEF HasLeast
<1>3. CASE x \in S /\ old # {}
  <2>1. PICK m \in old : \A n \in old : m <= n
    BY <1>3 DEF HasLeast
  <2>2. CASE m <= x
    BY <2>1, <2>2 DEF HasLeast
  <2>3. CASE x < m
    <3>1. \A n \in new : x <= n
      BY <2>1, <2>3
    <3> QED BY <3>1, <1>3 DEF HasLeast
  <2> QED BY <2>1, <2>2, <2>3
<1> QED BY <1>1, <1>2, <1>3

\* Of up to five sizes one is the least: _approval_after_soft_caps always
\* has a min() to take.
LEMMA LeastSize ==
  ASSUME NEW a \in Int, NEW b \in Int, NEW c \in Int, NEW d \in Int, NEW e \in Int,
         NEW S \in SUBSET Int, S \subseteq {a, b, c, d, e}, S # {}
  PROVE  Least(S) \in S /\ \A m \in S : Least(S) <= m
<1> DEFINE Upto1 == {} \cup {a}
           Upto2 == Upto1 \cup {b}
           Upto3 == Upto2 \cup {c}
           Upto4 == Upto3 \cup {d}
           Upto5 == Upto4 \cup {e}
<1>1. HasLeast(S \cap {})
  BY DEF HasLeast
<1>2. HasLeast(S \cap Upto1)
  BY <1>1, LeastWithOneMore
<1>3. HasLeast(S \cap Upto2)
  <2> HIDE DEF Upto1
  <2> QED BY <1>2, LeastWithOneMore
<1>4. HasLeast(S \cap Upto3)
  <2> HIDE DEF Upto2
  <2> QED BY <1>3, LeastWithOneMore
<1>5. HasLeast(S \cap Upto4)
  <2> HIDE DEF Upto3
  <2> QED BY <1>4, LeastWithOneMore
<1>6. HasLeast(S \cap Upto5)
  <2> HIDE DEF Upto4
  <2> QED BY <1>5, LeastWithOneMore
<1>7. S \cap Upto5 = S
  OBVIOUS
<1> QED BY <1>6, <1>7 DEF Least, HasLeast

\* A request the engine is given: amounts that are numbers.
Sized(req) ==
  /\ req.order.side \in {"buy", "sell"}
  /\ req.order.notional \in Nat \ {0}
  /\ req.account.cash \in Nat /\ req.account.position \in Nat
  /\ \A kind \in ExposureKinds : req.account.exposure[kind] \in Nat
  /\ req.market.volume \cup req.market.depth \subseteq [soft : Nat, hard : Nat]
  /\ \A c, d \in req.market.volume : c = d
  /\ \A c, d \in req.market.depth : c = d

LEMMA SizeLimitType == \A kind \in SizeNames : SizeLimit(kind) \in Nat
  BY DEF SizeLimit, Lesser, SizeNames, LimitNames, ExposureKinds

\* What a limit that is not hard-breached bounds.
LEMMA OverThresholdBound ==
  ASSUME NEW v \in Int, NEW s \in Int, NEW h \in Int, OverThreshold(v, s, h) # "hard"
  PROVE  v <= h
  BY DEF OverThreshold

\* The evaluations that bound an order's size are among those that decide.
LEMMA SizedEvaluations ==
  ASSUME NEW req, ~ HardBreach(req)
  PROVE  /\ KillSwitch(req) # "hard"
         /\ NoShortOrOversell(req) # "hard"
         /\ Exposure(req, "instrument") # "hard"
         /\ Exposure(req, "strategy") # "hard"
         /\ TotalExposure(req) # "hard"
         /\ RequiredState(req) # "hard"
<1>1. \A e \in Evaluations(req) : e.status # "hard"
  BY DEF HardBreach
<1>2. /\ Evaluation("kill_switch.active_state", KillSwitch(req), {}) \in Evaluations(req)
      /\ Evaluation("position.no_short_or_oversell", NoShortOrOversell(req), {})
           \in Evaluations(req)
      /\ Evaluation("config.required_state", RequiredState(req), {}) \in Evaluations(req)
  BY DEF Evaluations
<1>3. /\ Evaluation("position.instrument_exposure", Exposure(req, "instrument"),
                    {Soft["instrument"] - req.account.exposure["instrument"]})
           \in Evaluations(req)
      /\ Evaluation("position.strategy_exposure", Exposure(req, "strategy"),
                    {Soft["strategy"] - req.account.exposure["strategy"]})
           \in Evaluations(req)
      /\ Evaluation("position.total_spot_exposure", TotalExposure(req),
                    {Soft["total"] - req.account.exposure["total"]})
           \in Evaluations(req)
  BY DEF Evaluations
<1> QED BY <1>1, <1>2, <1>3 DEF Evaluation

\* The participation breach caps at one number, if at all.
LEMMA OneParticipationCap ==
  ASSUME NEW req, Sized(req)
  PROVE  \E cap \in Int : ParticipationCap(req) \subseteq {cap}
<1>1. ASSUME NEW checks, checks \subseteq [soft : Nat, hard : Nat],
             \A c, d \in checks : c = d
      PROVE  \E cap \in Int : {c.soft : c \in checks} \subseteq {cap}
  <2>1. CASE checks = {}
    BY <2>1
  <2>2. CASE checks # {}
    <3>1. PICK c \in checks : TRUE
      BY <2>2
    <3>2. c.soft \in Int /\ {d.soft : d \in checks} \subseteq {c.soft}
      BY <1>1, <3>1
    <3> QED BY <3>2
  <2> QED BY <2>1, <2>2
<1>2. \E cap \in Int : {c.soft : c \in req.market.volume} \subseteq {cap}
  BY <1>1 DEF Sized
<1>3. \E cap \in Int : {c.soft : c \in req.market.depth} \subseteq {cap}
  BY <1>1 DEF Sized
<1> QED BY <1>2, <1>3 DEF ParticipationCap

\* Every cap is a number, and the caps of one request have a least one.
LEMMA CapsHaveLeast ==
  ASSUME NEW req, Sized(req)
  PROVE  /\ Caps(req) \subseteq Int
         /\ Caps(req) # {} => /\ AllowedNotional(req) \in Caps(req)
                              /\ \A c \in Caps(req) : AllowedNotional(req) <= c
<1>1. \A l \in LimitNames : Soft[l] \in Nat
  OBVIOUS
<1>2. PICK part \in Int : ParticipationCap(req) \subseteq {part}
  BY OneParticipationCap
<1> DEFINE order == Soft["order"]
           instrument == Soft["instrument"] - req.account.exposure["instrument"]
           strategy == Soft["strategy"] - req.account.exposure["strategy"]
           total == Soft["total"] - req.account.exposure["total"]
<1>3. order \in Int /\ instrument \in Int /\ strategy \in Int /\ total \in Int
  BY <1>1 DEF LimitNames, SizeNames, ExposureKinds, Sized
<1>4. ASSUME NEW e \in Evaluations(req)
      PROVE  e.room \in {{}, {order}, {instrument}, {strategy}, {total},
                          ParticipationCap(req)}
  BY <1>4 DEF Evaluations, Evaluation
<1>5. Caps(req) \subseteq {order, instrument, strategy, total, part}
  <2> SUFFICES ASSUME NEW e \in Evaluations(req)
               PROVE  e.room \subseteq {order, instrument, strategy, total, part}
    BY DEF Caps, SoftBreaches
  <2> HIDE DEF order, instrument, strategy, total
  <2> QED BY <1>2, <1>4
<1> HIDE DEF order, instrument, strategy, total
<1>6. Caps(req) \subseteq Int
  BY <1>3, <1>5
<1> QED BY <1>3, <1>5, <1>6, LeastSize DEF AllowedNotional

\* What an approval is: no hard breach, and a positive size no larger than
\* the one requested.
LEMMA ApprovalSize ==
  ASSUME NEW req, Sized(req), Approved(req)
  PROVE  /\ ~ HardBreach(req)
         /\ RiskDecision(req).notional \in Nat \ {0}
         /\ RiskDecision(req).notional <= req.order.notional
<1> DEFINE after == AfterSoftCaps(req)
<1>1. ~ HardBreach(req) /\ RiskDecision(req) = after
  BY DEF Approved, RiskDecision, ApprovedDecisions
<1>2. after.decision \in ApprovedDecisions
  BY <1>1 DEF Approved
<1>3. after.notional \in {req.order.notional, AllowedNotional(req)}
  BY <1>2 DEF AfterSoftCaps, ApprovedDecisions
<1>4. CASE after.notional = req.order.notional
  BY <1>1, <1>4 DEF Sized
<1>5. CASE after.notional # req.order.notional
  <2>1. /\ after.notional = AllowedNotional(req)
        /\ SoftBreaches(req) # {}
        /\ \A e \in SoftBreaches(req) : e.room # {}
        /\ \A c \in Caps(req) : ~ c <= 0
        /\ ~ AllowedNotional(req) >= req.order.notional
    BY <1>2, <1>5 DEF AfterSoftCaps, ApprovedDecisions
  <2>2. Caps(req) # {}
    BY <2>1 DEF Caps
  <2>3. AllowedNotional(req) \in Int /\ ~ AllowedNotional(req) <= 0
    BY <2>1, <2>2, CapsHaveLeast
  <2> QED BY <1>1, <2>1, <2>3 DEF Sized
<1> QED BY <1>4, <1>5

-----------------------------------------------------------------------------
\* What the type invariant rests on: a batch under replay is not empty, and
\* every pending intent came from a submitted order.
GateInv ==
  /\ TypeOK
  /\ phase = "replay" => pending # <<>>
  /\ \A i \in 1..Len(pending) : \E o \in Orders : o.id = pending[i].id

LEMMA RequestSized ==
  ASSUME TypeOK, NEW o \in Orders, NEW m \in Markets
  PROVE  Sized(Request(o, m))
<1> DEFINE req == Request(o, m)
<1>1. o \in OrderIntents /\ account \in Accounts
  BY DEF TypeOK
<1>2. req.order = o /\ req.market = m
  BY DEF Request
<1>3. /\ req.account.cash \in Nat /\ req.account.position \in Nat
      /\ req.account.exposure["instrument"] \in Nat
      /\ req.account.exposure["strategy"] \in Nat
      /\ req.account.exposure["total"] \in Nat
  BY <1>1 DEF Request, Accounts, OrderIntents
<1>4. o.side \in {"buy", "sell"} /\ o.notional \in Nat \ {0}
  BY <1>1 DEF OrderIntents
<1>5. /\ m.volume \cup m.depth \subseteq [soft : Nat, hard : Nat]
      /\ \A c, d \in m.volume : c = d
      /\ \A c, d \in m.depth : c = d
  OBVIOUS
<1>6. Sized(req)
  <2> HIDE DEF req
  <2> QED BY <1>2, <1>3, <1>4, <1>5 DEF Sized, ExposureKinds
<1> QED BY <1>6

\* The intent an approval forwards: the order, at a size no larger.
LEMMA ApprovedIntentType ==
  ASSUME TypeOK, NEW o \in Orders, NEW m \in Markets, Approved(Request(o, m))
  PROVE  /\ ApprovedIntent(o, m) \in OrderIntents
         /\ ApprovedIntent(o, m) = [o EXCEPT !.notional = ApprovedIntent(o, m).notional]
         /\ ApprovedIntent(o, m).notional \in Nat \ {0}
         /\ ApprovedIntent(o, m).notional <= o.notional
<1> DEFINE n == RiskDecision(Request(o, m)).notional
<1>1. Request(o, m).order = o
  BY DEF Request
<1>2. n \in Nat \ {0} /\ n <= o.notional
  BY RequestSized, ApprovalSize, <1>1
<1>3. o \in OrderIntents
  OBVIOUS
<1> HIDE DEF n
<1>4. [o EXCEPT !.notional = n] \in OrderIntents /\ [o EXCEPT !.notional = n].notional = n
  BY <1>2, <1>3 DEF OrderIntents
<1> QED BY <1>2, <1>4 DEF ApprovedIntent, n

LEMMA GateInit == Init => GateInv
  BY DEF Init, GateInv, TypeOK

\* The head of a batch under replay, and the order it stands for.
LEMMA HeadOfBatch ==
  ASSUME GateInv, NextIntent
  PROVE  /\ Head(pending) \in OrderIntents
         /\ Origin \in Orders
         /\ pending' \in Seq(OrderIntents) /\ Len(pending') <= BatchSize
         /\ phase' \in {"collect", "replay"}
         /\ phase' = "replay" => pending' # <<>>
         /\ \A i \in 1..Len(pending') : \E o \in Orders : o.id = pending'[i].id
         /\ records' \in [Orders -> {"none", "placed", "reconciled"}]
<1>1. pending \in Seq(OrderIntents) /\ pending # <<>>
  BY DEF GateInv, TypeOK, NextIntent
<1>2. /\ Head(pending) \in OrderIntents
      /\ Head(pending) = pending[1] /\ 1 \in 1..Len(pending)
      /\ pending' \in Seq(OrderIntents) /\ Len(pending') = Len(pending) - 1
      /\ \A i \in 1..Len(pending') : pending'[i] = pending[i + 1]
  BY <1>1 DEF NextIntent
<1>3. \E o \in Orders : o.id = Head(pending).id
  BY <1>2 DEF GateInv
<1>4. Origin \in Orders
  BY <1>3 DEF Origin
<1>5. /\ phase' \in {"collect", "replay"}
      /\ phase' = "replay" => pending' # <<>>
  <2>1. phase' = IF Len(pending) = 1 THEN "collect" ELSE "replay"
    BY DEF NextIntent
  <2>2. Len(pending) \in Nat /\ Len(pending) # 0
    BY <1>1
  <2>3. Len(pending) # 1 => Len(pending') # 0
    BY <1>2, <2>2
  <2> QED BY <2>1, <2>3
<1>6. records' \in [Orders -> {"none", "placed", "reconciled"}]
  BY <1>4 DEF NextIntent, GateInv, TypeOK
<1>7. \A i \in 1..Len(pending') : \E o \in Orders : o.id = pending'[i].id
  <2> SUFFICES ASSUME NEW i \in 1..Len(pending')
               PROVE  \E o \in Orders : o.id = pending'[i].id
    OBVIOUS
  <2>1. i + 1 \in 1..Len(pending) /\ pending'[i] = pending[i + 1]
    BY <1>1, <1>2
  <2> QED BY <2>1 DEF GateInv
<1>8. Len(pending') <= BatchSize
  BY <1>1, <1>2 DEF GateInv, TypeOK
<1> QED BY <1>2, <1>4, <1>5, <1>6, <1>7, <1>8

\* A fill leaves an account whose amounts are numbers.
LEMMA FillType ==
  ASSUME GateInv, NEW q \in Quantities, NEW slip \in Slips,
         FillBuy(q, slip) \/ FillSell(q, slip)
  PROVE  account' \in Accounts /\ q \in Nat \ {0} /\ q <= Head(pending).notional
<1> DEFINE o == Head(pending)
<1>1. NextIntent /\ phase = "replay"
  BY DEF FillBuy, FillSell, NextIntent
<1>2. o \in OrderIntents
  BY <1>1, HeadOfBatch
<1> HIDE DEF o
<1>3. o.notional \in Nat /\ o.instrument \in Instruments /\ o.strategy \in Strategies
  BY <1>2 DEF OrderIntents
<1>4. q \in Nat \ {0} /\ q <= o.notional /\ slip \in Int
  BY <1>1, <1>3 DEF Quantities, o
<1>5. /\ account.cash \in Nat /\ account.total \in Nat
      /\ account.position \in [Instruments -> Nat]
      /\ account.strategy \in [Strategies -> Nat]
  BY DEF GateInv, TypeOK, Accounts
<1>6. ASSUME FillBuy(q, slip) PROVE account' \in Accounts
  BY <1>3, <1>4, <1>5, <1>6 DEF FillBuy, Accounts, o
<1>7. ASSUME FillSell(q, slip) PROVE account' \in Accounts
  <2>1. account.position[o.instrument] - q \in Nat
    BY <1>3, <1>4, <1>5, <1>7 DEF FillSell, o
  <2>2. /\ Positive(account.strategy[o.strategy] - q) \in Nat
        /\ Positive(account.total - q) \in Nat
    BY <1>3, <1>4, <1>5 DEF Positive, Greater
  <2>3. account.cash + (q - slip) \in Nat
    BY <1>4, <1>5, <1>7 DEF FillSell
  <2>4. account' =
          [cash     |-> account.cash + (q - slip),
           position |-> [account.position EXCEPT ![o.instrument] = @ - q],
           strategy |-> [account.strategy EXCEPT ![o.strategy] = Positive(@ - q)],
           total    |-> Positive(account.total - q)]
    BY <1>7 DEF FillSell, o
  <2>5. [account.position EXCEPT ![o.instrument] = @ - q] \in [Instruments -> Nat]
    BY <1>3, <1>5, <2>1
  <2>6. [account.strategy EXCEPT ![o.strategy] = Positive(@ - q)] \in [Strategies -> Nat]
    BY <1>3, <1>5, <2>2
  <2> QED BY <2>2, <2>3, <2>4, <2>5, <2>6 DEF Accounts
<1> QED BY <1>4, <1>6, <1>7 DEF o
LEMMA GateStep == GateInv /\ [Next]_vars => GateInv'
<1> SUFFICES ASSUME GateInv, [Next]_vars PROVE GateInv'
  OBVIOUS
<1> USE DEF GateInv
<1>1. CASE MoveKillSwitch
  <2>1. log' \subseteq KillSwitchRecord
    BY <1>1 DEF MoveKillSwitch, Switch!Commit, TypeOK
  <2> QED BY <1>1, <2>1 DEF MoveKillSwitch, TypeOK
<1>2. ASSUME NEW o \in Orders, NEW m \in Markets, Check(o, m) PROVE GateInv'
  <2> DEFINE a == ApprovedIntent(o, m)
  <2>1. a \in OrderIntents /\ a.id = o.id
    BY <1>2, ApprovedIntentType DEF Check, OrderIntents
  <2> HIDE DEF a
  <2>2. /\ pending \in Seq(OrderIntents) /\ Len(pending) < BatchSize
        /\ pending' = Append(pending, a)
    BY <1>2 DEF Check, TypeOK, a
  <2>3. /\ pending' \in Seq(OrderIntents) /\ Len(pending') <= BatchSize
        /\ pending' # <<>>
        /\ \A i \in 1..Len(pending') :
             pending'[i] = a \/ (i \in 1..Len(pending) /\ pending'[i] = pending[i])
    BY <2>1, <2>2
  <2>4. \A i \in 1..Len(pending') : \E p \in Orders : p.id = pending'[i].id
    BY <2>1, <2>3
  <2> QED BY <1>2, <2>3, <2>4 DEF Check, TypeOK
<1>3. CASE Forward
  BY <1>3 DEF Forward, TypeOK
<1>4. CASE Refuse
  BY <1>4 DEF Refuse, TypeOK
<1>5. CASE NoFill
  <2>1. NextIntent /\ UNCHANGED <<account, log>>
    BY <1>5 DEF NoFill, NextIntent
  <2> QED BY <2>1, HeadOfBatch DEF TypeOK
<1>6. ASSUME NEW q \in Quantities, NEW slip \in Slips,
             FillBuy(q, slip) \/ FillSell(q, slip)
      PROVE  GateInv'
  <2>1. NextIntent /\ log' = log
    BY <1>6 DEF FillBuy, FillSell, NextIntent
  <2>2. account' \in Accounts
    BY <1>6, FillType
  <2> QED BY <2>1, <2>2, HeadOfBatch DEF TypeOK
<1>7. ASSUME NEW o \in Orders, Reconcile(o) PROVE GateInv'
  BY <1>7 DEF Reconcile, TypeOK
<1>8. CASE UNCHANGED vars
  BY <1>8 DEF vars, TypeOK
<1> QED BY <1>1, <1>2, <1>3, <1>4, <1>5, <1>6, <1>7, <1>8 DEF Next

LEMMA GateInvariant == Spec => []GateInv
<1> QED BY GateInit, GateStep, PTL DEF Spec

\* Every reachable state is well typed: no check approves an empty or a
\* negative size, and no fill drives a balance below zero.
THEOREM TypeCorrect == Spec => []TypeOK
<1>1. GateInv => TypeOK
  BY DEF GateInv
<1> QED BY <1>1, GateInvariant, PTL

-----------------------------------------------------------------------------
\* Room for an intent: filled in full it leaves the account within its limits.
Fits(o) ==
  o.side = "buy" =>
    /\ account.position[o.instrument] + o.notional <= SizeLimit("instrument")
    /\ account.strategy[o.strategy] + o.notional <= SizeLimit("strategy")
    /\ account.total + o.notional <= SizeLimit("total")
    /\ account.cash - o.notional >= CashReserve

\* With one event to a batch, the account does not change between a check
\* and the fill it approved, so what was checked still holds.
LimitsInv ==
  /\ WithinHard(account)
  /\ ReserveHeld
  /\ pending # <<>> => Fits(Head(pending))

\* An approval is for a size that fits.
LEMMA ApprovalFits ==
  ASSUME TypeOK, NEW o \in Orders, NEW m \in Markets, Approved(Request(o, m))
  PROVE  Fits(ApprovedIntent(o, m))
<1> DEFINE req == Request(o, m)
           a == ApprovedIntent(o, m)
<1>1. /\ a.side = o.side /\ a.instrument = o.instrument /\ a.strategy = o.strategy
      /\ a.notional \in Nat \ {0} /\ a.notional <= o.notional
  BY ApprovedIntentType DEF OrderIntents
<1>2. ~ HardBreach(req) /\ Sized(req)
  BY RequestSized, ApprovalSize
<1>3. /\ Exposure(req, "instrument") # "hard" /\ Exposure(req, "strategy") # "hard"
      /\ TotalExposure(req) # "hard"
  BY <1>2, SizedEvaluations
<1>4. /\ req.order = o /\ req.account.cash = account.cash
      /\ req.account.exposure["instrument"] = account.position[o.instrument]
      /\ req.account.exposure["strategy"] = account.strategy[o.strategy]
      /\ req.account.exposure["total"] = account.total
  BY DEF Request
<1> HIDE DEF req, a
<1> SUFFICES ASSUME o.side = "buy"
             PROVE  /\ account.position[o.instrument] + a.notional <= SizeLimit("instrument")
                    /\ account.strategy[o.strategy] + a.notional <= SizeLimit("strategy")
                    /\ account.total + a.notional <= SizeLimit("total")
                    /\ account.cash - a.notional >= CashReserve
  BY <1>1 DEF Fits, a
<1>5. /\ o.notional \in Nat /\ account.cash \in Nat /\ account.total \in Nat
      /\ account.position[o.instrument] \in Nat /\ account.strategy[o.strategy] \in Nat
  BY <1>2, <1>4 DEF Sized, ExposureKinds
<1>6. RiskIncreasing(req)
  BY <1>4 DEF RiskIncreasing
<1>7. ASSUME NEW kind \in ExposureKinds, Exposure(req, kind) # "hard"
      PROVE  req.account.exposure[kind] + o.notional <= SizeLimit(kind)
  <2>1. OverThreshold(ResultingExposure(req, kind), Soft[kind], SizeLimit(kind)) # "hard"
    BY <1>6, <1>7 DEF Exposure
  <2>2. ResultingExposure(req, kind) = req.account.exposure[kind] + o.notional
    BY <1>4 DEF ResultingExposure
  <2>3. req.account.exposure[kind] + o.notional \in Int
    BY <1>2, <1>5 DEF Sized
  <2>4. Soft[kind] \in Int /\ SizeLimit(kind) \in Int
    BY SizeLimitType DEF LimitNames, SizeNames
  <2> QED BY <2>1, <2>2, <2>3, <2>4, OverThresholdBound
<1>8. /\ Exposure(req, "total") # "hard"
      /\ ~ CashReserveBreach(req)
  BY <1>3 DEF TotalExposure
<1>9. CashReserve \in Nat
  BY DEF CashReserve, Greater
<1>10. account.cash - o.notional >= CashReserve
  BY <1>4, <1>5, <1>6, <1>8, <1>9 DEF CashReserveBreach, ResultingCash
<1>11. /\ account.position[o.instrument] + o.notional <= SizeLimit("instrument")
       /\ account.strategy[o.strategy] + o.notional <= SizeLimit("strategy")
       /\ account.total + o.notional <= SizeLimit("total")
  BY <1>3, <1>4, <1>7, <1>8 DEF ExposureKinds
<1>12. /\ SizeLimit("instrument") \in Nat /\ SizeLimit("strategy") \in Nat
       /\ SizeLimit("total") \in Nat
  BY SizeLimitType DEF SizeNames, ExposureKinds
<1> QED BY <1>1, <1>5, <1>9, <1>10, <1>11, <1>12
\* A fill of an intent that fits keeps the account within its limits.
LEMMA FillWithinLimits ==
  ASSUME GateInv, WithinHard(account), ReserveHeld, Fits(Head(pending)),
         NEW q \in Quantities, NEW slip \in Slips,
         FillBuy(q, slip) \/ FillSell(q, slip)
  PROVE  WithinHard(account') /\ ReserveHeld'
<1> DEFINE o == Head(pending)
<1>1. /\ account' \in Accounts
      /\ q \in Nat \ {0} /\ q <= o.notional
  BY FillType
<1>2. o \in OrderIntents
  BY HeadOfBatch DEF FillBuy, FillSell
<1>3. Fits(o)
  OBVIOUS
<1> HIDE DEF o
<1>4. /\ o.notional \in Nat /\ o.side \in {"buy", "sell"}
      /\ o.instrument \in Instruments /\ o.strategy \in Strategies
  BY <1>2 DEF OrderIntents
<1>5. /\ account.cash \in Nat /\ account.total \in Nat
      /\ account.position \in [Instruments -> Nat]
      /\ account.strategy \in [Strategies -> Nat]
  BY DEF GateInv, TypeOK, Accounts
<1>6. /\ SizeLimit("instrument") \in Nat /\ SizeLimit("strategy") \in Nat
      /\ SizeLimit("total") \in Nat /\ CashReserve \in Nat
  BY SizeLimitType DEF SizeNames, ExposureKinds, CashReserve, Greater
<1>7. slip \in Int /\ slip <= MaxSlip /\ MaxSlip \in Nat
  OBVIOUS
<1>8. CASE FillBuy(q, slip)
  <2>1. /\ o.side = "buy"
        /\ account' = [cash     |-> account.cash - (q + slip),
                       position |-> [account.position EXCEPT ![o.instrument] = @ + q],
                       strategy |-> [account.strategy EXCEPT ![o.strategy] = @ + q],
                       total    |-> account.total + q]
    BY <1>8 DEF FillBuy, o
  <2>2. /\ account.position[o.instrument] + o.notional <= SizeLimit("instrument")
        /\ account.strategy[o.strategy] + o.notional <= SizeLimit("strategy")
        /\ account.total + o.notional <= SizeLimit("total")
        /\ account.cash - o.notional >= CashReserve
    BY <1>3, <2>1 DEF Fits
  <2>3. \A i \in Instruments : account'.position[i] <= SizeLimit("instrument")
    BY <1>1, <1>4, <1>5, <1>6, <2>1, <2>2 DEF WithinHard
  <2>4. \A s \in Strategies : account'.strategy[s] <= SizeLimit("strategy")
    BY <1>1, <1>4, <1>5, <1>6, <2>1, <2>2 DEF WithinHard
  <2>5. account'.total <= SizeLimit("total") /\ account'.cash + MaxSlip >= CashReserve
    BY <1>1, <1>4, <1>5, <1>6, <1>7, <2>1, <2>2
  <2> QED BY <2>3, <2>4, <2>5 DEF WithinHard, ReserveHeld
<1>9. CASE FillSell(q, slip)
  <2>1. /\ slip <= q
        /\ account' = [cash     |-> account.cash + (q - slip),
                       position |-> [account.position EXCEPT ![o.instrument] = @ - q],
                       strategy |-> [account.strategy EXCEPT ![o.strategy] = Positive(@ - q)],
                       total    |-> Positive(account.total - q)]
    BY <1>9 DEF FillSell, o
  <2>2. \A n \in Nat : Positive(n - q) <= n
    BY <1>1 DEF Positive, Greater
  <2>3. \A i \in Instruments : account'.position[i] <= SizeLimit("instrument")
    BY <1>1, <1>4, <1>5, <1>6, <2>1 DEF WithinHard
  <2>4. \A s \in Strategies : account'.strategy[s] <= SizeLimit("strategy")
    <3>1. \A n \in Nat : Positive(n - q) \in Nat
      BY <1>1 DEF Positive, Greater
    <3>2. account'.strategy =
            [account.strategy EXCEPT ![o.strategy] = Positive(account.strategy[o.strategy] - q)]
      BY <2>1
    <3> QED BY <1>4, <1>5, <1>6, <2>2, <3>1, <3>2 DEF WithinHard
  <2>5. account'.total <= SizeLimit("total")
    <3>1. account'.total = Positive(account.total - q)
      BY <2>1
    <3>2. Positive(account.total - q) \in Int
      BY <1>1, <1>5 DEF Positive, Greater
    <3> QED BY <1>5, <1>6, <2>2, <3>1, <3>2 DEF WithinHard
  <2>6. account'.cash + MaxSlip >= CashReserve
    BY <1>1, <1>5, <1>6, <1>7, <2>1 DEF ReserveHeld
  <2> QED BY <2>3, <2>4, <2>5, <2>6 DEF WithinHard, ReserveHeld
<1> QED BY <1>8, <1>9

LEMMA LimitsStep ==
  ASSUME BatchSize = 1, GateInv, LimitsInv, [Next]_vars
  PROVE  LimitsInv'
<1>1. /\ pending \in Seq(OrderIntents) /\ Len(pending) <= 1
  BY DEF GateInv, TypeOK
<1>2. ASSUME UNCHANGED account, pending' = pending \/ pending' = <<>> PROVE LimitsInv'
  BY <1>2 DEF LimitsInv, WithinHard, ReserveHeld, Fits
<1>3. ASSUME NextIntent PROVE pending' = <<>> /\ pending # <<>>
  <2>1. pending # <<>> /\ pending' = Tail(pending)
    BY <1>3 DEF NextIntent, GateInv
  <2> QED BY <1>1, <2>1
<1>4. CASE MoveKillSwitch
  BY <1>2, <1>4 DEF MoveKillSwitch
<1>5. ASSUME NEW o \in Orders, NEW m \in Markets, Check(o, m) PROVE LimitsInv'
  <2> DEFINE a == ApprovedIntent(o, m)
  <2>1. Fits(a)
    BY <1>5, ApprovalFits DEF Check, GateInv
  <2> HIDE DEF a
  <2>2. pending = <<>> /\ pending' = Append(pending, a) /\ account' = account
    BY <1>1, <1>5 DEF Check, a
  <2>3. Head(pending') = a
    BY <2>2
  <2> QED BY <2>1, <2>2, <2>3 DEF LimitsInv, WithinHard, ReserveHeld, Fits
<1>6. CASE Forward
  BY <1>2, <1>6 DEF Forward
<1>7. CASE Refuse
  BY <1>2, <1>7 DEF Refuse
<1>8. CASE NoFill
  BY <1>2, <1>3, <1>8 DEF NoFill
<1>9. ASSUME NEW q \in Quantities, NEW slip \in Slips,
             FillBuy(q, slip) \/ FillSell(q, slip)
      PROVE  LimitsInv'
  <2>1. pending' = <<>> /\ pending # <<>>
    BY <1>3, <1>9 DEF FillBuy, FillSell
  <2>2. WithinHard(account') /\ ReserveHeld'
    BY <1>9, <2>1, FillWithinLimits DEF LimitsInv
  <2> QED BY <2>1, <2>2 DEF LimitsInv, WithinHard
<1>10. ASSUME NEW o \in Orders, Reconcile(o) PROVE LimitsInv'
  BY <1>2, <1>10 DEF Reconcile
<1>11. CASE UNCHANGED vars
  BY <1>2, <1>11 DEF vars
<1> QED BY <1>4, <1>5, <1>6, <1>7, <1>8, <1>9, <1>10, <1>11 DEF Next

LEMMA LimitsInit == Init => LimitsInv
<1> SUFFICES ASSUME Init PROVE LimitsInv
  OBVIOUS
<1>1. account = Opening /\ pending = <<>>
  BY DEF Init
<1>2. Opening.cash + MaxSlip >= CashReserve
  BY DEF CashReserve, Greater, Accounts
<1> QED BY <1>1, <1>2 DEF LimitsInv, WithinHard, ReserveHeld

LEMMA LimitsInvariant ==
  ASSUME BatchSize = 1
  PROVE  Spec => []LimitsInv
<1>1. GateInv /\ LimitsInv /\ [Next]_vars => LimitsInv'
  BY LimitsStep
<1> QED BY <1>1, LimitsInit, GateInvariant, PTL DEF Spec

\* When every approval is forwarded before the next check, no sequence of
\* checks, partial fills, refusals and retries takes an exposure above the
\* policy's or the account's hard limit.
THEOREM SequentialExposure ==
  ASSUME BatchSize = 1
  PROVE  Spec => []ExposureWithinHard
<1>1. LimitsInv => ExposureWithinHard
  BY DEF LimitsInv, ExposureWithinHard
<1> QED BY <1>1, LimitsInvariant, PTL

\* Nor does it spend more of the cash reserve than one fill's slippage.
THEOREM SequentialReserve ==
  ASSUME BatchSize = 1
  PROVE  Spec => []ReserveHeld
<1>1. LimitsInv => ReserveHeld
  BY DEF LimitsInv
<1> QED BY <1>1, LimitsInvariant, PTL
-----------------------------------------------------------------------------
\* Every set of states that is not empty has one of the greatest severity:
\* load_snapshot's max() always has a value to return.
LEMMA MostSevereExists ==
  ASSUME NEW K \in SUBSET KillStates, K # {}
  PROVE  \E k \in K : \A j \in K : Severity(j) <= Severity(k)
<1>1. CASE "unknown_fail_closed" \in K
  BY <1>1 DEF KillStates, Severity
<1>2. CASE "unknown_fail_closed" \notin K /\ "halted" \in K
  BY <1>2 DEF KillStates, Severity
<1>3. CASE "unknown_fail_closed" \notin K /\ "halted" \notin K /\ "cancel_only" \in K
  BY <1>3 DEF KillStates, Severity
<1>4. CASE /\ "unknown_fail_closed" \notin K /\ "halted" \notin K
           /\ "cancel_only" \notin K /\ "reduce_only" \in K
  BY <1>4 DEF KillStates, Severity
<1>5. CASE K \subseteq {"clear", "soft_limited", "pause_new_orders"}
  BY <1>5 DEF KillStates, Severity
<1> QED BY <1>1, <1>2, <1>3, <1>4, <1>5 DEF KillStates

\* No matching record is more severe than the active state.
LEMMA ActiveStateMostSevere ==
  ASSUME NEW recs \in SUBSET KillSwitchRecord, NEW scopes,
         NEW r \in Matching(recs, scopes)
  PROVE  /\ ActiveState(recs, scopes) \in KillStates
         /\ Severity(r.new) <= Severity(ActiveState(recs, scopes))
<1> DEFINE M == Matching(recs, scopes)
           K == {o.new : o \in M}
<1>1. M \subseteq recs
  BY DEF Matching, LatestRecords
<1>2. K # {} /\ K \in SUBSET KillStates
  BY <1>1 DEF KillSwitchRecord
<1>3. \E k \in K : \A j \in K : Severity(j) <= Severity(k)
  BY <1>2, MostSevereExists
<1>4. \E k \in K : \A o \in M : Severity(o.new) <= Severity(k)
  BY <1>3
<1>5. /\ ActiveState(recs, scopes) \in K
      /\ \A o \in M : Severity(o.new) <= Severity(ActiveState(recs, scopes))
  BY <1>4 DEF ActiveState
<1> QED BY <1>2, <1>5

\* The kill states under which an approval is possible, and for what.
LEMMA ApprovedUnder ==
  ASSUME TypeOK, NEW o \in Orders, NEW m \in Markets, Approved(Request(o, m)),
         NEW k, k = ActiveState(log, ScopesOf(o))
  PROVE  \/ k \in {"clear", "soft_limited"}
         \/ /\ k \in {"pause_new_orders", "reduce_only"}
            /\ o.side = "sell" /\ o.notional <= account.position[o.instrument]
<1> DEFINE req == Request(o, m)
<1>1. KillSwitch(req) # "hard"
  BY RequestSized, ApprovalSize, SizedEvaluations
<1>2. /\ req.kill = k /\ req.order = o
      /\ req.account.position = account.position[o.instrument]
  BY DEF Request
<1>3. Sized(req)
  BY RequestSized
<1> HIDE DEF req
<1>4. /\ o.side \in {"buy", "sell"} /\ o.notional \in Nat
      /\ account.position[o.instrument] \in Nat
  BY <1>2, <1>3 DEF Sized
<1>5. \/ k \in {"clear", "soft_limited"}
      \/ k \in {"pause_new_orders", "reduce_only"} /\ ~ RiskIncreasing(req)
  BY <1>1, <1>2 DEF KillSwitch, Unless
<1> QED BY <1>2, <1>4, <1>5 DEF RiskIncreasing

LEMMA ApprovalPermitted ==
  ASSUME TypeOK, NEW o \in Orders, NEW m \in Markets, Approved(Request(o, m))
  PROVE  log # {} /\ PermittedByLog(o)
<1> DEFINE k == ActiveState(log, ScopesOf(o))
<1>1. \/ k \in {"clear", "soft_limited"}
      \/ /\ k \in {"pause_new_orders", "reduce_only"}
         /\ o.side = "sell" /\ o.notional <= account.position[o.instrument]
  BY ApprovedUnder
<1>2. log \in SUBSET KillSwitchRecord
  BY DEF TypeOK
<1>3. log # {}
  <2> SUFFICES ASSUME log = {} PROVE k = UNKNOWN
    BY <1>1 DEF UNKNOWN
  <2> QED BY DEF ActiveState, Matching, LatestRecords
<1>4. ASSUME NEW r \in LatestRecords(log), r.scope \in ScopesOf(o) \cup {GLOBAL}
      PROVE  Permits(r.new, o)
  <2>1. r \in Matching(log, ScopesOf(o))
    BY <1>4 DEF Matching
  <2>2. /\ k \in KillStates
        /\ Severity(r.new) <= Severity(k)
    BY <1>2, <2>1, ActiveStateMostSevere
  <2>3. r.new \in KillStates
    BY <1>2, <1>4 DEF LatestRecords, KillSwitchRecord
  <2> HIDE DEF k
  <2>4. CASE k \in {"clear", "soft_limited"}
    <3>1. r.new \in {"clear", "soft_limited"}
      BY <2>2, <2>3, <2>4 DEF Severity, KillStates
    <3> QED BY <3>1 DEF Permits
  <2>5. CASE k \in {"pause_new_orders", "reduce_only"}
    <3>1. r.new \in {"clear", "soft_limited", "pause_new_orders", "reduce_only"}
      BY <2>2, <2>3, <2>5 DEF Severity, KillStates
    <3>2. o.side = "sell" /\ o.notional <= account.position[o.instrument]
      BY <1>1, <2>5
    <3> QED BY <3>1, <3>2 DEF Permits
  <2> QED BY <1>1, <2>4, <2>5
<1> QED BY <1>3, <1>4 DEF PermittedByLog

\* Whatever the batch, no approval is given against the kill state of the
\* global scope or of any scope of the order.
THEOREM SwitchObeyed == Spec => KillStateGoverns
<1>1. GateInv /\ [Next]_vars =>
        [\A o \in Orders, m \in Markets :
           Check(o, m) => log # {} /\ PermittedByLog(o)]_vars
  BY ApprovalPermitted DEF GateInv, Check
<1> QED BY <1>1, GateInvariant, PTL DEF Spec, KillStateGoverns

-----------------------------------------------------------------------------
\* Why an unsettled order is not filled again: a check refuses it, a batch
\* under replay names each order once, and only a replay places orders.
RefillInv ==
  /\ GateInv
  /\ phase = "replay" => ~ DuplicateIds
  /\ \A i \in 1..Len(pending), o \in Orders :
       pending[i].id = o.id => records[o] # "placed"

LEMMA RefillInit == Init => RefillInv
  BY GateInit DEF Init, RefillInv

\* An order that is approved has no unresolved placement.
LEMMA ApprovedSettled ==
  ASSUME TypeOK, NEW o \in Orders, NEW m \in Markets, Approved(Request(o, m))
  PROVE  records[o] # "placed"
<1> DEFINE req == Request(o, m)
<1>1. ~ HardBreach(req)
  BY RequestSized, ApprovalSize
<1>2. Evaluation("execution.duplicate_idempotency", Idempotency(req), {})
        \in Evaluations(req)
  BY DEF Evaluations
<1>3. Idempotency(req) # "hard"
  BY <1>1, <1>2 DEF HardBreach, Evaluation
<1>4. req.records = IdempotencyRecords(o)
  BY DEF Request
<1> HIDE DEF req
<1>5. SUFFICES ASSUME records[o] = "placed" PROVE FALSE
  OBVIOUS
<1>6. [matches |-> {"client_order_id"}, state |-> "placed"] \in req.records
  BY <1>4, <1>5 DEF IdempotencyRecords
<1> QED BY <1>3, <1>6 DEF Idempotency, Unless, Unresolved

\* A replayed intent names the order it was approved from, which is settled;
\* the rest of the batch names other orders.
LEMMA RefillHead ==
  ASSUME RefillInv, GateInv', NextIntent
  PROVE  records[Origin] # "placed" /\ RefillInv'
<1>1. GateInv /\ ~ DuplicateIds /\ phase = "replay"
  BY DEF RefillInv, NextIntent
<1>2. /\ pending \in Seq(OrderIntents) /\ pending # <<>>
      /\ pending' = Tail(pending)
      /\ records \in [Orders -> {"none", "placed", "reconciled"}]
      /\ records' = [records EXCEPT ![Origin] = "placed"]
  BY <1>1 DEF GateInv, TypeOK, NextIntent
<1>3. /\ Head(pending) = pending[1] /\ 1 \in 1..Len(pending)
      /\ Len(pending) \in Nat
      /\ Len(pending') = Len(pending) - 1
      /\ \A i \in 1..Len(pending') :
           pending'[i] = pending[i + 1] /\ i + 1 \in 1..Len(pending) /\ i + 1 # 1
  BY <1>2
<1>4. Origin \in Orders /\ Origin.id = pending[1].id
  BY <1>1, <1>3 DEF GateInv, Origin
<1>5. records[Origin] # "placed"
  BY <1>3, <1>4 DEF RefillInv
<1>6. ~ DuplicateIds'
  <2> SUFFICES ASSUME NEW i \in 1..Len(pending'), NEW j \in 1..Len(pending'), i # j
               PROVE  pending'[i].id # pending'[j].id
    BY DEF DuplicateIds
  <2>1. i + 1 # j + 1
    BY <1>3
  <2>2. i + 1 \in 1..Len(pending) /\ j + 1 \in 1..Len(pending)
    BY <1>3
  <2>3. pending[i + 1].id # pending[j + 1].id
    BY <1>1, <2>1, <2>2 DEF DuplicateIds
  <2> QED BY <1>3, <2>3
<1>7. ASSUME NEW i \in 1..Len(pending'), NEW o \in Orders, pending'[i].id = o.id
      PROVE  records'[o] # "placed"
  <2>1. pending[i + 1].id = o.id /\ i + 1 \in 1..Len(pending)
    BY <1>3, <1>7
  <2>2. records[o] # "placed"
    BY <2>1 DEF RefillInv
  <2>3. o # Origin
    BY <1>1, <1>3, <1>4, <2>1 DEF DuplicateIds
  <2> QED BY <1>2, <2>2, <2>3
<1> QED BY <1>5, <1>6, <1>7 DEF RefillInv

LEMMA RefillStep == RefillInv /\ [Next]_vars => RefillInv'
<1> SUFFICES ASSUME RefillInv, [Next]_vars PROVE RefillInv'
  OBVIOUS
<1>0. GateInv /\ GateInv' /\ TypeOK
  BY GateStep DEF RefillInv, GateInv
<1>1. ASSUME UNCHANGED <<pending, phase, records>> PROVE RefillInv'
  BY <1>0, <1>1 DEF RefillInv, DuplicateIds
<1>2. CASE MoveKillSwitch
  BY <1>1, <1>2 DEF MoveKillSwitch
<1>3. ASSUME NEW o \in Orders, NEW m \in Markets, Check(o, m) PROVE RefillInv'
  <2> DEFINE a == ApprovedIntent(o, m)
  <2>1. a.id = o.id /\ records[o] # "placed"
    BY <1>0, <1>3, ApprovedIntentType, ApprovedSettled DEF Check, OrderIntents
  <2>2. /\ phase' = "collect" /\ records' = records
        /\ pending' = Append(pending, a)
    BY <1>3 DEF Check
  <2> HIDE DEF a
  <2>3. \A i \in 1..Len(pending') :
          pending'[i] = a \/ (i \in 1..Len(pending) /\ pending'[i] = pending[i])
    BY <1>0, <2>2 DEF TypeOK
  <2>4. ASSUME NEW i \in 1..Len(pending'), NEW p \in Orders, pending'[i].id = p.id
        PROVE  records'[p] # "placed"
    <3>1. CASE pending'[i] = a
      BY <2>1, <2>2, <2>4, <3>1
    <3>2. CASE i \in 1..Len(pending) /\ pending'[i] = pending[i]
      BY <2>2, <2>4, <3>2 DEF RefillInv
    <3> QED BY <2>3, <3>1, <3>2
  <2> QED BY <1>0, <2>2, <2>4 DEF RefillInv
<1>4. CASE Forward
  BY <1>0, <1>4 DEF Forward, RefillInv, DuplicateIds
<1>5. CASE Refuse
  BY <1>0, <1>5 DEF Refuse, RefillInv
<1>6. ASSUME NextIntent PROVE RefillInv'
  BY <1>0, <1>6, RefillHead
<1>7. ASSUME NEW o \in Orders, Reconcile(o) PROVE RefillInv'
  BY <1>0, <1>7 DEF Reconcile, RefillInv, DuplicateIds, TypeOK
<1>8. CASE UNCHANGED vars
  BY <1>1, <1>8 DEF vars
<1> QED BY <1>2, <1>3, <1>4, <1>5, <1>6, <1>7, <1>8
       DEF Next, NoFill, FillBuy, FillSell

\* Whatever the batches it is submitted in, an order whose placement is not
\* settled is not filled again.
THEOREM NoSecondFill == Spec => NoUnsettledRefill
<1>1. RefillInv /\ [Next]_vars => [account' # account => records[Origin] # "placed"]_vars
  <2> SUFFICES ASSUME RefillInv, [Next]_vars, account' # account
               PROVE  records[Origin] # "placed"
    OBVIOUS
  <2>1. NextIntent
    BY DEF Next, vars, MoveKillSwitch, Check, Forward, Refuse, NoFill, FillBuy,
           FillSell, Reconcile
  <2> QED BY <2>1, GateStep, RefillHead DEF RefillInv
<1> QED BY <1>1, RefillInit, RefillStep, PTL DEF Spec, NoUnsettledRefill

-----------------------------------------------------------------------------
\* The soft caps are exact: what changes when the same order is asked for in
\* another size is only the five sized limits.
Resized(req, sized, n) ==
  /\ sized.order.notional = n
  /\ sized.order.side = req.order.side
  /\ sized.order.type = req.order.type
  /\ sized.order.instrument = req.order.instrument
  /\ sized.account = req.account /\ sized.kill = req.kill
  /\ sized.records = req.records /\ sized.market = req.market

SizedLimits ==
  {"order.max_notional", "position.instrument_exposure",
   "position.strategy_exposure", "position.total_spot_exposure",
   "liquidity.participation"}

SizedEvaluation(req, limit) ==
  CASE limit = "order.max_notional" ->
         Evaluation(limit, OrderNotional(req), {Soft["order"]})
    [] limit = "position.instrument_exposure" ->
         Evaluation(limit, Exposure(req, "instrument"),
                    {Soft["instrument"] - req.account.exposure["instrument"]})
    [] limit = "position.strategy_exposure" ->
         Evaluation(limit, Exposure(req, "strategy"),
                    {Soft["strategy"] - req.account.exposure["strategy"]})
    [] limit = "position.total_spot_exposure" ->
         Evaluation(limit, TotalExposure(req),
                    {Soft["total"] - req.account.exposure["total"]})
    [] limit = "liquidity.participation" ->
         Evaluation(limit, Participation(req), ParticipationCap(req))

LEMMA EvaluationFields ==
  ASSUME NEW l, NEW s, NEW r
  PROVE  /\ Evaluation(l, s, r).limit = l
         /\ Evaluation(l, s, r).status = s
         /\ Evaluation(l, s, r).room = r
  BY DEF Evaluation

LEMMA SizedAmong ==
  ASSUME NEW req, NEW limit \in SizedLimits
  PROVE  SizedEvaluation(req, limit) \in Evaluations(req)
  BY DEF SizedLimits, SizedEvaluation, Evaluations

LEMMA SizedOnes ==
  ASSUME NEW req, NEW e \in Evaluations(req), e.limit \in SizedLimits
  PROVE  e = SizedEvaluation(req, e.limit)
  BY EvaluationFields DEF SizedLimits, SizedEvaluation, Evaluations

\* The other evaluations of a purchase have no room and do not look at its size.
LEMMA SteadyOnes ==
  ASSUME NEW req, NEW sized, NEW n, Resized(req, sized, n), req.order.side = "buy",
         NEW e \in Evaluations(req), e.limit \notin SizedLimits
  PROVE  e.room = {} /\ e \in Evaluations(sized)
<1>1. e.room = {}
  BY EvaluationFields DEF Evaluations, SizedLimits
<1>2. RiskIncreasing(req) /\ RiskIncreasing(sized)
  BY DEF RiskIncreasing, Resized
<1>3. /\ RequiredState(sized) = RequiredState(req)
      /\ ProductScope(sized) = ProductScope(req)
      /\ KillSwitch(sized) = KillSwitch(req)
      /\ VenueStatus(sized) = VenueStatus(req)
      /\ PriceCollar(sized) = PriceCollar(req)
  BY <1>2 DEF Resized, RequiredState, ProductScope, KillSwitch, VenueStatus, PriceCollar
<1>4. NoShortOrOversell(sized) = NoShortOrOversell(req)
  BY DEF Resized, NoShortOrOversell
<1>5. /\ Spread(sized) = Spread(req)
      /\ Volatility(sized) = Volatility(req)
      /\ DataFreshness(sized) = DataFreshness(req)
      /\ Idempotency(sized) = Idempotency(req)
      /\ EngineLatency(sized) = EngineLatency(req)
      /\ ModelDrift(sized) = ModelDrift(req)
      /\ TcaCostSlippage(sized) = TcaCostSlippage(req)
  BY DEF Resized, Spread, Volatility, DataFreshness, Idempotency, EngineLatency,
         ModelDrift, TcaCostSlippage
<1>6. sized.market = req.market
  BY DEF Resized
<1>7. e \in Evaluations(sized)
  BY <1>3, <1>4, <1>5, <1>6, EvaluationFields DEF Evaluations, SizedLimits
<1> QED BY <1>1, <1>7

\* A set of naturals has a least member, "<" being well-founded.
LEMMA LeastNatural ==
  ASSUME NEW S \in SUBSET Nat, S # {}
  PROVE  \E m \in S : \A n \in S : m <= n
<1> DEFINE R == OpToRel(<, Nat)
<1>1. IsWellFoundedOn(R, Nat)
  BY NatLessThanWellFounded
<1>2. \A x, y \in Nat : x < y => <<x, y>> \in R
  BY DEF OpToRel
<1> HIDE DEF R
<1>3. PICK m \in S : \A n \in S : ~ (<<n, m>> \in R)
  BY <1>1, WFMin
<1>4. m \in Nat /\ \A n \in S : n \in Nat /\ ~ (n < m)
  BY <1>2, <1>3
<1> QED BY <1>4

\* The tightest of several limits is one of them.
LEMMA LeastLimit ==
  ASSUME NEW S \in SUBSET Nat, S # {}
  PROVE  Least(S) \in S
<1>1. \E m \in S : \A n \in S : m <= n
  BY LeastNatural
<1> QED BY <1>1 DEF Least

LEMMA OrderLimitType == OrderLimit \in Nat
<1> DEFINE limits == {SizeLimit("order")} \cup ConstraintMax
<1>1. limits \in SUBSET Nat /\ limits # {}
  BY SizeLimitType DEF SizeNames
<1> HIDE DEF limits
<1>2. Least(limits) \in limits
  BY <1>1, LeastLimit
<1> QED BY <1>1, <1>2 DEF OrderLimit, limits

\* The three answers of a threshold, and how they change with the value.
LEMMA ThresholdAnswers ==
  ASSUME NEW v \in Int, NEW s \in Int, NEW h \in Int
  PROVE  /\ OverThreshold(v, s, h) \in {"pass", "soft", "hard"}
         /\ OverThreshold(v, s, h) = "soft" => s < v /\ v <= h
         /\ OverThreshold(v, s, h) = "pass" => v <= s /\ v <= h
         /\ v > s => OverThreshold(v, s, h) \in {"soft", "hard"}
         /\ v <= s /\ v <= h => OverThreshold(v, s, h) = "pass"
  BY DEF OverThreshold

\* The four limits that compare one amount: what is used already, the amounts
\* an order may add, and when their evaluation is not "hard" in any case.
Used(req, limit) ==
  CASE limit = "order.max_notional" -> 0
    [] limit = "position.instrument_exposure" -> req.account.exposure["instrument"]
    [] limit = "position.strategy_exposure" -> req.account.exposure["strategy"]
    [] limit = "position.total_spot_exposure" -> req.account.exposure["total"]

SoftOf(limit) ==
  CASE limit = "order.max_notional" -> Soft["order"]
    [] limit = "position.instrument_exposure" -> Soft["instrument"]
    [] limit = "position.strategy_exposure" -> Soft["strategy"]
    [] limit = "position.total_spot_exposure" -> Soft["total"]

HardOf(limit) ==
  CASE limit = "order.max_notional" -> OrderLimit
    [] limit = "position.instrument_exposure" -> SizeLimit("instrument")
    [] limit = "position.strategy_exposure" -> SizeLimit("strategy")
    [] limit = "position.total_spot_exposure" -> SizeLimit("total")

ReserveSpent(req, limit) ==
  limit = "position.total_spot_exposure" /\ CashReserveBreach(req)

LEMMA AmountLimit ==
  ASSUME NEW req, Sized(req), req.order.side = "buy",
         NEW limit \in SizedLimits \ {"liquidity.participation"}
  PROVE  /\ Used(req, limit) \in Nat /\ SoftOf(limit) \in Nat /\ HardOf(limit) \in Nat
         /\ SizedEvaluation(req, limit).room = {SoftOf(limit) - Used(req, limit)}
         /\ SizedEvaluation(req, limit).status =
              IF ReserveSpent(req, limit) THEN "hard"
              ELSE OverThreshold(Used(req, limit) + req.order.notional,
                                 SoftOf(limit), HardOf(limit))
<1>1. RiskIncreasing(req)
  BY DEF RiskIncreasing
<1>2. /\ Soft["order"] \in Nat /\ Soft["instrument"] \in Nat
      /\ Soft["strategy"] \in Nat /\ Soft["total"] \in Nat
  BY DEF LimitNames, SizeNames, ExposureKinds
<1>3. /\ SizeLimit("instrument") \in Nat /\ SizeLimit("strategy") \in Nat
      /\ SizeLimit("total") \in Nat
  BY SizeLimitType DEF SizeNames, ExposureKinds
<1>4. CASE limit = "order.max_notional"
  BY <1>1, <1>2, <1>4, OrderLimitType, EvaluationFields
     DEF SizedEvaluation, Used, SoftOf, HardOf, ReserveSpent, OrderNotional, Sized
<1>5. CASE limit = "position.instrument_exposure"
  BY <1>1, <1>2, <1>3, <1>5, EvaluationFields
     DEF SizedEvaluation, Used, SoftOf, HardOf, ReserveSpent, Exposure,
         ResultingExposure, Sized, ExposureKinds
<1>6. CASE limit = "position.strategy_exposure"
  BY <1>1, <1>2, <1>3, <1>6, EvaluationFields
     DEF SizedEvaluation, Used, SoftOf, HardOf, ReserveSpent, Exposure,
         ResultingExposure, Sized, ExposureKinds
<1>7. CASE limit = "position.total_spot_exposure"
  BY <1>1, <1>2, <1>3, <1>7, EvaluationFields
     DEF SizedEvaluation, Used, SoftOf, HardOf, ReserveSpent, TotalExposure, Exposure,
         ResultingExposure, Sized, ExposureKinds
<1> QED BY <1>4, <1>5, <1>6, <1>7 DEF SizedLimits

\* Volume is looked at before depth and one cap is kept for both: it is the
\* tighter one only if the volume check never allows more than the depth check.
VolumeBindsFirst(market) ==
  \A v \in market.volume, d \in market.depth : v.soft <= d.soft

LEMMA ParticipationRoom ==
  ASSUME NEW req, Sized(req), Participation(req) = "soft"
  PROVE  /\ ParticipationCap(req) # {}
         /\ \A c \in ParticipationCap(req) :
              /\ c \in Nat /\ c < req.order.notional
              /\ \E check \in Checks(req) : check.soft = c
<1>1. \E c \in Checks(req) : req.order.notional > c.soft
  BY DEF Participation
<1>2. \A c, d \in req.market.depth : c = d
  BY DEF Sized
<1>3. \A c, d \in req.market.volume : c = d
  BY DEF Sized
<1>4. \A c \in Checks(req) : c.soft \in Nat
  BY DEF Sized, Checks
<1>5. CASE \E c \in req.market.volume : req.order.notional > c.soft
  BY <1>3, <1>4, <1>5 DEF ParticipationCap, Checks, Sized
<1>6. CASE ~ \E c \in req.market.volume : req.order.notional > c.soft
  BY <1>1, <1>2, <1>4, <1>6 DEF ParticipationCap, Checks, Sized
<1> QED BY <1>5, <1>6

\* A soft breach leaves room for less than was asked ...
LEMMA RoomBelowRequest ==
  ASSUME NEW req, Sized(req), req.order.side = "buy", NEW limit \in SizedLimits,
         SizedEvaluation(req, limit).status = "soft"
  PROVE  /\ SizedEvaluation(req, limit).room # {}
         /\ \A c \in SizedEvaluation(req, limit).room :
              c \in Int /\ c < req.order.notional
<1>1. CASE limit = "liquidity.participation"
  <2>1. SizedEvaluation(req, limit) =
          Evaluation(limit, Participation(req), ParticipationCap(req))
    BY <1>1 DEF SizedEvaluation
  <2>2. /\ SizedEvaluation(req, limit).room = ParticipationCap(req)
        /\ Participation(req) = "soft"
    BY <2>1, EvaluationFields
  <2> QED BY <2>2, ParticipationRoom
<1>2. CASE limit # "liquidity.participation"
  <2>1. req.order.notional \in Nat
    BY DEF Sized
  <2>2. /\ Used(req, limit) \in Nat /\ SoftOf(limit) \in Nat /\ HardOf(limit) \in Nat
        /\ SizedEvaluation(req, limit).room = {SoftOf(limit) - Used(req, limit)}
        /\ OverThreshold(Used(req, limit) + req.order.notional,
                         SoftOf(limit), HardOf(limit)) = "soft"
    BY <1>2, AmountLimit
  <2>3. SoftOf(limit) < Used(req, limit) + req.order.notional
    BY <2>1, <2>2, ThresholdAnswers
  <2> QED BY <2>1, <2>2, <2>3
<1> QED BY <1>1, <1>2

\* ... more than the room breaches the limit again ...
LEMMA RoomExceeded ==
  ASSUME NEW req, NEW sized, NEW k \in Nat \ {0},
         Sized(req), Sized(sized), Resized(req, sized, k), req.order.side = "buy",
         NEW limit \in SizedLimits, SizedEvaluation(req, limit).status = "soft",
         NEW c \in SizedEvaluation(req, limit).room, k > c
  PROVE  SizedEvaluation(sized, limit).status \in {"soft", "hard"}
<1>1. CASE limit = "liquidity.participation"
  <2>1. /\ SizedEvaluation(req, limit) =
             Evaluation(limit, Participation(req), ParticipationCap(req))
        /\ SizedEvaluation(sized, limit) =
             Evaluation(limit, Participation(sized), ParticipationCap(sized))
    BY <1>1 DEF SizedEvaluation
  <2>2. /\ SizedEvaluation(req, limit).room = ParticipationCap(req)
        /\ SizedEvaluation(sized, limit).status = Participation(sized)
        /\ Participation(req) = "soft"
    BY <2>1, EvaluationFields
  <2>3. PICK check \in Checks(req) : check.soft = c
    BY <2>2, ParticipationRoom
  <2>4. check \in Checks(sized) /\ sized.order.notional > check.soft
    BY <2>3 DEF Resized, Checks
  <2> QED BY <2>2, <2>4 DEF Participation
<1>2. CASE limit # "liquidity.participation"
  <2>1. /\ sized.order.side = "buy" /\ sized.order.notional = k
        /\ sized.account = req.account
    BY DEF Resized
  <2>2. /\ Used(req, limit) \in Nat /\ SoftOf(limit) \in Nat /\ HardOf(limit) \in Nat
        /\ c = SoftOf(limit) - Used(req, limit)
    BY <1>2, AmountLimit
  <2>5. Used(sized, limit) = Used(req, limit)
    BY <2>1 DEF Used
  <2>3. SizedEvaluation(sized, limit).status =
          IF ReserveSpent(sized, limit) THEN "hard"
          ELSE OverThreshold(Used(req, limit) + k, SoftOf(limit), HardOf(limit))
    BY <1>2, <2>1, <2>2, <2>5, AmountLimit
  <2>4. Used(req, limit) + k \in Int /\ Used(req, limit) + k > SoftOf(limit)
    BY <2>2
  <2> QED BY <2>2, <2>3, <2>4, ThresholdAnswers
<1> QED BY <1>1, <1>2

\* ... and no more than it, does not.
LEMMA WithinRoom ==
  ASSUME NEW req, NEW sized, NEW n \in Nat \ {0}, n <= req.order.notional,
         Sized(req), Sized(sized), Resized(req, sized, n), req.order.side = "buy",
         VolumeBindsFirst(req.market),
         NEW limit \in SizedLimits, SizedEvaluation(req, limit).status # "hard",
         \A c \in SizedEvaluation(req, limit).room :
           SizedEvaluation(req, limit).status = "soft" => n <= c
  PROVE  SizedEvaluation(sized, limit).status = "pass"
<1>1. CASE limit = "liquidity.participation"
  <2>1. /\ SizedEvaluation(req, limit) =
             Evaluation(limit, Participation(req), ParticipationCap(req))
        /\ SizedEvaluation(sized, limit) =
             Evaluation(limit, Participation(sized), ParticipationCap(sized))
    BY <1>1 DEF SizedEvaluation
  <2>2. /\ SizedEvaluation(req, limit).room = ParticipationCap(req)
        /\ SizedEvaluation(sized, limit).status = Participation(sized)
        /\ SizedEvaluation(req, limit).status = Participation(req)
    BY <2>1, EvaluationFields
  <2>3. /\ sized.order.notional = n
        /\ Checks(sized) = Checks(req)
        /\ sized.market = req.market
    BY DEF Resized, Checks
  <2>4. \A c \in Checks(req) : c.soft \in Nat /\ c.hard \in Nat
    BY DEF Sized, Checks
  <2>5. req.order.notional \in Nat
    BY DEF Sized
  <2>6. ~ (req.market.depth_required /\ req.market.depth = {})
    BY <2>2 DEF Participation
  <2>7. \A c \in Checks(req) : n <= c.hard
    <3>1. \A c \in Checks(req) : ~ req.order.notional > c.hard
      BY <2>2 DEF Participation
    <3> QED BY <2>4, <2>5, <3>1
  <2>8. \A c \in Checks(req) : n <= c.soft
    <3>1. CASE Participation(req) # "soft"
      <4>1. \A c \in Checks(req) : ~ req.order.notional > c.soft
        BY <2>2, <3>1 DEF Participation
      <4> QED BY <2>4, <2>5, <4>1
    <3>2. CASE Participation(req) = "soft"
      <4>1. \A c \in ParticipationCap(req) : n <= c
        BY <2>2, <3>2
      <4>2. CASE \E v \in req.market.volume : req.order.notional > v.soft
        <5>1. PICK v \in req.market.volume : req.order.notional > v.soft
          BY <4>2
        <5>2. n <= v.soft /\ v.soft \in Nat
          BY <2>4, <4>1, <4>2 DEF ParticipationCap, Checks
        <5>3. \A w \in req.market.volume : w = v
          BY DEF Sized
        <5> QED BY <2>4, <5>2, <5>3 DEF VolumeBindsFirst, Checks
      <4>3. CASE ~ \E v \in req.market.volume : req.order.notional > v.soft
        <5>1. \A d \in req.market.depth : n <= d.soft
          BY <4>1, <4>3 DEF ParticipationCap
        <5>2. \A v \in req.market.volume : n <= v.soft
          BY <2>4, <2>5, <4>3 DEF Checks
        <5> QED BY <5>1, <5>2 DEF Checks
      <4> QED BY <4>2, <4>3
    <3> QED BY <3>1, <3>2
  <2>9. \A c \in Checks(req) : ~ n > c.hard /\ ~ n > c.soft
    BY <2>4, <2>7, <2>8
  <2> QED BY <2>2, <2>3, <2>6, <2>9 DEF Participation
<1>2. CASE limit # "liquidity.participation"
  <2>1. /\ sized.order.side = "buy" /\ sized.order.notional = n
        /\ req.order.notional \in Nat
        /\ req.account.cash \in Nat /\ sized.account = req.account
    BY DEF Resized, Sized
  <2>2. /\ Used(req, limit) \in Nat /\ SoftOf(limit) \in Nat /\ HardOf(limit) \in Nat
        /\ SizedEvaluation(req, limit).room = {SoftOf(limit) - Used(req, limit)}
    BY <1>2, AmountLimit
  <2>8. Used(sized, limit) = Used(req, limit)
    BY <2>1 DEF Used
  <2>7. /\ SizedEvaluation(req, limit).status =
             OverThreshold(Used(req, limit) + req.order.notional,
                           SoftOf(limit), HardOf(limit))
        /\ ~ ReserveSpent(req, limit)
    BY <1>2, AmountLimit
  <2>3. SizedEvaluation(sized, limit).status =
          IF ReserveSpent(sized, limit) THEN "hard"
          ELSE OverThreshold(Used(req, limit) + n, SoftOf(limit), HardOf(limit))
    BY <1>2, <2>1, <2>2, <2>8, AmountLimit
  <2>4. ~ ReserveSpent(sized, limit)
    <3>1. CashReserve \in Nat
      BY DEF CashReserve, Greater
    <3>2. RiskIncreasing(req)
      BY DEF RiskIncreasing
    <3>3. CashReserveBreach(sized) => CashReserveBreach(req)
      BY <2>1, <3>1, <3>2 DEF CashReserveBreach, ResultingCash
    <3> QED BY <2>7, <3>3 DEF ReserveSpent
  <2>5. Used(req, limit) + n <= SoftOf(limit) /\ Used(req, limit) + n <= HardOf(limit)
    <3> DEFINE v == Used(req, limit) + req.order.notional
    <3>1. v \in Int
      BY <2>1, <2>2
    <3>2. v <= HardOf(limit)
      BY <2>2, <2>7, <3>1, ThresholdAnswers
    <3>3. CASE OverThreshold(v, SoftOf(limit), HardOf(limit)) = "soft"
      <4>1. n <= SoftOf(limit) - Used(req, limit)
        BY <2>2, <2>7, <3>3
      <4> QED BY <2>1, <2>2, <3>2, <4>1
    <3>4. CASE OverThreshold(v, SoftOf(limit), HardOf(limit)) = "pass"
      <4>1. v <= SoftOf(limit)
        BY <2>2, <3>1, <3>4, ThresholdAnswers
      <4> QED BY <2>1, <2>2, <3>2, <4>1
    <3> QED BY <2>2, <2>7, <3>1, <3>3, <3>4, ThresholdAnswers
  <2>6. Used(req, limit) + n \in Int
    BY <2>2
  <2> QED BY <2>2, <2>3, <2>4, <2>5, <2>6, ThresholdAnswers
<1> QED BY <1>1, <1>2

\* A size is too much when a soft breach leaves no room, or less.
LEMMA TooMuch ==
  ASSUME NEW req, NEW sized, NEW k \in Nat \ {0},
         Sized(req), Sized(sized), Resized(req, sized, k), req.order.side = "buy",
         NEW e \in SoftBreaches(req), e.room = {} \/ \E c \in e.room : k > c
  PROVE  HardBreach(sized) \/ SoftBreaches(sized) # {}
<1>1. e \in Evaluations(req) /\ e.status = "soft"
  BY DEF SoftBreaches
<1>2. CASE e.limit \notin SizedLimits
  <2>1. e \in Evaluations(sized)
    BY <1>1, <1>2, SteadyOnes
  <2> QED BY <1>1, <2>1 DEF SoftBreaches
<1>3. CASE e.limit \in SizedLimits
  <2>1. e = SizedEvaluation(req, e.limit)
    BY <1>1, <1>3, SizedOnes
  <2>2. SizedEvaluation(req, e.limit).status = "soft"
    BY <1>1, <2>1
  <2>3. PICK c \in SizedEvaluation(req, e.limit).room : k > c
    BY <1>3, <2>1, <2>2, RoomBelowRequest
  <2>4. SizedEvaluation(sized, e.limit).status \in {"soft", "hard"}
    BY <1>3, <2>2, <2>3, RoomExceeded
  <2>5. SizedEvaluation(sized, e.limit) \in Evaluations(sized)
    BY <1>3, SizedAmong
  <2> QED BY <2>4, <2>5 DEF SoftBreaches, HardBreach
<1> QED BY <1>2, <1>3

\* A size within the room of every soft breach breaches nothing.
LEMMA JustEnough ==
  ASSUME NEW req, NEW sized, NEW n \in Nat \ {0}, n <= req.order.notional,
         Sized(req), Sized(sized), Resized(req, sized, n), req.order.side = "buy",
         VolumeBindsFirst(req.market), ~ HardBreach(req),
         \A e \in SoftBreaches(req) : e.room # {} /\ \A c \in e.room : n <= c
  PROVE  ~ HardBreach(sized) /\ SoftBreaches(sized) = {}
<1> SUFFICES ASSUME NEW e \in Evaluations(sized) PROVE e.status \notin {"soft", "hard"}
  BY DEF HardBreach, SoftBreaches
<1>1. CASE e.limit \notin SizedLimits
  <2>1. Resized(sized, req, req.order.notional) /\ sized.order.side = "buy"
    BY DEF Resized
  <2>2. e.room = {} /\ e \in Evaluations(req)
    BY <1>1, <2>1, SteadyOnes
  <2> QED BY <2>2 DEF HardBreach, SoftBreaches
<1>2. CASE e.limit \in SizedLimits
  <2> DEFINE r == SizedEvaluation(req, e.limit)
  <2>1. e = SizedEvaluation(sized, e.limit) /\ r \in Evaluations(req)
    BY <1>2, SizedOnes, SizedAmong
  <2>2. r.status # "hard" /\ \A c \in r.room : r.status = "soft" => n <= c
    BY <2>1 DEF HardBreach, SoftBreaches
  <2>3. SizedEvaluation(sized, e.limit).status = "pass"
    BY <1>2, <2>2, WithinRoom
  <2> QED BY <2>1, <2>3
<1> QED BY <1>1, <1>2

\* The request of the same order in another size.
LEMMA RequestResized ==
  ASSUME TypeOK, NEW o \in Orders, NEW m \in Markets, NEW n \in Nat \ {0},
         NEW sized, sized = [Request(o, m) EXCEPT !.order.notional = n]
  PROVE  /\ Resized(Request(o, m), sized, n)
         /\ Sized(sized)
         /\ n = o.notional => sized = Request(o, m)
<1> DEFINE req == Request(o, m)
<1>1. o \in OrderIntents
  OBVIOUS
<1>2. req.order = o /\ Sized(req)
  BY RequestSized DEF Request
<1>3. sized = [req EXCEPT !.order = [o EXCEPT !.notional = n]]
  BY <1>2
<1>4. /\ sized.order = [o EXCEPT !.notional = n]
      /\ sized.account = req.account /\ sized.kill = req.kill
      /\ sized.records = req.records /\ sized.market = req.market
  BY <1>3 DEF Request
<1>5. n = o.notional => sized = req
  <2>1. n = o.notional => [o EXCEPT !.notional = n] = o
    BY <1>1 DEF OrderIntents
  <2>2. [req EXCEPT !.order = o] = req
    BY DEF Request
  <2> HIDE DEF req
  <2> QED BY <1>3, <2>1, <2>2
<1> HIDE DEF req
<1>6. /\ sized.order.notional = n /\ sized.order.side = o.side
      /\ sized.order.type = o.type /\ sized.order.instrument = o.instrument
  BY <1>1, <1>4 DEF OrderIntents
<1>7. Resized(req, sized, n)
  BY <1>2, <1>4, <1>6 DEF Resized
<1>8. Sized(sized)
  BY <1>2, <1>4, <1>6 DEF Sized
<1> QED BY <1>5, <1>7, <1>8 DEF req

LEMMA DecisionExact ==
  ASSUME TypeOK, NEW o \in Orders, NEW m \in Markets, VolumeBindsFirst(m),
         NEW req, req = Request(o, m),
         NEW d, d = RiskDecision(req), d.decision # "rejected"
  PROVE  /\ d.notional = 0 \/ Unbreached(req, d.notional)
         /\ \A k \in (d.notional + 1)..o.notional : ~ Unbreached(req, k)
<1>1. Sized(req) /\ req.order = o /\ req.market = m
  BY RequestSized DEF Request
<1>2. o.notional \in Nat \ {0} /\ o.side \in {"buy", "sell"}
  BY <1>1 DEF Sized
<1>3. ~ HardBreach(req) /\ d = AfterSoftCaps(req)
  BY DEF RiskDecision
<1>4. ASSUME NEW n \in Nat \ {0}
      PROVE  LET sized == [req EXCEPT !.order.notional = n]
             IN /\ Sized(sized) /\ Resized(req, sized, n)
                /\ n = o.notional => sized = req
  BY RequestResized
<1>5. ASSUME d.notional = o.notional, o.side = "sell" \/ SoftBreaches(req) = {}
      PROVE  Unbreached(req, d.notional)
  BY <1>1, <1>2, <1>3, <1>4, <1>5 DEF Unbreached
<1>6. CASE o.side = "sell" \/ SoftBreaches(req) = {}
  <2>1. d.notional = o.notional
    BY <1>1, <1>3, <1>6 DEF AfterSoftCaps
  <2> QED BY <1>2, <1>5, <1>6, <2>1
<1>7. ASSUME o.side = "buy", SoftBreaches(req) # {}
      PROVE  /\ d.notional = 0 \/ Unbreached(req, d.notional)
             /\ \A k \in (d.notional + 1)..o.notional : ~ Unbreached(req, k)
  <2> DEFINE shut == \/ \E e \in SoftBreaches(req) : e.room = {}
                     \/ \E c \in Caps(req) : c <= 0
  <2>1. ASSUME NEW k \in Nat \ {0}, NEW e \in SoftBreaches(req),
               e.room = {} \/ \E c \in e.room : k > c
        PROVE  ~ Unbreached(req, k)
    <3> DEFINE sized == [req EXCEPT !.order.notional = k]
    <3>1. Sized(sized) /\ Resized(req, sized, k)
      BY <1>4
    <3> HIDE DEF sized
    <3>2. HardBreach(sized) \/ SoftBreaches(sized) # {}
      BY <1>1, <1>7, <2>1, <3>1, TooMuch
    <3> QED BY <1>1, <1>7, <3>2 DEF Unbreached, sized
  <2>2. Caps(req) \subseteq Int
    BY <1>1, CapsHaveLeast
  <2>3. CASE shut
    <3>1. d.notional = 0
      BY <1>1, <1>3, <1>7, <2>3 DEF AfterSoftCaps
    <3>2. ASSUME NEW k \in 1..o.notional PROVE ~ Unbreached(req, k)
      <4>1. k \in Nat \ {0}
        OBVIOUS
      <4>2. CASE \E e \in SoftBreaches(req) : e.room = {}
        BY <2>1, <4>1, <4>2
      <4>3. CASE \E c \in Caps(req) : c <= 0
        <5>1. PICK e \in SoftBreaches(req) : \E c \in e.room : c <= 0
          BY <4>3 DEF Caps
        <5>2. \E c \in e.room : k > c
          BY <2>2, <4>1, <5>1 DEF Caps
        <5> QED BY <2>1, <4>1, <5>2
      <4> QED BY <2>3, <4>2, <4>3
    <3> QED BY <3>1, <3>2
  <2>4. CASE ~ shut
    <3> DEFINE n == AllowedNotional(req)
    <3>1. /\ \A e \in SoftBreaches(req) : e.room # {}
          /\ \A c \in Caps(req) : c > 0
          /\ Caps(req) # {}
      BY <1>7, <2>2, <2>4 DEF Caps
    <3>2. n \in Caps(req) /\ \A c \in Caps(req) : n <= c
      BY <1>1, <3>1, CapsHaveLeast
    <3>3. n \in Nat \ {0}
      BY <2>2, <3>1, <3>2
    <3> HIDE DEF n
    <3>4. PICK e \in SoftBreaches(req) : n \in e.room
      BY <3>2 DEF Caps
    <3>5. n < o.notional
      <4>1. e \in Evaluations(req) /\ e.status = "soft" /\ e.room # {}
        BY <3>1 DEF SoftBreaches
      <4>2. e.limit \in SizedLimits
        BY <1>1, <1>7, <4>1, SteadyOnes DEF Resized
      <4>3. e = SizedEvaluation(req, e.limit)
        BY <4>1, <4>2, SizedOnes
      <4>4. SizedEvaluation(req, e.limit).status = "soft"
        BY <4>1, <4>3
      <4>5. \A c \in SizedEvaluation(req, e.limit).room : c < req.order.notional
        BY <1>1, <1>7, <4>2, <4>4, RoomBelowRequest
      <4> QED BY <1>1, <3>4, <4>3, <4>5
    <3>6. d.notional = n
      <4>1. ~ n >= o.notional
        BY <1>2, <3>3, <3>5
      <4> QED BY <1>1, <1>3, <1>7, <2>4, <4>1 DEF AfterSoftCaps, n
    <3>7. Unbreached(req, n)
      <4> DEFINE sized == [req EXCEPT !.order.notional = n]
      <4>1. Sized(sized) /\ Resized(req, sized, n)
        BY <1>4, <3>3
      <4> HIDE DEF sized
      <4>2. \A f \in SoftBreaches(req) : f.room # {} /\ \A c \in f.room : n <= c
        BY <3>1, <3>2 DEF Caps
      <4>3. n <= req.order.notional
        BY <1>1, <1>2, <3>3, <3>5
      <4>4. ~ HardBreach(sized) /\ SoftBreaches(sized) = {}
        BY <1>1, <1>3, <1>7, <3>3, <4>1, <4>2, <4>3, JustEnough
      <4> QED BY <4>4 DEF Unbreached, sized
    <3>8. \A k \in (n + 1)..o.notional : ~ Unbreached(req, k)
      <4> TAKE k \in (n + 1)..o.notional
      <4>1. k \in Nat \ {0} /\ k > n
        BY <1>2, <3>3
      <4> QED BY <2>1, <3>4, <4>1
    <3> QED BY <3>6, <3>7, <3>8
  <2> QED BY <2>3, <2>4
<1> QED BY <1>2, <1>6, <1>7

\* When the volume check never allows more than the depth check, soft limits
\* cap every order to the largest size that breaches none of them, for every
\* policy, account and market.
THEOREM CapsAreExact ==
  ASSUME \A m \in Markets : VolumeBindsFirst(m)
  PROVE  Spec => []DecisionIsLargestSize
<1>1. GateInv => DecisionIsLargestSize
  BY DecisionExact DEF GateInv, DecisionIsLargestSize
<1> QED BY <1>1, GateInvariant, PTL
=============================================================================
