------------------------------- MODULE RiskGate -------------------------------
(***************************************************************************)
(* The path of an order: a request is built from the account and from the  *)
(* kill state in force, risk/engine.py decides on it, and the approved     *)
(* intents of a batch of events are replayed one after another against the *)
(* account's balances (risk/replay.py, execution/gateway.py).  An operator *)
(* moves the kill switch at any time: its log is the one of KillSwitch,    *)
(* which KillSwitchStore implements.                                       *)
(*                                                                         *)
(* The reference price does not move, so a quantity is its notional and a  *)
(* position its exposure; what a fill costs beyond that (next bar's open,  *)
(* spread, slippage, fee) is the adverse amount "slip".                    *)
(***************************************************************************)
EXTENDS RiskLimits, KillSwitchRecords, Sequences

CONSTANTS
  Instruments, Strategies,
  Orders,       \* order intents that callers submit, and submit again
  Markets,      \* telemetry and metadata a request may carry
  Slips,        \* adverse amounts of a fill
  MaxSlip,      \* the largest of them
  Opening,      \* the account to start with
  BatchSize     \* events handed to the gateway together

OrderIntents ==
  [id : STRING, side : {"buy", "sell"}, instrument : Instruments,
   strategy : Strategies, notional : Nat \ {0}, type : {"market", "limit"}]

Accounts ==
  [cash : Nat, position : [Instruments -> Nat], strategy : [Strategies -> Nat],
   total : Nat]

ASSUME OrdersAssumption ==
  /\ Orders \subseteq OrderIntents
  /\ \A o, p \in Orders : o.id = p.id => o = p
\* What the size caps read of a market.
ASSUME MarketsAssumption ==
  \A m \in Markets :
    /\ m.volume \cup m.depth \subseteq [soft : Nat, hard : Nat]
    /\ \A c, d \in m.volume : c = d
    /\ \A c, d \in m.depth : c = d
ASSUME SlipsAssumption ==
  Slips \subseteq Int /\ MaxSlip \in Nat /\ \A s \in Slips : s <= MaxSlip
ASSUME BatchAssumption == BatchSize \in Nat \ {0}

\* An account within every size limit and with its cash reserve.
WithinHard(a) ==
  /\ \A i \in Instruments : a.position[i] <= SizeLimit("instrument")
  /\ \A s \in Strategies : a.strategy[s] <= SizeLimit("strategy")
  /\ a.total <= SizeLimit("total")

ASSUME OpeningAssumption ==
  Opening \in Accounts /\ WithinHard(Opening) /\ Opening.cash >= CashReserve

VARIABLES
  log,      \* the kill-switch log
  account,  \* SimulatedAccountState and the exposures callers derive from it
  pending,  \* approved intents of the batch, not replayed yet
  phase,    \* "collect" events or "replay" them
  records   \* idempotency state of each order, "none" before it was placed

vars == <<log, account, pending, phase, records>>

\* Types; balances, positions and exposures never go below zero.
TypeOK ==
  /\ log \subseteq KillSwitchRecord
  /\ account \in Accounts
  /\ pending \in Seq(OrderIntents)
  /\ Len(pending) <= BatchSize
  /\ phase \in {"collect", "replay"}
  /\ records \in [Orders -> {"none", "placed", "reconciled"}]

Init ==
  /\ log = {}
  /\ account = Opening
  /\ pending = <<>>
  /\ phase = "collect"
  /\ records = [o \in Orders |-> "none"]
-----------------------------------------------------------------------------
Switch == INSTANCE KillSwitch

\* The operator's transition.
MoveKillSwitch ==
  /\ \E r \in KillSwitchRecord : Switch!Commit(r)
  /\ UNCHANGED <<account, pending, phase, records>>

ScopesOf(o) == {o.instrument, o.strategy}

\* The record of an order names its own key, client_order_id and trace.
IdempotencyRecords(o) ==
  IF records[o] = "none" THEN {}
  ELSE {[matches |-> {"client_order_id"}, state |-> records[o]]}

\* make_risk_check_request from the account as it is now.
Request(o, m) ==
  [order   |-> o,
   account |-> [cash     |-> account.cash,
                position |-> account.position[o.instrument],
                exposure |-> [instrument |-> account.position[o.instrument],
                              strategy   |-> account.strategy[o.strategy],
                              total      |-> account.total]],
   kill    |-> ActiveState(log, ScopesOf(o)),
   records |-> IdempotencyRecords(o),
   market  |-> m]

\* The intent an event approves.
ApprovedIntent(o, m) == [o EXCEPT !.notional = RiskDecision(Request(o, m)).notional]

\* evaluate_pre_trade_risk; an event without an approved intent is blocked
\* and changes nothing.
Check(o, m) ==
  /\ phase = "collect" /\ Len(pending) < BatchSize
  /\ Approved(Request(o, m))
  /\ pending' = Append(pending, ApprovedIntent(o, m))
  /\ UNCHANGED <<log, account, phase, records>>

DuplicateIds ==
  \E i, j \in 1..Len(pending) : i # j /\ pending[i].id = pending[j].id

\* The batch goes to replay_ohlctv_market_orders, or is refused whole: two
\* intents with one client_order_id are a ReplayBuildError.
Forward ==
  /\ phase = "collect" /\ pending # <<>> /\ ~ DuplicateIds
  /\ phase' = "replay"
  /\ UNCHANGED <<log, account, pending, records>>

Refuse ==
  /\ phase = "collect" /\ DuplicateIds
  /\ pending' = <<>>
  /\ UNCHANGED <<log, account, phase, records>>

\* The order that the head of the batch was approved from.
Origin == CHOOSE o \in Orders : o.id = Head(pending).id

NextIntent ==
  /\ phase = "replay"
  /\ pending' = Tail(pending)
  /\ phase' = IF Len(pending) = 1 THEN "collect" ELSE "replay"
  /\ records' = [records EXCEPT ![Origin] = "placed"]
  /\ UNCHANGED log

\* Refused by metadata, by the constraint or the balance, or no eligible bar.
NoFill == NextIntent /\ UNCHANGED account

Quantities == IF phase = "replay" THEN 1..Head(pending).notional ELSE {}

\* _apply_balance_or_reject for a fill of q, full or partial.
FillBuy(q, slip) ==
  LET o == Head(pending) IN
  /\ NextIntent
  /\ o.side = "buy" /\ 0 <= q + slip
  /\ account.cash >= q + slip
  /\ account' = [cash     |-> account.cash - (q + slip),
                 position |-> [account.position EXCEPT ![o.instrument] = @ + q],
                 strategy |-> [account.strategy EXCEPT ![o.strategy] = @ + q],
                 total    |-> account.total + q]

FillSell(q, slip) ==
  LET o == Head(pending) IN
  /\ NextIntent
  /\ o.side = "sell" /\ slip <= q
  /\ account.position[o.instrument] >= q
  /\ account' = [cash     |-> account.cash + (q - slip),
                 position |-> [account.position EXCEPT ![o.instrument] = @ - q],
                 strategy |-> [account.strategy EXCEPT ![o.strategy] = Positive(@ - q)],
                 total    |-> Positive(account.total - q)]

\* The caller settles what became of an order it placed.
Reconcile(o) ==
  /\ records[o] = "placed"
  /\ records' = [records EXCEPT ![o] = "reconciled"]
  /\ UNCHANGED <<log, account, pending, phase>>

Next ==
  \/ MoveKillSwitch
  \/ \E o \in Orders, m \in Markets : Check(o, m)
  \/ Forward
  \/ Refuse
  \/ NoFill
  \/ \E q \in Quantities, slip \in Slips : FillBuy(q, slip) \/ FillSell(q, slip)
  \/ \E o \in Orders : Reconcile(o)

Spec == Init /\ [][Next]_vars
-----------------------------------------------------------------------------
\* S0-003 4: no approval, capped or not, takes an exposure above its hard
\* limit, whatever sequence of checks and fills led there.
ExposureWithinHard == WithinHard(account)

\* Buying never spends the cash reserve, but for what the last fill cost
\* beyond the reference price.
ReserveHeld == account.cash + MaxSlip >= CashReserve

\* A request of n that leaves no limit breached, soft or hard; a sell passes
\* soft limits.
Unbreached(req, n) ==
  LET sized == [req EXCEPT !.order.notional = n]
  IN ~ HardBreach(sized) /\ (req.order.side = "sell" \/ SoftBreaches(sized) = {})

\* Soft limits cap to the largest size that breaches none of them: an order
\* that is not rejected is approved for exactly that, and for NO_TRADE when
\* nothing fits (S0-003 5, "cap to soft limit").
DecisionIsLargestSize ==
  \A o \in Orders, m \in Markets :
    LET req == Request(o, m)
        n   == RiskDecision(req).notional
    IN RiskDecision(req).decision # "rejected" =>
         /\ n = 0 \/ Unbreached(req, n)
         /\ \A k \in (n + 1)..o.notional : ~ Unbreached(req, k)

\* The table of S0-003 6: what each state lets through.
Permits(state, o) ==
  CASE state \in {"clear", "soft_limited"} -> TRUE
    [] state \in {"pause_new_orders", "reduce_only"} ->
         o.side = "sell" /\ o.notional <= account.position[o.instrument]
    [] OTHER -> FALSE

PermittedByLog(o) ==
  \A r \in LatestRecords(log) :
    r.scope \in ScopesOf(o) \cup {GLOBAL} => Permits(r.new, o)

\* "The most restrictive active state across matching scopes wins" (S0-003 6):
\* no approval is given against the state of the global scope or of any
\* scope of the order, nor before the switch was initialised.
KillStateGoverns ==
  [][\A o \in Orders, m \in Markets :
       Check(o, m) => log # {} /\ PermittedByLog(o)]_vars

\* An order whose earlier placement is not settled is not filled again,
\* whichever batches it is submitted in (RISK-007: retries create duplicate
\* exposure).
NoUnsettledRefill ==
  [][account' # account => records[Origin] # "placed"]_vars
=============================================================================
