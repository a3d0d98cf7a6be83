# TA-Model-V2 in TLA+

A verification project for `src/src/ta_model`, the deterministic research, risk
and paper-trading core of TA-Model-V2: TLA+ modules translated from the Python
source, TLC configurations that model-check them on small instances, and proofs
that TLAPS checks for every value of the constants.

Paths below are relative to `src/src/ta_model` unless they start with `src/`.
`PROJECT.json` says which lines each definition stands for.

- [1 Inventory](#1-inventory)
- [2 Modules and how they correspond to the code](#2-modules-and-how-they-correspond-to-the-code)
- [3 Runs](#3-runs)
- [4 Proofs](#4-proofs)
- [5 Where code and documents disagree](#5-where-code-and-documents-disagree)
- [6 What is not modelled](#6-what-is-not-modelled)
- [7 Plan](#7-plan)

To repeat a run: `tlc -config <run>.cfg <module>` with the module of
`PROJECT.json`; to repeat the proofs: `tlapm <module>.tla`.

## 1 Inventory

The system is about 21,000 lines of sequential Python. Almost all of it is pure:
functions over frozen pydantic contracts that carry content hashes, so that every
artifact names the artifacts it was built from. It has no threads and no event
loop; what makes it hard is elsewhere:

- two stores on the file system that several processes may share, without locks
  or fsync (kill switch, bronze payloads);
- decisions taken on a snapshot (account, kill state, telemetry) and used later;
- arithmetic of limits, caps, fills and costs, each computed at two places that
  must agree;
- event streams and historical pages that arrive shuffled, repeated or with holes;
- event time: no feature, forecast, decision or fill may use what was not known yet;
- evidence of all this, kept outside the source, from which an auditor rebuilds a
  decision: whatever was lost or altered must make the rebuild fail.

| Component | State | Operations | Talks to | What makes it correct |
|---|---|---|---|---|
| Kill switch store (`risk/kill_switch.py`) | one JSON log on disk, a temporary file with a fixed name | `load_snapshot`, `transition` | operators, risk requests | fails closed where it can read at all; a returned transition is durable and enforced; prior states chain |
| Pre-trade risk (`risk/engine.py`, `contracts/risk.py`) | none; request, policy and snapshot in, event out | `evaluate_pre_trade_risk` | kill snapshot, account, instrument master, telemetry | hard limits hold over any sequence of approvals; caps are exact; kill state governs |
| Risk-gated replay and gateways (`risk/replay.py`, `execution/gateway.py`) | none | `replay_risk_approved_market_orders`, `run_paper_gateway_replay`, `run_simulator_gateway_replay` | risk events in, simulator, lifecycle events out | only approved intents reach the simulator; each event bears its own order's outcome |
| Event-time replay (`simulation/replay.py`) | balances during one call | `replay_ohlctv_market_orders` | instrument master, cost model | no lookahead; balances and results agree; a refused fill leaves no trace |
| Paper accounting (`execution/paper.py`, `contracts/paper.py`) | none; desk carries account states between sessions | `make_paper_account_session_report`, `make_paper_tca_report` | gateway report, quotes | logs explain balances; the two reports agree; arrival quotes are past |
| Bronze payloads (`storage/bronze.py`) | object and sidecar files | `persist`, `read`, `verify` | connectors, silver | what was returned is immutable, whole and described |
| Stream health (`contracts/stream_health.py`) | highest sequence and seen ids per scope | `evaluate`, `DataHealthGate.evaluate` | streaming contracts, risk requests | scopes isolated; gaps and duplicates counted once; stale feed blocks |
| Streaming contracts (`contracts/streaming.py`) | none | event, subscription and backoff validation | stream health | envelopes are consistent |
| Instrument master (`contracts/instrument_master.py`) | none | constraint evaluation, account limits | risk, replay | one constraint in force at a time |
| Market data (`contracts/market_data.py`), historical connector | none | validation | bronze, silver | bars are well formed |
| Silver and data quality (`normalization/silver.py`, `validation/data_quality.py`) | none | normalise a batch, report gaps and duplicates | bronze, features, datasets | a clean report means no hole inside a lookback |
| Features (`features/*`) | rolling windows in one call | feature vectors of a bar's close | silver, datasets | a vector built when its bar closed never changes |
| Dataset snapshots (`datasets/snapshots.py`) | none | split assignment, labels at the horizon | features | point in time; splits in order |
| Baselines and evaluation (`baselines/*`, `evaluation/*`) | position and equity in one call | run, scorecards, gates | datasets, forecasts | gates pass only on complete evidence |
| Training and forecasts (`training/*`, `contracts/forecasts.py`) | none | fit, forecast, manifest | datasets | no fit knows a later label; a repeated fit says the same |
| Model validation and registry (`validation/model_validation.py`, `contracts/model_registry.py`) | none; lifecycle entries validated one by one | promote, archive, reject | validation reports | promotion needs evidence and a way back |
| Strategy decisions (`strategy/decisions.py`, order seam of `audit/trace.py`) | none | decide, size, propose intents | forecasts, risk requests | refuses only for cause, within its own contract |
| Scenarios (`simulation/scenarios.py`) | none | generate stress paths | replay | deterministic |
| Audit (`audit/*`) | none; reads an evidence store a caller supplies | trace, replay, gate | every artifact above | what passes is what happened; what was recorded untouched is reproduced |
| Paper readiness (`observability/paper_readiness.py`) | none | metrics, alerts, readiness report | accounting, risk, data health | a quiet day is a clean day; panel and alert agree |

How they interact: bronze payloads are normalised to silver bars, features and
dataset snapshots; a trained model forecasts; a strategy turns forecasts into
order intents; a caller builds risk requests from intents, account, kill-switch
snapshot and telemetry (stream health among it); the gateway forwards what the
engine approved to the simulator; accounting and TCA report on its outcome; audit
and readiness read all of it. Interaction is by value: the only shared state is
the two stores and what a caller carries from one call to the next.

The hazards, each at its line, are in `PROJECT.json`; they are what the properties
are for.

## 2 Modules and how they correspond to the code

### Kill switch

`KillSwitchRecords` is the data: severities, records, `_latest_records_by_scope`
(`LatestRecords`, newest by time and then by id), `_matching_records` (`Matching`)
and the state in force (`ActiveState`), `UNKNOWN` where nothing matches.
`KillSwitch` is the abstract specification: an audited log to which a transition is
added atomically, with the prior state it replaced. `KillSwitchStore` is the file
store. `transition` is split at each system call: `BeginTransition` (read and
build), `OpenTemp` (open truncates), `WriteTemp`, `Replace`, `Return`, with `Crash`
between any two. Files are inodes, because two writers share the temporary name:
the second truncates the first's file, and a writer that still holds it after the
other's `os.replace` writes into the live log. What an inode holds is told apart by what
`_read_records` makes of it: nothing (`Truncated`), bytes whose error it catches
(`Garbled`: no JSON, another schema, an invalid record), bytes whose error it does not
catch (`Foreign`: no UTF-8, JSON that is not an object) and a log. Of the second kind
`load_snapshot` says `UNKNOWN`, and `transition` takes it for an empty log; of the third
both raise (`ReadRaises`, `RAISED`), and nothing is written. Colliding writers leave
garbled files at worst, as what they write is ASCII; `Faults` switches on reads that fail
with an `OSError` and damage from outside, of both kinds. `Lag` says how far the
caller's stamps may fall behind. Run `KillSwitchStoreCrash` shows that the store with one
writer implements `KillSwitch`.

### Risk gate

`RiskLimits` is `evaluate_pre_trade_risk`: one definition per `_*_evaluation`
function, each giving its severity and the size it leaves room for;
`HardBreach`, `SoftBreaches`, `AllowedNotional`, `AfterSoftCaps` and `RiskDecision`
combine them as the engine does. `RiskGate` is the loop around it: build a
request from the account, the kill log (`KillSwitch`, by `INSTANCE`) and the
idempotency records, decide, collect a batch, forward the approved intents
(`Forward`) or have the batch refused for duplicate ids (`Refuse`), and apply fills
one after another. The reference price does not move, so quantity is notional;
what a fill costs beyond it (next open, spread, slippage, fee) is the amount
`slip`. `MoveKillSwitch` may happen at any point.

### Event-time replay

`EventTimeReplay` is `replay_ohlctv_market_orders`: `SafeBars` and `SafeIntents`
validate, `Eligible` are the positions of the bars an intent may fill on and
`FillBar` the one it does, `Attempt` and `Filled` price it, `Replayed`
settles it against the balances, one action `ReplayOne` per intent; `States` is the
whole replay as a function of the number of intents done, for properties that compare
one replay with another and for `PaperSession`. A fill at a
price of zero makes the result contract raise: `Abort`. Prices, rates and volumes
are integers over `Scale`; amounts are exact, as the code's decimals are at these
sizes. The constants are typed by the contracts' field sets (`OHLCTVBar`,
`OrderIntent`, `ExecutionCostModel`), with the validators the properties need: a bar
closes after it opens, a fee is at most the notional, spread and slippage less than the
price.

### Paper session

`PaperSession` composes the gateway with the simulator: it instantiates
`EventTimeReplay` and takes its `States` over the approved intents. A list the code filters
events into is a function that keeps the positions of those left, and `ApprovedUpTo` says
which result an approved event is dealt. `Call` is the
desk choosing a batch and market data, `RunGateway` builds the lifecycle events
(`Lifecycle`, with the event contract's validator as `Consistent`), `GatewayRaises`
is every exception, `ReportSession` resolves opening and closing states and builds
the logs, `ReportTca` the cost report, `CloseDay` hands the closing state to the
next day. An account claim is embedded, linked by id and hash, or absent; id and
hash stand for the state itself. Quotes are a list as delivered: `ArrivalQuote` is
`max()` over it, the newest quote of greatest id and of several such the first
(`Preferred`). The variable `booked` is history: the opening
balances and every logged fill.

### Bronze store

`BronzeStore` follows `persist` through the file system: the existence check,
comparison with what is there, and four writes (open and fill, for object and
sidecar). `read` takes the bytes and then opens the file again to verify. The path
contains the payload's hash, so a path stands for its bytes; two requests for one
path differ in their stamp. `raced` is history: paths for which two calls of
persist overlapped. The promises hold of all other paths.

### Stream health

`StreamHealth` is the evaluator with its three dictionaries and the gate. Every
call is one `Evaluate` step, with any event at any time, so delivery is shuffled,
repeated and lossy. The verdict uses the gate's critical checks. The properties are
about positions in the list of returned records: `Stream` says which stream a record
is of, and `SeenAlone` what an evaluator that had seen only that stream would return.

### Strategy decision and audit trail

`StrategyDecision` is pure: `Classify` and `Reason` (why a forecast is traded or
not), `Proposed` (the budget reduced by cost, uncertainty and drawdown), `Decide`
with the contract's validators, `OrderIntents` and `NoOrderReason`.

`AuditTrail` puts it before a trading day and an audit behind it. The writing side:
`DecideNoOrder` files the evidence of a decision that places no order; `Submit`
decides, builds the order intent and has it risk-checked (any answer the engine can
give: as asked, less, no); `Session` trades what waits through
`run_paper_gateway_replay`, reports it and files each order's evidence with its
envelope. Gateway, accounting and cost reports are those of `PaperSession`, by
`INSTANCE` (`Desk`, `Book`): the composition adds no second version of them.
`OrderLinked` is the list of linkage checks of `make_decision_trace_envelope`.

Then the evidence store, which is outside the source, may spoil one field of one
record: `BreakSeal` (contents changed, hash not), `Misfile` (a genuine artifact or
trace id of another record), `Lose`, `Refetch` (bars, cost model, account or quotes
fetched again and different), `WriteAgain`. `Replay` is
`replay_decision_trace_by_id` with its fail-closed order, `Rerun`, `Rebuilt`,
`Compared` its steps; `Gate` is `run_audit_gate_validation`. The reading side changes
nothing, so it has no action: the properties ask `ReplayById` and `Gate` of every
trace, sample and policy in every state.

### Paper readiness

`PaperReadiness` extends `PaperSession`: `Metrics` reduces a day's reports to figures
and thresholds, `DefaultRules` are the alert rules of the default configuration,
`Alerts` what is routed. A caller may pass any subset of the day's risk events
(`RiskEvidence`) and any data-health signals, as nothing ties these to the gateway
report.

### Research

`ResearchFeatures` is pure: `Normalized` (pages to one silver batch), `Blockers` (the
quality report), `TaVectors` and `LiquidityVectors` (the feature engines). A computed
figure is the tuple of the prices it is computed from, so two figures agree exactly
when they come from the same inputs. A list from which the code filters elements (visible
quotes, closed higher bars, returns that are not None, rows with a split) is a function
that keeps the positions of those left: the order is theirs, and the last element is the
one with the greatest position (`Newest`).

`ResearchPipeline` runs them over time. `Deliver` is a connector whose pages come
late, again, refetched or never, but not before their bars close; `Tick` moves the
clock, with which quotes, higher-timeframe bars and labels become visible;
`PublishTa`, `PublishLiquidity` and `PublishForecasts` rebuild everything from what
is there and publish it. `Snapshots` is the dataset builder, `Fitted` and
`Candidates` the probabilistic candidate of `training/`. That pages are kept and
handed in again, and vectors never withdrawn, is how the callers in the tests use the
code; no component of the source stores either.

### Conventions

`MC*` modules hold the values of constants and the symmetry sets. An operator
introduced as "a slip" is a plausible programming error, kept beside the definition
it would replace; `PROJECT.json` lists them as mutants, and each one makes TLC
report the property it is listed for.

## 3 Runs

All properties are safety properties. No fairness is assumed anywhere: the code
schedules nothing, every operation is a call that runs to its end or dies, and no
document promises that a caller will ever call. The runs do not check for deadlock,
because every instance is bounded by a number of calls (or of records, pages and
ticks) and stops there.

| Run | What it shows |
|---|---|
| `KillSwitchStoreCrash` | One writer that may die at any step: a transition that returned stays in the log (`AckedDurable`) and in force (`AckedStateEnforced`), a snapshot relaxes only by a transition of its scope or GLOBAL, and the file implements the abstract log, prior states included (`AtomicLog`). Stamps may be equal to or older than earlier ones. |
| `KillSwitchStoreCollide` | Two writers on the shared temporary file, unreadable reads and damage: a snapshot that is given is `UNKNOWN_FAIL_CLOSED` or a state somebody requested for that scope or GLOBAL. |
| `RiskGateLimits` | Orders decided and filled one at a time, with slippage, in eight market conditions: hard limits and the cash reserve hold, and soft caps give the largest size that breaches nothing. |
| `RiskGateSwitch` | Batches of two, resubmitted orders and an operator who moves the switch in between: no approval against any matching scope's state, no refill of an order whose placement is open. |
| `EventTimeReplayBatch` | Every batch of up to two intents over up to three of ten bars in two markets, valid or not, with and without costs and account: fills of a market follow submissions on one time line, balances match results and never go below zero, and a one-market batch never looks ahead (cutting the data off changes no earlier fill). |
| `PaperSessionDays` | Two days with eight batches of approved, capped and blocked orders: each event has its own result, logs explain balances across days, the session and cost reports agree, the cost report does not depend on the order in which quotes are delivered unless market, time and id of two are the same, and event validators refuse nothing the simulator produces. Whatever risk events its caller leaves out, a day without an alert was clean (`QuietDayIsClean`), and alerts agree with dashboard panels (`RoutedMeansBreached`). |
| `AuditTrail` | From forecast to evidence, then one fault in the store: a replay that passes vouches for what happened (`OutcomeReproduced`), the gate passes only on that many untouched decisions (`GateNeedsEvidence`) and raises for one known reason (`GateRaisesOnlyForStray`); what is untouched and was traded alone does replay (`SingleOrderReplays`); decisions are refused for cause. |
| `ResearchPipeline` | Pages, quotes and labels arrive over time: a published vector or forecast is what every later run says (`FeaturesPointInTime`, `ForecastsStable`), a clean report leaves no hole inside a lookback (`CleanLookback`), no fit knows its own or a later label (`FitKnowsNoFuture`). |
| `BronzeStoreCrash` | Two writers and a reader with two crashes: what persist returned is whole and described, a readable sidecar stands beside whole bytes, and read returns verified bytes, on every path whose persists did not overlap. |
| `StreamHealthShuffled` | Up to five deliveries of eight events of two instruments: streams are isolated, gaps are counted once, repeats are never new, stale events block. |
| `KillSwitchStoreReadError`, `AuditBatch` | Counterexamples: see section 5. |

Type correctness is a property where a proof rests on it (kill switch, risk gate,
bronze store); elsewhere no argument needs it and it is not a property of a run.

Bounds, and why they are enough for the cases of interest:

- `KillSwitchStore`: three transitions over two scopes. Two are needed to collide,
  a third to follow a collision; GLOBAL and one venue give both ways scopes combine.
  Three states cover looser, equal and stricter. Two inodes suffice for one writer
  (log and temporary file), four for two writers. `RecordIds` breaks ties of one
  timestamp: two ids in `KillSwitchStoreCrash`, where `Lag` = 2 lets a stamp equal the
  newest or be one behind it, and one where stamps differ.
- `RiskGate`: four orders in two instruments with soft limits 2..5 and hard limits
  4..7, so that order, instrument, strategy and total limit each bind first for some
  order; the account's own instrument limit (4) undercuts the policy's. `AllMarkets`
  has a calm market and seven that trip another limit each, or volume and depth both
  (there depth allows more, see section 5). Nothing bounds the number of orders: the
  limits do.
- `EventTimeReplay`: ten bars include an open at zero, a dry, a thin and a deep
  one, two overlaps (also across the other market's bar), a wrong timeframe, an event time after the close, and bars that
  close together; two intents suffice to make balances of one depend on the other;
  two cost models give latency, partial fills, fees.
- `PaperSession`: two days, so that a closing state is carried over; batches with
  blocked events before, between and after approved ones, one out of order, one
  all blocked, one empty. Quotes are delivered late, repeated, with one time and
  different ids, and with one time and id and different prices.
- `BronzeStore`: two paths and two stamps, four calls, two crashes: a writer that
  dies, its retry, and a competing request on the same path.
- `AuditTrail`: two records and batches of up to two, so that one record's artifact can
  turn up in the other; two cases share a trace id and differ in size; ten cases cover
  every reason not to trade and every refusal; five days combine embedded, linked,
  doubled and absent account claims with funded and unfunded sessions, two sets of bars,
  two cost models and no quotes, one day without bars; samples of up to two traces
  (`MaxSample`), as many as a policy asks for at most, and enough for a repeat. One fault, once nothing is
  waiting: recording does not read the store, so a fault before a recording is the same
  state as one after it. Orders of one batch are submitted at different times, because
  the replay refuses a batch out of order.
- `ResearchPipeline`: nine pages (the history in three, the second fetched again, at
  price zero, off the grid, sourced late, of another request; an empty one), three
  deliveries, eighteen time units: enough for every window of the three splits to be
  built, labelled and built again. The last train row has no label, one quote is known
  only after its event, the fee schedule changes within the window.
- `StreamHealth`: five deliveries, with numbers 1, 2, 4, 5 and 3, 5; three are
  enough for a gap, its late filler and a repeat, five let another stream interleave.

## 4 Proofs

TLAPS proves these for every value of the constants (any number of writers,
inodes, scopes, orders, instruments, limits, processes, paths, events, bars, intents,
pages, quotes, labels), from the named assumptions of the modules.

| Module | Theorems | Argument |
|---|---|---|
| `KillSwitchStoreProofs` | `TypeCorrect`, `SnapshotsAudited`, `SingleWriterDurable`, `SingleWriterEnforced`, `SingleWriterRelaxes`, `SingleWriterAtomic` | `AuditInv`: whatever any inode holds, and whatever any writer is about to write, consists of issued records; so no collision, crash or damage can produce a state nobody asked for (`SnapshotsAudited`). `OnlyAuditedStates` alone is not inductive, because it speaks of the live file only. `DurableInv`, for one writer and no faults: the payload between read and replace contains the log, the temporary file is not the log, and it is whole when it is replaced. From it, what is in force comes from the newest matching records of a log that lost none (of a non-empty set of kill states one is most severe; an active state other than `UNKNOWN_FAIL_CLOSED` is that of a matching record). `AtomicInv` adds that the prior state of the record in hand is still the one in force; then `Replace` is the abstract `Commit` and every other step a stutter. |
| `RiskGateProofs` | `TypeCorrect`, `SequentialExposure`, `SequentialReserve`, `SwitchObeyed`, `NoSecondFill`, `CapsAreExact` | `GateInv`: types, and every pending intent stems from an order. `LimitsInv`, for `BatchSize = 1`: the one pending intent still fits the account, because nothing changed it since it was checked. That uses `ApprovalSize` (a cap is the least room of the breached limits, at most the request) and the bound a passed evaluation gives. `SwitchObeyed` and `NoSecondFill` need no batch bound: approval is refused in the step itself, and a batch that names one id twice is refused whole. `CapsAreExact`: each limit that depends on the size passes up to its room and breaches above it, and the least room of the breached ones is one of them. |
| `BronzeStoreProofs` | `TypeCorrect`, `ReturnedImmutable`, `Lineage`, `VerifiedReads` | `WriteInv`: a call that writes has its path for itself unless the path is `raced`; bytes come before their sidecar; what was returned is taken. `Immutable` alone is not inductive: it needs to know what a call between its check and its write may still do. |
| `StreamHealthProofs` | `StreamsAreIsolated`, `RepeatsNeverCountAsNew`, `StaleAlwaysBlocks`, `GapsAreCountedOnce` | `ScopeInv`: the three dictionaries of a scope are what the records of its stream say (highest sequence, ids and sequences seen), and each record is what its stream alone gives. The number of events is not bounded. |
| `EventTimeReplayProofs` | `LedgerIsExact`, `FillsKeepOrder`, `NoLookaheadInMarket` | `RunInv`: the balances and results so far are those of the recursive replay after that many intents; so a property of a batch is one of `States`, proved by induction on the intents. Affordability gives non-negative balances; the order of fills rests on `MarketBarsApart` (safe bars of one market do not overlap, however many bars of others lie between) and on `FillBarLater`; `EarlyRun` shows by induction that cutting off the bars leaves an earlier attempt, and hence the balances it meets, as they were. |
| `ResearchPipelineProofs` | `VectorsStay`, `ForecastsStay`, `NoFutureInFit`, `NoHiddenHoles` | `PublishedInv`: whatever was published is what the history at hand, with all the quotes, labels and higher bars there will ever be, says of one of its bars. It is inductive because pages are added behind those there and the engines refuse bars out of order, so a bar once used keeps its number, and because what is computed of the n-th bar uses the first n (`TaLooksBack`, `LiquidityLooksBack`, `ScoreLooksBack`). Neither `FeaturesPointInTime` nor `ForecastsStable` is inductive: they compare two published things and do not say what a third may be. `NoHiddenHoles` puts the bars of a clean window on the grid one by one (`NextBar`). |

| `PaperSessionProofs` | `EvidenceIsOwn`, `BalancesExplained`, `GatewayAccepts`, `ReportsAgree`, `DeliveryOrderIrrelevant`, `FallbackPredicts`, `PanelsAgreeWithAlerts`, `QuietMeansClean` | `DayInv`: call and desk are typed, the gateway report in hand is that of the call's replay, session and cost reports are those of that report, and the desk holds what is booked unless a closing state was trusted. `LogsExplainBalances` alone is not inductive: it says nothing of reports that are in hand and not yet closed. The replay's own facts are the lemmas of `EventTimeReplayProofs`, taken by `INSTANCE` for the day's call. What is new is dealing results out to events (`Positions`: the n-th approved event has the n-th result, whatever lies between), quotes that move without passing a quote of their own market, time and id (`PreferredMoves`, `ArrivalMoves`: what `max()` returns of a reordered list is the same quote, hence the same rows) and sums over the events selected for a list (`SumIs`, `LoggedMoves`), by which session and cost report agree. |
| `AuditTrailProofs` | `RefusalHasCause`, `PassedMeansReproduced`, `SingleOrderReproduced`, `GatePassesOnEvidence`, `RaisesOnlyForStray` | `StoreInv`: evidence as recorded is closed by the one envelope its artifacts give, and is either without an order or of an order traded in a session; after one fault what is stored differs from it in one field at most. The envelope names every artifact it was made from (`EnvelopeDetermines`), so a single changed field is noticed when it is rebuilt, or it is an input, and the rerun shows whether it matters. Neither `OutcomeReproduced` nor `GateNeedsEvidence` is inductive: they speak of replays, not of the record a fault will next meet. `SingleOrderReproduced` follows the replay through its steps: an order alone is a batch of one (`BatchOfOne`), the rerun gives the gateway report of the day, and the rebuild finds the same closing state by what the report says of it (`ClosingRebuilt`, `PaperRebuilt`). |

Each proof module stands alone; those about recursive functions start with the induction
they use (`UpToBound`: a set that holds 0 and, below a bound, the successor of each member
holds all numbers up to the bound).

Assumptions on constants are the ones the modules name (`ASSUME ...Assumption`);
TLC evaluates all of them in the runs. `SingleWriterDurable`, `SingleWriterEnforced`,
`SingleWriterRelaxes` and `SingleWriterAtomic` assume one writer and no fault; `SequentialExposure` and `SequentialReserve` a batch size of one; `CapsAreExact`
markets where the volume check never allows more than the depth check; `PassedMeansReproduced`,
`GatePassesOnEvidence` and `RaisesOnlyForStray` at most one fault of the evidence store
(several could exchange two records field by field, envelopes included). Their statements
say so; section 5 and the list of limits below show why. The others have no hypothesis.

What the assumptions say, where it is not a type: identifiers of risk events tell them
apart, as the hashes they stand for do (`RiskEventsAssumption`); an account state is
embedded and linked at most once (`DaysAssumption`); an audit policy asks for at least one
sample (`PoliciesAssumption`, the contract's own validator); and the unit of money is fine
enough that no proposed size is rounded (`UnitAssumption`: the code divides decimals, the
model integers).

Every property of a passing run is stated by one of these theorems. Only model-checked are
the two counterexamples of section 5, and what the proofs take as constants: that the
instances of section 3 satisfy the assumptions. Liveness does not arise.

## 5 Where code and documents disagree

Two runs are counterexamples to a sentence of the repository; `PROJECT.json` quotes
each.

- `KillSwitchStoreReadError`: `transition` takes a log it cannot read for an empty
  one and replaces it, so a HALTED scope is forgotten.
- `AuditBatch`: a replay runs one order through a gateway of its own and requires the
  stored gateway report to equal the result. An order that was traded in a batch with
  another has evidence, an envelope and no way to be reconstructed.

Four more differences between code and document are known and kept out of the passing
runs, each by the condition named; they have no run of their own:

- The kill-switch store's docstring (`risk/kill_switch.py:34`) has reads of an unreadable or
  invalid file fail closed to `UNKNOWN_FAIL_CLOSED`. Line 138 catches neither the
  `UnicodeDecodeError` of bytes that are no UTF-8 (`read_text`, line 131) nor the
  `AttributeError` of JSON that is not an object (`payload.get`, line 132), so
  `load_snapshot` raises and gives no snapshot, and `transition` raises before it writes:
  until the file is removed nothing can be recorded. In the model this is `Foreign`,
  `ReadRaises` and `RAISED`; `OnlyAuditedStates` speaks of the snapshots that are given.
  The invariant `\A s \in Scopes : store # None /\ content[store].kind # "log" =>
  LoadedState(s) = UNKNOWN` fails in `KillSwitchStoreCollide`.
- The participation limit takes the first check past its soft threshold, volume before
  depth, and reports that one's cap (`risk/engine.py:780`). An order past both is approved
  at the volume cap even where the depth cap is lower, although decision record S0-003
  caps for either. `CapsAreExact` proves that this is the only way in which a cap is not
  the largest allowed size (`VolumeBindsFirst` is its hypothesis); the market `Both` of
  `RiskGateLimits` breaches both where volume allows less. Add a market
  `[Calm EXCEPT !.volume = {[soft |-> 2, hard |-> 4]}, !.depth = {[soft |-> 1, hard |-> 4]}]`
  to see `DecisionIsLargestSize` fail.
- Orders settle in submission order, so with two markets a purchase can be paid with
  the proceeds of a sale that happens later (`CausalWithinMarket` speaks of batches in
  one market).
- After a crash between its writes every retry of the same bronze payload is refused
  (`Immutable` and `SidecarVouches` speak of what was returned and of readable
  sidecars).

Limits of the code that are not contradicted by a document, seen while modelling.
The conditions of the passing runs and theorems exclude them, each by name:

- Two concurrent kill-switch transitions may both return and one be missing from
  the log (one writer in `KillSwitchStoreCrash`).
- A transition with a stamp older than its scope's newest record (or equal, with a lesser
  record id) returns, stays in the log and never takes effect (`AckedStateEnforced` asks
  the newest issued record of a scope to be in force).
- `path.exists()` stands outside the `try` of `_read_records`: an `OSError` of it (no
  permission on the directory) is raised, not read as an absent log. The model's read
  errors are those of `read_text`.
- Events of one batch are all decided against one account snapshot, so together they
  can pass a hard limit (`BatchSize = 1` in `RiskGateLimits`).
- An approval is not looked at again when the kill switch moves before the replay.
- An order that was placed, filled and reconciled passes the idempotency check again.
- A volatility shock rejects orders that reduce risk, too.
- Two bronze writers that both pass the existence check overwrite each other, and a
  reader meanwhile may get a truncated file (`raced` in `BronzeStore`).
- A session report embeds the opening state its caller supplies and never compares it
  with the state the replay started from; without fills it becomes the closing state
  (`ReportSession` has the caller state the balances the day began with). In the same way an audit record's
  `starting_account_state` is never compared with the session's initial state.
- A closing state that a caller both embeds and links after an unfunded fill is written
  with its linkage; the rebuild drops the linkage and the record can never replay
  (`DoublyClosed` in `AuditTrail`).
- A session in which every order was blocked runs without bars; its evidence then has
  none, and the replay reports a missing input (`SingleOrderReplays` requires bars).
- Of two quotes with one market, time and id the first delivered is the arrival quote
  (`execution/paper.py:549`), and nothing makes the id unique: a corrected quote that
  keeps its id changes the cost report with the order of delivery. `KeepsTies` in
  `PaperSession` names the orders for which the report stays the same.
- The audit gate raises instead of returning a report when a decision without an order
  is filed with a risk event or a report (`GateRaisesOnlyForStray`).
- A purchase with a risk budget of zero is an error of the decision contract, not a
  decision against trading (`RefusesForCause`). The trace id does not cover the sizing
  inputs: two decisions of one forecast and moment share it, and an audit of either
  fails closed as duplicate evidence.
- Readiness counts absent signals and risk events as healthy. A breached metric without
  a rule (blocked data, calibration, no-trade quality, hard breaches) shows on its panel
  and raises no alert. A blocked order always leaves an issue in the cost report, so
  each correct risk block raises a cost-report alert as well.
- The quality report does not look at bars off the interval grid, or longer or shorter
  than an interval (`WellTimed` in `ResearchPipeline`); a price of zero has no return and
  stretches the volatility lookback over it; a page handed in twice doubles its records,
  which the feature engines then refuse. `docs/01_project_spec.md` HP-002 has gaps block
  training, and nothing in the source connects the two.
- There is no embargo between splits: the first forecasts after the train window know
  labels observed up to one horizon after it (`FitKnowsNoFuture` states the exact
  boundary; a leakage test accepts it).
- A vector built before the first higher-timeframe bar closed has no `htf_close` field,
  one built later for the same moment has the field with no value
  (`FeaturesPointInTime` compares vectors built with a higher timeframe among
  themselves).
- No feature engine emits the `close` feature that `future_return` labels and the
  baselines read.

## 6 What is not modelled

Hashes and identifiers are distinct tokens: that equal content has equal hashes and
different content different ones is assumed. Audit payload (reasons, actors, roles,
requirement ids) is left out. In `AuditTrail` the instrument-master
snapshot of a record is the constant `Constraints`: evidence in which it was altered, lost
or refetched is not among the faults. The simulator gateway is the paper gateway with other
labels. Timestamps are integers; the replay sorts bars by the ISO text of their
close time, which differs from time order across UTC offsets. Indicator arithmetic,
fixtures, configuration and command-line scripts are out of scope. Further:

- Model registry: frozen records validated one by one. Nothing in the source keeps a
  registry or applies a transition, so a state machine would be the modeller's own.
- Model validation and evaluation gates: comparisons of floating-point estimates with
  thresholds; `PaperReadiness` takes their figures as constants.
- Baselines: returns of fixed rules over dataset rows that `ResearchPipeline` models.
- Scenarios: fixtures over the simulator; their paths are inputs of `EventTimeReplay`.
- Limit orders (the gateway trades market orders), trade batches in silver and the trade
  quality report (the same with another record type), streaming subscription, backoff
  and heartbeat policies (field validation, and nothing runs them), spread, depth and
  order-size figures of the liquidity features, metrics and artifacts of training.

## 7 Plan

Done: the stores, the order path from forecast and decision over the risk check to
closing balances, audit and readiness, the research path from page to forecast, and
stream health. In this order, next:

1. Proofs of refinement: `BronzeStore` implements an append-only store on paths without
   overlap, `PaperSession` a ledger whose balances change only by logged fills; and the
   audit theorems for any number of faults that leave one artifact of a record whole.
2. `StreamFreshness`: `StreamHealth` feeding `RiskGate`'s data-health signals, where a
   silent feed gives no signal at all.
3. Evaluation gates and model validation as decision tables, and the promotion
   evidence of the registry's contracts over them.

Runs to come keep to small sets of model values and one question each.
