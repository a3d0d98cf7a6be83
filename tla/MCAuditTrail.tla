---------------------------- MODULE MCAuditTrail ----------------------------
EXTENDS AuditTrail

Forecast(id, split, median, uncertainty, ts) ==
  [id |-> id, split |-> split, median |-> median, uncertainty |-> uncertainty, ts |-> ts,
   market |-> "btc"]
Up     == Forecast("up", "test", {3}, 0, 0)
Flat   == Forecast("flat", "test", {1}, 0, 0)
Seen   == Forecast("seen", "train", {3}, 0, 0)
Later  == Forecast("later", "test", {3}, 0, 2)
Unsure == Forecast("unsure", "test", {3}, 2, 0)

Net == [id |-> "net", cost |-> 1, max_cost |-> 2, buffer |-> 1, max_uncertainty |-> 2,
        min_edge |-> 0]
Dear == [Net EXCEPT !.id = "dear", !.cost = 2]

Sizing(budget, drawdown) ==
  [budget |-> budget, price |-> 1, drawdown |-> drawdown, max_drawdown |-> 4]
Case(forecast, policy, sizing) == [forecast |-> forecast, policy |-> policy, sizing |-> sizing]

\* Two sizes of one trace, no size, no budget, drawdown at its limit, and
\* every reason not to trade.
Asked ==
  {Case(Up, Net, {Sizing(8, 2)}), Case(Up, Net, {Sizing(8, 3)}), Case(Up, Net, {}),
   Case(Up, Net, {Sizing(0, 0)}), Case(Up, Net, {Sizing(8, 4)}), Case(Flat, Net, {Sizing(8, 2)}),
   Case(Seen, Net, {}), Case(Later, Net, {}), Case(Up, Dear, {Sizing(8, 2)}),
   Case(Unsure, Net, {Sizing(8, 2)})}

Bar(open, close, price, volume) ==
  [market |-> "btc", rank |-> 1, open |-> open, close |-> close, source |-> close,
   timeframe |-> "1h", price |-> price, volume |-> volume]
Cheap == <<Bar(1, 2, 1, 8), Bar(2, 3, 1, 2)>>
Dearer == <<Bar(1, 2, 2, 8), Bar(2, 3, 1, 2)>>

Model == [latency |-> 0, rate |-> 2, partial |-> TRUE, adverse |-> 0, fee |-> 1]
Limits == {[market |-> "btc", from |-> 0, to |-> 9, tick |-> 1, lot |-> 1, min_quantity |-> 1,
            max_quantity |-> 9, min_notional |-> 1, max_notional |-> 9]}
Wallet == [a \in Markets \cup {CASH} |-> IF a = CASH THEN 12 ELSE 0]
Spent  == [Wallet EXCEPT ![CASH] = 0]
Quote == [id |-> 1, market |-> "btc", ts |-> 1, bid |-> 1, ask |-> 2]

Said(embedded, linked) == [embedded |-> embedded, linked |-> linked]
Day(bars, cost, account, initial, claim, quotes) ==
  [bars |-> bars, cost |-> cost, account |-> account, initial |-> initial, claim |-> claim,
   quotes |-> quotes]
Nothing == Said({}, {})

\* From a state that is embedded, linked or both, to one that is replayed,
\* claimed, claimed twice or unchanged; a day without bars.
Conditions ==
  {Day(Cheap, {Model}, {Wallet}, Said({Wallet}, {}), Nothing, <<Quote>>),
   Day(Dearer, {}, {Wallet}, Said({}, {Wallet}), Nothing, <<>>),
   Day(Cheap, {}, {}, Said({}, {Wallet}), Said({}, {Spent}), <<Quote>>),
   Day(Cheap, {}, {}, Said({Wallet}, {Wallet}), Said({Spent}, {Spent}), <<>>),
   Day(<<>>, {}, {}, Said({Wallet}, {}), Nothing, <<>>)}

Policy(minimum, no_order) == [minimum |-> minimum, no_order |-> no_order]
GatePolicies == {Policy(1, FALSE), Policy(2, TRUE), Policy(2, FALSE)}
=============================================================================
