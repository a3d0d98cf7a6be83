--------------------------- MODULE MCPaperSession ---------------------------
EXTENDS PaperReadiness

Bar(market, open, close, price, volume) ==
  [market |-> market, rank |-> IF market = "btc" THEN 1 ELSE 2, open |-> open,
   close |-> close, source |-> close, timeframe |-> "1h", price |-> price, volume |-> volume]

Intent(id, market, side, quantity, submitted) ==
  [id |-> id, market |-> market, side |-> side, quantity |-> quantity,
   submitted |-> submitted, type |-> "market", metadata |-> "tradable"]

RiskEvent(id, decision, requested, approved, drawdown) ==
  [id |-> id, decision |-> decision, requested |-> requested,
   approved |-> [requested EXCEPT !.quantity = approved], drawdown |-> drawdown,
   kill |-> CASE decision = "cancel_reduce_only_approved" -> "reduce_only"
              [] decision = "approved_after_cap" -> "soft_limited" [] OTHER -> "clear",
   reasons |-> IF decision = "approved_after_cap" THEN {"kill_switch_active"} ELSE {},
   breaches |-> IF decision = "rejected" THEN 1 ELSE 0]

Buy    == RiskEvent(1, "approved", Intent(1, "btc", "buy", 2, 0), 2, 0)
Barred == RiskEvent(2, "rejected", Intent(2, "btc", "sell", 1, 0), 1, 6)
Capped == RiskEvent(3, "approved_after_cap", Intent(3, "btc", "sell", 2, 1), 1, 5)
Other  == RiskEvent(4, "cancel_reduce_only_approved", Intent(4, "eth", "sell", 1, 1), 1, 0)

\* Blocked events before, between and after approved ones, a batch that is out
\* of order, one that is all blocked, and the empty one.
DayBatches ==
  {<<>>, <<Barred>>, <<Buy>>, <<Barred, Capped>>, <<Buy, Barred, Capped>>,
   <<Barred, Capped, Other>>, <<Capped, Buy>>, <<Buy, Capped, Other>>}

\* A whole fill, a partial one, an open at price zero, no future bar.
DayBars ==
  {<<Bar("btc", 0, 1, 2, 8), Bar("btc", 1, 2, 2, 8), Bar("eth", 1, 2, 1, 4)>>,
   <<Bar("btc", 0, 1, 2, 2), Bar("eth", 1, 2, 1, 0), Bar("btc", 2, 3, 1, 2)>>,
   <<Bar("btc", 0, 1, 1, 4), Bar("btc", 1, 2, 0, 4)>>,
   <<Bar("btc", 1, 2, 1, 4), Bar("btc", 0, 1, 1, 4)>>}

Costs == {[latency |-> 0, rate |-> 1, partial |-> TRUE, adverse |-> 1, fee |-> 1]}

Limits == {[market |-> m, from |-> 0, to |-> 9, tick |-> 1, lot |-> 1, min_quantity |-> 1,
            max_quantity |-> 9, min_notional |-> 1, max_notional |-> 9] : m \in Markets}

\* Cash is in units of 1 / Scale^2: enough for one purchase of the day.
Wallet == [a \in Markets \cup {CASH} |-> CASE a = "cash" -> 24 [] a = "btc" -> 1 [] OTHER -> 1]

Quote(id, market, ts, bid, ask) ==
  [id |-> id, market |-> market, ts |-> ts, bid |-> bid, ask |-> ask]
Delivered ==
  {<<>>, <<Quote(1, "btc", 0, 1, 2), Quote(2, "btc", 1, 2, 3)>>,
   <<Quote(2, "btc", 1, 2, 3), Quote(1, "btc", 0, 1, 2), Quote(3, "eth", 1, 1, 1)>>,
   <<Quote(3, "btc", 0, 3, 3), Quote(1, "btc", 0, 1, 2)>>,
   <<Quote(1, "btc", 0, 1, 2), Quote(1, "btc", 0, 2, 3), Quote(1, "btc", 0, 1, 2)>>}

Signals == {{}, {[id |-> 1, stale |-> TRUE, blocks |-> TRUE]},
            {[id |-> 2, stale |-> FALSE, blocks |-> TRUE]}}
GateFigures == [calibration |-> 6, blocked |-> FALSE, delta |-> 0, drag |-> 1]
=============================================================================
