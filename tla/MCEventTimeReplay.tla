-------------------------- MODULE MCEventTimeReplay --------------------------
EXTENDS EventTimeReplay

Bar(market, open, close, price, volume) ==
  [market |-> market, rank |-> IF market = "btc" THEN 1 ELSE 2, open |-> open,
   close |-> close, source |-> close, timeframe |-> "1h", price |-> price, volume |-> volume]

Intent(id, market, side, quantity, submitted) ==
  [id |-> id, market |-> market, side |-> side, quantity |-> quantity,
   submitted |-> submitted, type |-> "market", metadata |-> "tradable"]

UpTo(S, n) == UNION {[1..k -> S] : k \in 0..n}

\* btc over six hours: a worthless open, dry, thin and deep volume, and two
\* bars that overlap the others; eth closes between btc's bars.
BtcBars == {Bar("btc", 0, 1, 1, 4), Bar("btc", 1, 2, 2, 2), Bar("btc", 1, 2, 0, 4),
            Bar("btc", 3, 4, 1, 0), Bar("btc", 4, 5, 2, 4), Bar("btc", 0, 4, 1, 4),
            Bar("btc", 2, 6, 2, 4)}
Bars == BtcBars \cup
        {Bar("eth", 1, 3, 2, 4), [Bar("eth", 3, 5, 2, 4) EXCEPT !.timeframe = "2h"],
         [Bar("btc", 3, 4, 2, 4) EXCEPT !.source = 5]}

Orders == {Intent(1, "btc", "buy", 2, 0), Intent(2, "btc", "sell", 1, 1),
           Intent(3, "eth", "buy", 2, 1), Intent(1, "btc", "sell", 2, 1)}
Refused == {<<[Intent(4, "btc", "buy", 1, 0) EXCEPT !.type = "limit"]>>,
            <<[Intent(4, "btc", "buy", 1, 0) EXCEPT !.metadata = "venue_not_tradable"]>>}

TwoMarketBars    == UpTo(Bars, 3)
TwoMarketIntents == UpTo(Orders, 2) \cup Refused

\* Half a unit of volume goes to one order, a tenth goes to the venue.
Thin  == [latency |-> 0, rate |-> 1, partial |-> TRUE, adverse |-> 1, fee |-> 1]
Late  == [latency |-> 1, rate |-> 2, partial |-> FALSE, adverse |-> 0, fee |-> 0]
Models == {Thin, Late}

Constraint(market, from, to) ==
  [market |-> market, from |-> from, to |-> to, tick |-> 1, lot |-> 1, min_quantity |-> 1,
   max_quantity |-> 9, min_notional |-> 1, max_notional |-> 9]
\* btc is between two constraint windows when its fourth hour opens.
Windows == {Constraint("btc", 0, 3), Constraint("btc", 4, 9), Constraint("eth", 0, 9)}

\* Cash is in units of 1 / Scale^2.
Wallet == [a \in Assets |-> CASE a = "cash" -> 12 [] a = "btc" -> 1 [] OTHER -> 0]
=============================================================================
