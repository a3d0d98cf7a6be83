------------------------------ MODULE MCRiskGate ------------------------------
EXTENDS RiskGate, TLC

\* The limits, in units of notional: soft 2, 3, 4, 5 and hard 4, 5, 6, 7.
SoftLimits == [l \in LimitNames |->
  CASE l = "order" -> 2 [] l = "instrument" -> 3 [] l = "strategy" -> 4
    [] l = "total" -> 5 [] OTHER -> 1]
HardLimits == [l \in LimitNames |->
  CASE l = "order" -> 4 [] l = "instrument" -> 5 [] l = "strategy" -> 6
    [] l = "total" -> 7 [] OTHER -> 2]
AccountLimits == [k \in SizeNames |-> IF k = "instrument" THEN 4 ELSE 9]

Intent(id, side, instrument, notional) ==
  [id |-> id, side |-> side, instrument |-> instrument, strategy |-> "trend",
   notional |-> notional, type |-> "market"]

BuyBtc  == Intent("o1", "buy", "btc", 2)
BuyMore == Intent("o2", "buy", "btc", 4)
BuyEth  == Intent("o3", "buy", "eth", 3)
SellBtc == Intent("o4", "sell", "btc", 2)

FourOrders == {BuyBtc, BuyMore, BuyEth, SellBtc}
TwoOrders  == {BuyBtc, SellBtc}

Calm ==
  [metadata |-> "orderable", spot |-> TRUE, venue |-> "active",
   price_known |-> TRUE, deviation |-> 0,
   account_pnl |-> 0, strategy_pnl |-> 0, drawdown |-> 0,
   volume |-> {}, depth |-> {}, depth_required |-> FALSE,
   spread |-> {0}, envelope |-> {},
   volatility |-> {1}, volatility_known |-> TRUE, shock |-> FALSE,
   blocking |-> {}, throttle |-> {}, rejects |-> {},
   latency |-> 0, budget |-> 2, time_proven |-> TRUE,
   severe |-> FALSE, calibrated |-> TRUE, drift |-> FALSE,
   tca_known |-> TRUE, tca |-> {1}]

Thin     == [Calm EXCEPT !.volume = {[soft |-> 1, hard |-> 3]}]
Shallow  == [Calm EXCEPT !.depth = {[soft |-> 1, hard |-> 4]}, !.depth_required = TRUE]
Both     == [Calm EXCEPT !.volume = {[soft |-> 1, hard |-> 3]},
                         !.depth = {[soft |-> 2, hard |-> 4]}]
Lossy    == [Calm EXCEPT !.account_pnl = -1]
Shock    == [Calm EXCEPT !.shock = TRUE]
StaleEth == [Calm EXCEPT !.blocking = {"eth"}]
Busy     == [Calm EXCEPT !.throttle = {[count |-> 1, soft |-> 1, hard |-> 2]},
                         !.rejects = {[count |-> 0, soft |-> 1, hard |-> 2,
                                       unknown |-> FALSE]}]

OneMarket  == {Calm}
AllMarkets == {Calm, Thin, Shallow, Both, Lossy, Shock, StaleEth, Busy}

SmallAccount ==
  [cash |-> 10, position |-> [i \in Instruments |-> 0],
   strategy |-> [s \in Strategies |-> 0], total |-> 0]
=============================================================================
