--------------------------- MODULE MCStreamHealth ---------------------------
EXTENDS StreamHealth

Event(instrument, id, sequence, event_ts, source_ts) ==
  [feed |-> "trades", instrument |-> instrument, id |-> id, sequence |-> sequence,
   event_ts |-> event_ts, source_ts |-> source_ts]

\* btc counts 1, 2, 4, 5; 4 comes with an id used before as well, 5 is old,
\* one event has no number; eth shares numbers and an id with btc.
Trades == {Event("btc", "a", 1, 3, 3), Event("btc", "b", 2, 3, 3), Event("btc", "c", 4, 3, 3),
           Event("btc", "b", 4, 3, 5), Event("btc", "d", 5, 0, 0),
           Event("btc", "e", NoSequence, 3, 3),
           Event("eth", "a", 3, 3, 3), Event("eth", "f", 5, 3, 3)}
=============================================================================
