CONSTANTS
  Events <- Trades
  Clocks = {3}
  MaxAge = 2
  MaxDrift = 1
  Critical = {"freshness"}
  MaxEvents = 5
SPECIFICATION Spec
INVARIANTS
  Isolated
  GapsCountedOnce
  NewOnce
  StaleBlocks
CHECK_DEADLOCK FALSE
