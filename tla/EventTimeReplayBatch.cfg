CONSTANTS
  Markets = {"btc", "eth"}
  BarSequences <- TwoMarketBars
  IntentSequences <- TwoMarketIntents
  CASH = "cash"
  CostModels <- Models
  Constraints <- Windows
  Opening <- Wallet
  Scale = 2
SPECIFICATION Spec
INVARIANTS
  CausalWithinMarket
  FillsFollowSubmissions
  LedgerMatchesResults
CHECK_DEADLOCK FALSE
