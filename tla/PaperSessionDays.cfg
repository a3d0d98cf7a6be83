CONSTANTS
  Markets = {"btc", "eth"}
  CASH = "cash"
  BarSequences <- DayBars
  CostModels <- Costs
  Constraints <- Limits
  Opening <- Wallet
  Scale = 2
  Batches <- DayBatches
  QuoteSequences <- Delivered
  MaxDays = 2
  SignalSets <- Signals
  Research <- GateFigures
SPECIFICATION Spec
INVARIANTS
  OwnEvidence
  LogsExplainBalances
  OnlyReplayRefuses
  TcaMatchesSession
  QuoteOrderIrrelevant
  FallbackIsNeutral
  QuietDayIsClean
  RoutedMeansBreached
CHECK_DEADLOCK FALSE
