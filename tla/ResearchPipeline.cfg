CONSTANTS
  Market = "btc"
  Interval = 2
  Window <- Report
  Lookback = 2
  Fees <- Schedules
  Pages <- Fetched
  Higher <- HigherBars
  Quotes <- Quoted
  Labels <- Observations
  Horizon = 4
  Splits <- Chronology
  MaxTime = 18
  MaxPages = 3
SPECIFICATION Spec
INVARIANTS
  FeaturesPointInTime
  CleanLookback
  ForecastsStable
  FitKnowsNoFuture
CHECK_DEADLOCK FALSE
