CONSTANTS
  Soft <- SoftLimits
  Hard <- HardLimits
  AccountMax <- AccountLimits
  ConstraintMax = {}
  PolicyReserve = 2
  AccountReserve = 3
  GLOBAL = "global"
  Scopes = {"global"}
  Stamps = {1}
  RecordIds = {1}
  Instruments = {"btc", "eth"}
  Strategies = {"trend"}
  Orders <- FourOrders
  Markets <- AllMarkets
  Slips = {0, 1}
  MaxSlip = 1
  Opening <- SmallAccount
  BatchSize = 1
SPECIFICATION Spec
INVARIANTS
  TypeOK
  ExposureWithinHard
  ReserveHeld
  DecisionIsLargestSize
CHECK_DEADLOCK FALSE
