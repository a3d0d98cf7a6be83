CONSTANTS
  Soft <- SoftLimits
  Hard <- HardLimits
  AccountMax <- AccountLimits
  ConstraintMax = {}
  PolicyReserve = 2
  AccountReserve = 3
  GLOBAL = "global"
  Scopes = {"global", "btc"}
  Stamps = {1, 2}
  RecordIds = {1}
  Instruments = {"btc", "eth"}
  Strategies = {"trend"}
  Orders <- TwoOrders
  Markets <- OneMarket
  Slips = {0}
  MaxSlip = 0
  Opening <- SmallAccount
  BatchSize = 2
SPECIFICATION Spec
PROPERTIES
  KillStateGoverns
  NoUnsettledRefill
CHECK_DEADLOCK FALSE
