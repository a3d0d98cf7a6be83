CONSTANTS
  Markets = {"btc"}
  CASH = "cash"
  Constraints <- Limits
  Opening <- Wallet
  Scale = 2
  Cases <- Asked
  Times = {1, 2}
  Days <- Conditions
  Policies <- GatePolicies
  BLANK = BLANK
  MaxRecords = 2
  MaxBatch = 2
  MaxDamage = 0
  MaxSample = 2
SPECIFICATION Spec
INVARIANTS
  SampledOrderReplays
CHECK_DEADLOCK FALSE
