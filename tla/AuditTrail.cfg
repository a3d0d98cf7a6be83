CONSTANTS
  Markets = {"btc"}
  CASH = "cash"
  Constraints <- Limits
  Opening <- Wallet
  Scale = 2
  Cases <- Asked
  Times = {1, 2}
  Days <- Conditions
  Policies <- GatePolicies
  BLANK = BLANK
  MaxRecords = 2
  MaxBatch = 2
  MaxDamage = 1
  MaxSample = 2
SPECIFICATION Spec
INVARIANTS
  OutcomeReproduced
  SingleOrderReplays
  GateNeedsEvidence
  GateRaisesOnlyForStray
  RefusesForCause
CHECK_DEADLOCK FALSE
