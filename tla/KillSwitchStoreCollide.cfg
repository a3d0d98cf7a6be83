\* An operator and an automated monitor write at once, with every fault.
CONSTANTS
  i1 = i1
  i2 = i2
  i3 = i3
  i4 = i4
  None = None
  GLOBAL = "global"
  Scopes = {"global", "venue"}
  Stamps = {1, 2, 3}
  RecordIds = {1}
  Writers = {"operator", "monitor"}
  Inodes = {i1, i2, i3, i4}
  NewStates <- TwoStates
  Faults = {"read_error", "damage"}
  Lag = 0
  MaxTransitions = 3
SPECIFICATION Spec
CHECK_DEADLOCK FALSE
SYMMETRY MCSymmetry
INVARIANTS
  OnlyAuditedStates
