\* One writer; a read error during transition drops the history.
CONSTANTS
  i1 = i1
  i2 = i2
  i3 = i3
  i4 = i4
  None = None
  GLOBAL = "global"
  Scopes = {"global", "venue"}
  Stamps = {1, 2, 3}
  RecordIds = {1}
  Writers = {"operator"}
  Inodes = {i1, i2}
  NewStates <- TwoStates
  Faults = {"read_error"}
  Lag = 0
  MaxTransitions = 3
SPECIFICATION Spec
CHECK_DEADLOCK FALSE
INVARIANTS
  AckedStateEnforced
