\* One writer that may die at any point; stamps may be equal to or older than
\* the newest one, with record ids to break ties.
CONSTANTS
  i1 = i1
  i2 = i2
  i3 = i3
  i4 = i4
  None = None
  GLOBAL = "global"
  Scopes = {"global", "venue"}
  Stamps = {1, 2}
  RecordIds = {1, 2}
  Writers = {"operator"}
  Inodes = {i1, i2}
  NewStates <- ThreeStates
  Faults = {}
  Lag = 2
  MaxTransitions = 3
SPECIFICATION Spec
INVARIANTS
  TypeOK
  AckedDurable
  AckedStateEnforced
PROPERTIES
  RelaxedOnlyByTransition
  AtomicLog
CHECK_DEADLOCK FALSE
