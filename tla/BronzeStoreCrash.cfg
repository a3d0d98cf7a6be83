CONSTANTS
  w1 = w1
  w2 = w2
  n1 = n1
  Writers = {w1, w2}
  Readers = {n1}
  Paths = {"payload", "other"}
  Stamps = {"09:00", "10:00"}
  MaxCrashes = 2
  MaxCalls = 4
SYMMETRY Symmetry
SPECIFICATION Spec
INVARIANTS
  TypeOK
  ReadsVerified
  Immutable
  SidecarVouches
CHECK_DEADLOCK FALSE
