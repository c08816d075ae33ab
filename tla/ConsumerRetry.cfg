SPECIFICATION Spec
CONSTANTS
  Replicas = {r1, r2}
  e1 = e1
  e2 = e2
  unknown = unknown
  garbage = garbage
  key = key
  Events = {e1, e2}
  KindOf <- MCKindOf
  IdOf <- MCIdOf
  MaxMessages = 2
  MaxMoves = 2
  MaxFailed = 1
  Nobody = Nobody
INVARIANTS
  FailureKeepsOffset
CHECK_DEADLOCK FALSE
