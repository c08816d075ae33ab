SPECIFICATION FairSpec
CONSTANTS
  Replicas = {r1, r2}
  e1 = e1
  e2 = e2
  unknown = unknown
  garbage = garbage
  key = key
  Events = {e1, e2, unknown, garbage}
  KindOf <- MCKindOf
  IdOf <- MCIdOf
  MaxMessages = 3
  MaxMoves = 2
  MaxFailed = 1
  Nobody = Nobody
INVARIANTS
  SkippedIsRecorded
PROPERTIES
  RecordedOrFailed
  EntityGoesForward
CHECK_DEADLOCK FALSE
