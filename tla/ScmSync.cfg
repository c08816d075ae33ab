SPECIFICATION FairSpec
CONSTANTS
  Syncers = {s1, s2}
  MaxRow = 3
  Orphans = {2}
  MaybePoison = {3}
  PageSize = 1
  MaxPerTick = 2
  Window = 0
  FullEvery = 2
  MaxFailures = 1
  Free = Free
INVARIANTS
  NothingPassedOver
PROPERTIES
  EventuallyCopied
  RescanFindsLateRows
