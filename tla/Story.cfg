SPECIFICATION MCSpec
CONSTANTS
  Patchers = {p1, p2}
  Composers = {c1}
  Values = {x}
  Null = Null
  Keep = Keep
  MaxPatches = 3
  EventKinds <- MCEventKinds
  Ticks = {0, 1, 2}
  BatchLists <- MCBatchLists
  LotLimit = 2
  BatchLimit = 2
  PlaceholderJourney = TRUE
  MaxEvents = 3
  PreciseGeo = FALSE
  RawEntities <- MCRawEntities
  Previews <- MCPreviews
  MaxDepth = 5
SYMMETRY Symmetry
INVARIANTS
  ReadRowStays
  ScanIsCurrent
  JourneyIsLedger
  ProductIsLatest
  RedactionSafe
CHECK_DEADLOCK FALSE
