SPECIFICATION MCSpec
CONSTANTS
  Clients = {c1, c2, c3}
  Burst = 3
  Rate = 1
  MaxBuckets = 1
  Hour = 2
  Kids = {k1, k2}
  Attempts = 3
  Backoff = 1
  FetchTimeout = 1
  DegradedInterval = 2
  SteadyInterval = 5
  Requests = {q1, q2}
  Window = 2
  NotifierSet = TRUE
  Replicas = {r1, r2, r3}
  Releases = {1, 2, 3}
  Chunks = 2
  MaxFails = 2
  Free = Free
INVARIANTS
  KeysConverge
  MintedOnVerdict
  AlertThrottled
  DeskIsTold
  SchemaMatchesRecord
  ServesMigrated
PROPERTIES
  LimiterKeepsPromise
  EveryReplicaServes
CHECK_DEADLOCK FALSE
