SPECIFICATION GateSpec
CONSTANTS
  Requests = {r1, r2}
  Window = 2
  NotifierSet = FALSE
INVARIANTS
  DeskIsTold
