SPECIFICATION Spec
CONSTANTS
  Patchers = {p1, p2}
  Composers = {c1}
  Values = {x}
  Null = Null
  Keep = Keep
  MaxPatches = 2
PROPERTIES
  OmittedUnchanged
CHECK_DEADLOCK FALSE
