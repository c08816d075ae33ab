SPECIFICATION Spec
CONSTANTS
  Ids = {e1, e2, e3}
  Keys = {k}
  Times <- MCTimes
  Payloads <- MCPayloads
  Canon <- MCCanon
  NoEvent = NoEvent
  NoKey = NoKey
  Appenders = {a1, a2}
  Backfillers = {bf}
  Free = Free
SYMMETRY Symmetry
INVARIANTS
  TypeOK
  ChainLinked
  HeadStaysCurrent
  BlocksMatchEvents
  OnlyNormalisedFlagged
  CutoverComplete
PROPERTIES
  ImplementsLog
