SPECIFICATION FairSpec
CONSTANTS
  Lots = {l1}
  Writers = {w1, w2}
  Relays = {r1, r2}
  MaxId = 3
  Batch = 2
  Free = Free
  Imported = Imported
  NoRow = NoRow
INVARIANTS
  QREventsInOrder
  ConsumersConverge
PROPERTIES
  EventuallyDelivered
CHECK_DEADLOCK FALSE
