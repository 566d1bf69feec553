SPECIFICATION Spec
CONSTANTS
  Producers = {p1, p2}
  Consumers = {c1, c2}
  Items = {x, y}
  NoItem = NoItem
  Capacity = 2
  MaxPushes = 3
INVARIANTS
  TypeOK
  CellsNotShared
  ReadsOwnItem
  QuietQueueUsable
PROPERTY ImplementsFifo
CHECK_DEADLOCK FALSE
