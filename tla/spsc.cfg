SPECIFICATION Spec
CONSTANTS
  Items = {x, y}
  NoItem = NoItem
  Capacity = 3
  MaxPushes = 6
INVARIANTS
  CellsSynchronised
  IndexesTellCounts
  ReservedExactly
PROPERTY ImplementsFifo
CHECK_DEADLOCK FALSE
