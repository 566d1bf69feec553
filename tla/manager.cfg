SPECIFICATION Spec
CONSTANTS
  Producers = {p1, p2}
  PopAllConsumers = {a1}
  TimedConsumers = {t1, t2}
  Closers = {w}
  NoThread = NoThread
  Items = {x, y}
  MaxItems = 2
INVARIANTS
  FirstInFirstOut
  EveryItemAttended
PROPERTIES
  TimedConsumersStop
  EveryItemConsumed
CHECK_DEADLOCK FALSE
