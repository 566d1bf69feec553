SPECIFICATION Spec
CONSTANTS
  Producers = {p1}
  PopAllConsumers = {a1}
  TimedConsumers = {}
  Closers = {w}
  NoThread = NoThread
  Items = {x}
  MaxItems = 2
PROPERTY PopAllConsumersStop
CHECK_DEADLOCK FALSE
