SPECIFICATION Spec
CONSTANTS
  d1 = d1
  d2 = d2
  Drones <- OneDrone
  DRONE_ACTIVATION_TIMEOUT = 2
  ClockOffsets <- ClockAhead
  MaxLag <- NoLag
  ClockModulus = 32
  StartTime = 3
  LastSend = 7
  MaxTime = 10
  MaxQueue = 2
INVARIANT RecentlyHeardIsActive
CHECK_DEADLOCK FALSE
