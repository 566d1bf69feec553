SPECIFICATION Spec
CONSTANTS
  d1 = d1
  d2 = d2
  Drones <- BothDrones
  DRONE_ACTIVATION_TIMEOUT = 2
  ClockOffsets <- ClocksBehind
  MaxLag <- LagBehind
  ClockModulus = 32
  StartTime = 3
  LastSend = 7
  MaxTime = 10
  MaxQueue = 2
INVARIANTS
  PunctualDronesStayActive
  ActiveMeansRecent
PROPERTIES
  ReactivatedByPacket
  SilentDronesGoInactive
CHECK_DEADLOCK FALSE
