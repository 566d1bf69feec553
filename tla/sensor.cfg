SPECIFICATION Spec
CONSTANTS
  Connections = {c1, c2}
  MAX_DRONES_CONNECTIONS = 2
  RECV_BUFFER_SIZE = 2
  Descriptors = {3, 4, 5}
  MaxSent = 2
INVARIANTS
  BytesArriveOnce
  EachDescriptorOwned
  NoListenerOutlivesSensor
PROPERTIES
  ShutdownCompletes
  EveryByteQueued
CHECK_DEADLOCK FALSE
