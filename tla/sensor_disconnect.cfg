SPECIFICATION Spec
CONSTANTS
  Connections = {c1}
  MAX_DRONES_CONNECTIONS = 1
  RECV_BUFFER_SIZE = 2
  Descriptors = {3, 4}
  MaxSent = 2
PROPERTY DisconnectedThreadsCleaned
CHECK_DEADLOCK FALSE
