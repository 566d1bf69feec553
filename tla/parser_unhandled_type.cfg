SPECIFICATION Spec
CONSTANTS
  MIN_PAYLOAD_EXP_LENGTH = 1
  MAX_PAYLOAD_EXP_LENGTH = 3
  MaxBytes = 27
  Batches <- MixedTraffic
  calculate_crc16 <- MixingCrc
  deserialize_payload <- DecodeScaled
INVARIANT RecoversFromEveryCandidate
CHECK_DEADLOCK FALSE
