SPECIFICATION Spec
CONSTANTS
  MIN_PAYLOAD_EXP_LENGTH = 1
  MAX_PAYLOAD_EXP_LENGTH = 3
  MaxBytes = 19
  Batches <- Traffic
  calculate_crc16 <- MixingCrc
  deserialize_payload <- DecodeScaled
INVARIANTS
  FieldsMatchView
  NoPacketSkipped
  HeldBackOnlyByCandidate
  BufferBounded
  CountersBalance
  DecodedFromOwnPayload
PROPERTIES
  EveryBatchFinishes
  ImplementsScanner
CHECK_DEADLOCK FALSE
