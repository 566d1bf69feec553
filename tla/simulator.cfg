SPECIFICATION LinkSpec
CONSTANTS
  MAX_PKGS_AMOUNT = 4
  batch_size = 2
  UndefinedAmounts = {}
  MaxSends = 7
  Samples <- Telemetry
  MaxBuilt = 1
INVARIANTS
  SummaryMatchesWire
  AtMostOneTooMany
  RoundTrip
  CorruptionDetected
  CrcIsRemainder
CHECK_DEADLOCK FALSE
