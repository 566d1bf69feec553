SPECIFICATION Spec
CONSTANT MAX_PKGS_AMOUNT = 2
INVARIANTS
  NothingLostInside
  UnharmedWhileRunning
PROPERTIES
  SummaryIsFinal
  EveryPacketProcessed
  OnlyParserHoldsUp
CHECK_DEADLOCK FALSE
