SPECIFICATION FramingSpec
INVARIANTS
  FramerExact
  VerdictExact
  ScanExact
PROPERTIES
  ReceiverExact
CHECK_DEADLOCK FALSE
