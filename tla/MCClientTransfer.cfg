SPECIFICATION Spec
CONSTANTS
  Caller = {c1, c2}
  NoOne = NoOne
  Calls <- TransferCalls
  Depth = 1
  MaxBatch = 2
  WireCap = 2
  FrameCap = 1
  MaxCalls = 3
SYMMETRY Symmetry
INVARIANTS
  TypeOK
  ResponseMatch
  ExclusiveAlone
  ArticlePause
  GateExact
  NoStrandedRequest
