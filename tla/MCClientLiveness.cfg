SPECIFICATION FairSpec
CONSTANTS
  Caller = {c1, c2}
  NoOne = NoOne
  Calls <- SharedCalls
  Depth = 1
  MaxBatch = 2
  WireCap = 2
  FrameCap = 2
  MaxCalls = 2
INVARIANTS
  NoFollow
PROPERTIES
  CallsReturn
