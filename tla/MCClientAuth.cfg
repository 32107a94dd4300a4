SPECIFICATION Spec
CONSTANTS
  Caller = {c1, c2}
  NoOne = NoOne
  Calls <- AuthCalls
  Depth = 1
  MaxBatch = 2
  WireCap = 1
  FrameCap = 1
  MaxCalls = 3
SYMMETRY Symmetry
PROPERTIES
  AnswersInOrder
