SPECIFICATION ProgressSpec
CONSTANTS
  Limit = 6
  s1 = s1
  s2 = s2
INVARIANTS
  NoLostWakeup
PROPERTIES
  WaitIsAtomic
  RunReturns
  BatchAnswered
  WaitingClientAnswered
  SlotsReturn
