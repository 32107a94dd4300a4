SPECIFICATION TasksSpec
CONSTANTS
  s1 = s1
  s2 = s2
SYMMETRY SessionSymmetry
INVARIANTS
  SplitsInvisible
  WritesExact
  ActiveBound
  TotalsExact
