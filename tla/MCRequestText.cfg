SPECIFICATION TextSpec
INVARIANTS
  LinesAgree
  ScriptFaithful
  WrittenIsWire
CHECK_DEADLOCK FALSE
