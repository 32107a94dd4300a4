SPECIFICATION TextSpec
CONSTANTS
  Statuses <- SomeStatuses
  ArgLists <- SomeArgLists
  RowStarts <- SomeRowStarts
  RowPool <- SomeRowPool
  MaxRows <- SomeMaxRows
  MaxLine = 512
  MaxSaslLine = 4096
  MaxNumber = 4
INVARIANTS
  ResponsesAgree
  ArticlesAgree
  SelectorsExact
  SizesExact
CHECK_DEADLOCK FALSE
