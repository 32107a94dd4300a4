SPECIFICATION ServerSpec
CONSTANTS
  Disk <- SomeDisk
  Commands <- SomeCommands
  MissingIds <- Missing
  HyphenIds <- Hyphens
  FarFuture = 50
  MaxBatched = 2
  MaxHeld = 2
INVARIANTS
  AnswersNameArticles
  OneAnswerEach
  AnswersAccepted
  OrderFree
PROPERTIES
  IsCursor
CHECK_DEADLOCK FALSE
