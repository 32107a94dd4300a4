SPECIFICATION ServerSpec
CONSTANTS
  Disk <- SomeDisk
  Commands <- SomeCommands
  MissingIds <- Missing
  HyphenIds <- Hyphens
  FarFuture = 50
  MaxBatched = 2
  MaxHeld = 2
INVARIANT RangeRowsExact
CHECK_DEADLOCK FALSE
