CONSTANTS
  Byte = {0, 1}
  ZeroByte = 0
  dataCapacity = 3
  MaxRequest = 4
  Numbers <- SomeNumbers
  Calls <- KnownReads
  ShortReads = FALSE
  MaxNumbers = 3
  Bundles <- SomeBundles
  Children <- SomeChildren
  BadAfterGood = FALSE
  MaxInits = 3
  MaxStarts = 3
  Waiter = {w1, w2}
  MaxCount = 1
  SecondMs = 3
  portTICK_PERIOD_MS = 2
  Timeouts = {1, 4}
  MaxGiven = 2
  MaxClock = 6
SPECIFICATION MCSpec
INVARIANTS RingInv IntegersReadBack VerdictIsOfTheBundle BlocksAreFreedByTheirTasks WaitsKeepTheirWord
PROPERTIES ImplementsFifo CallsEnd
CHECK_DEADLOCK FALSE
