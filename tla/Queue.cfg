CONSTANTS
  Waiter = {c1, c2}
  TimedWaiter = {t1}
  Caller = {p1, p2}
  MaxPush = 3
  MaxClear = 1
  Free = Free
SPECIFICATION FairSpec
INVARIANTS TypeOK
PROPERTIES ElementsAreTaken
CHECK_DEADLOCK FALSE
