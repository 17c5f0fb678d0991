CONSTANTS
  Waiter = {c1}
  TimedWaiter = {}
  Caller = {p1, p2}
  MaxPush = 2
  MaxClear = 1
  Free = Free
SPECIFICATION Spec
INVARIANTS NeverTakesFromEmpty
CHECK_DEADLOCK FALSE
