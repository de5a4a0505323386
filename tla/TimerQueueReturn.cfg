SPECIFICATION Spec
CONSTANTS
  Threads = {t1}
  Addresses = {1, 2}
  Delays = {2}
  Intervals = {0, 1}
  MaxTime = 3
  MaxCreated = 2
  MaxPending = 1
INVARIANT
  AddedTimerIsAlive
CHECK_DEADLOCK FALSE
