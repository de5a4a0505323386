SPECIFICATION Spec
CONSTANTS
  InitQuits = TRUE
  QueueKinds = {"pool", "bounded", "blocking"}
  Producers = {"p1", "p2"}
  Workers = {"w1", "w2"}
  Owner = "owner"
  maxQueueSize = 1
  TasksEach = 2
  MaxSpurious = 1
  rollSize = 2
  checkEveryN = 2
  flushInterval = 1
  kRollPerSeconds = 2
  kLargeBuffer = 2
  kTooMany = 3
  MaxLines = 4
  MaxTime = 2
  NULL = NULL
  ThreadNums = {0, 1, 2}
  MaxFds = 3
  MaxConns = 3
  MaxOpens = 1
INVARIANTS
  LoopIsHandedOver
  TakenInOrder
  LogIsInOrder
  DescriptorsAddUp
PROPERTIES
  StartAndStopReturn
  TasksRunAndStopReturns
  LineIsWritten
  BacklogDrains
CHECK_DEADLOCK FALSE
