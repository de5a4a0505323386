SPECIFICATION MCSpec
CONSTANTS
  Channels = {3, 4, 5}
  Readiness <- AllOrNothing
  kInitEventListSize = 1
  Threads = {t1}
  Addresses = {1, 2}
  Delays = {0, 2}
  Intervals = {0, 1}
  MaxTime = 3
  MaxCreated = 2
  MaxPending = 2
  Conns = {c1, c2}
  MaxQueued = 4
INVARIANTS
  IndexesMirror
  TimersAreSound
  ActiveChannelsAreAlive
PROPERTIES
  ImplementsPoller
  ReportsAll
  OnlyNamedTimerCancelled
  TimersRun
