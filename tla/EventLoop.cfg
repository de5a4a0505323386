SPECIFICATION FairSpec
CONSTANTS
  Threads = {t1, t2}
  Functors = {f1, f2, f3}
  Channels = {c1}
  MaxQuits = 2
INVARIANTS
  NoLostWakeup
  NoLostQuit
PROPERTIES
  QueuedFunctorRuns
  QuitEndsLoop
  ImplementsExecutor
CHECK_DEADLOCK FALSE
