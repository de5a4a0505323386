SPECIFICATION FairSpec
CONSTANTS
  Messages = {1, 2}
  Size = 2
  HighWaterMark = 2
  MaxCalls = 2
  Uses = {}
INVARIANTS
  ClosesCleanly
  UpThenDownOnce
  OutputIsSent
  ShutdownOnceDrained
PROPERTIES
  ClosedIsRemoved
