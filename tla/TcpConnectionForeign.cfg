SPECIFICATION ForeignCloseSpec
CONSTANTS
  Messages = {1, 2}
  Size = 2
  HighWaterMark = 2
  MaxCalls = 1
  Uses = {}
INVARIANT
  ConnectDestroyedOnce
