SPECIFICATION Spec
CONSTANTS
  Messages = {1, 2}
  Size = 2
  HighWaterMark = 2
  MaxCalls = 2
  Uses = {"paused close"}
INVARIANT
  AssertionsHold
