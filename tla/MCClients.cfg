SPECIFICATION MCSpec
CONSTANTS
  kInitRetryDelayMs = 2
  kMaxRetryDelayMs = 7
  MaxCalls = 3
  DestructsEarly = FALSE
INVARIANTS
  OneAttempt
  SocketsAccounted
  ResultsAreExact
  InFlightIsKept
PROPERTIES
  StopIsFinal
  ComesToAnEnd
