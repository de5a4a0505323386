SPECIFICATION Spec
CONSTANTS
  kInitRetryDelayMs = 2
  kMaxRetryDelayMs = 7
  MaxCalls = 0
  DestructsEarly = TRUE
INVARIANT
  ChannelGone
