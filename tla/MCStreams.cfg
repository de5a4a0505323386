SPECIFICATION MCSpec
CONSTANTS
  kCheapPrepend = 4
  kInitialSize = 1
  kExtraBuf = 7
  Bytes = {0, 1}
  Chunks <- MCChunks
  MaxReadable = 2
  kMaxLength = 60
  kMaxMessageLen = 60
  kCells = 3
  kMaxLine = 8
  MaxItems = 2
INVARIANTS
  DeliversWholeItems
  ConversionsAreExact
  IndexesInOrder
PROPERTY
  ImplementsByteQueue
CHECK_DEADLOCK FALSE
