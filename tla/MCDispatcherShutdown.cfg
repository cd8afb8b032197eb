CONSTANTS
  a = a
  b = b
  Threads <- TwoThreads
  Ctl = Ctl
  NoBuf = NoBuf
  NoThread = NoThread
  Null = Null
  Buffers = {b1, b2, b3}
  Reliable = TRUE
  Messages <- OnlyATwo
  Flushes <- OnlyB
  Updates <- None
  Shutdowns = 1
  Restarts = 1
  MaxBatch = 2
  SinklessConfigs <- NoSinkless
SPECIFICATION FairSpec
INVARIANTS HandledInOrder 
PROPERTIES ShutdownReturns
CHECK_DEADLOCK FALSE
ACTION_CONSTRAINT Sound
