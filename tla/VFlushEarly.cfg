CONSTANTS
  a = a
  b = b
  Threads <- TwoThreads
  Ctl = Ctl
  NoBuf = NoBuf
  NoThread = NoThread
  Null = Null
  Buffers = {b1, b2, b3}
  Reliable = TRUE
  Messages <- OneEach
  Flushes <- OneEach
  Updates <- None
  Shutdowns = 0
  Restarts = 0
  MaxBatch = 2
  SinklessConfigs <- NoSinkless
SPECIFICATION Spec
PROPERTIES FlushComplete
CHECK_DEADLOCK FALSE
