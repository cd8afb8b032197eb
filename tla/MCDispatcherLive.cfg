CONSTANTS
  a = a
  b = b
  Threads <- TwoThreads
  Ctl = Ctl
  NoBuf = NoBuf
  NoThread = NoThread
  Null = Null
  Buffers = {b1, b2, b3}
  Reliable = TRUE
  Messages <- TwoOne
  Flushes <- OnlyB
  Updates <- None
  Shutdowns = 0
  Restarts = 0
  MaxBatch = 2
  SinklessConfigs <- NoSinkless
SPECIFICATION FairSpec
PROPERTIES RefinesLogDelivery 
CHECK_DEADLOCK FALSE
