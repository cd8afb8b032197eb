CONSTANTS
  a = a
  b = b
  Threads <- TwoThreads
  Ctl = Ctl
  NoBuf = NoBuf
  NoThread = NoThread
  Null = Null
  Buffers = {b1, b2, b3}
  Reliable = FALSE
  Messages <- TwoOne
  Flushes <- OnlyA
  Updates <- OnlyB
  Shutdowns = 0
  Restarts = 0
  MaxBatch = 2
  SinklessConfigs <- FirstSinkless
SPECIFICATION Spec
SYMMETRY Symmetry
INVARIANTS BuffersConserved DeliveryExact TicketsAccounted 
CHECK_DEADLOCK FALSE
