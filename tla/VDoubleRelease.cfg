CONSTANTS
  a = a
  b = b
  Threads <- TwoThreads
  Ctl = Ctl
  NoBuf = NoBuf
  NoThread = NoThread
  Null = Null
  Buffers = {b1, b2, b3, b4}
  Reliable = TRUE
  Messages <- TwoEach
  Flushes <- None
  Updates <- None
  Shutdowns = 1
  Restarts = 0
  MaxBatch = 2
  SinklessConfigs <- NoSinkless
SPECIFICATION Spec
SYMMETRY Symmetry
INVARIANTS NeverReleasedTwice
CHECK_DEADLOCK FALSE
