CONSTANTS
  Threads = {t1, t2, t3}
  Buffers = {b1, b2}
  NoBuf = NoBuf
  Reliable = FALSE
  MaxAcquires = 4
  MaxResets = 1
SPECIFICATION Spec
SYMMETRY Symmetry
INVARIANTS BuffersSound AvailableClean StatsExact
 
