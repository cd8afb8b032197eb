CONSTANTS
  KeepFiles = 1
  QueueMax = 1
  MaxBatch = 2
  SizeWrap = 16
  Rotations = 3
  Starts = 1
  Faults = 1
SPECIFICATION FairSpec
INVARIANTS DataKept OnePlace 
 
CHECK_DEADLOCK FALSE
