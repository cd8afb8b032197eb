CONSTANTS
  Consumers = {x, y}
  Blocks = {u, v, w}
  None = None
  BlockSize = 2
  IndexSize = 2
  MaxElements = 5
  MaxBulk = 3
  MaxDequeue = 2
  MaxOvercommit = 1
  BulkMayFail = FALSE
  FreeThreads = {u, v, w}
  Nodes = {x, y}
  Null = Null
  MaxCalls = 6
  Threads = {x, y}
  HashOf <- OneBucket
  c1 = c1
  c2 = c2
  Takers = {c1, c2}
  TokenTakers = {c1}
  HashSize = 2
  Quota = 2
  OffsetRange = 4
  Budgets <- MCBudgets
  MaxProducers = 3
  MaxTakeBulk = 2
  Vacant = Vacant
  Reusable = Reusable
  Nobody = Nobody
  KeyThreads = {x, y}
  Keys = {"ts", "a", "b", "c"}
  InternalKeys <- MCInternalKeys
  MaxStructuredKeys = 3
  Batches <- MCBatches
  Unknown = "unknown"
  NoKey = "none"
SPECIFICATION MCSpec
SYMMETRY Symmetry
INVARIANTS Conserved OwnedOnce  KeysAgree
PROPERTY RefinesFifo
CHECK_DEADLOCK FALSE
