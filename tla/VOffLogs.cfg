CONSTANTS
  Enqueuers = {e1, e2}
  Waiters = {w1, w2}
  MaxItems = 2
  MaxWaits = 1
  MaxTake = 2
  AppThreads = {a1, a2}
  Loggers = {a1}
  Worker = w
  CrashSignals = {segv}
  EndSignals = {term}
  MaxLogged = 1
  MaxFlushes = 1
  MaxSignals = 2
  None = None
  LevelThreads = {l1, l2}
  ModuleNames = {"net", "db"}
  Generic = "generic"
  Statements <- MCStatements
  TopLevel = 1
  Configurations <- MCConfigurations
  FilePatterns = {{"f"}, {"f", "g"}}
  MaxLevelCalls = 3
  Absent = Absent
  BufferCapacity = 30
  HeaderSize = 2
  MaxPairs = 2
  MaxValue = 1
  HeaderText <- MCHeader
  Strings <- MCStrings
  InternalPairs <- MCInternalPairs
  UserPairs <- MCUserPairs
  Dumps <- MCDumps
  InlineDumps <- MCInlineDumps
  MaxRows = 4
  ChunkBytes = 2
  ByteText = 2
  LowRoom = 4
  Spares = {1, 4}
  MaxCalls = 2
  Short = Short
  NoRow = NoRow
  NoBuffer = NoBuffer
  TableKeys = {"a", "b", "c", "d", "e"}
  TableValues = {1}
  HashOf <- MCHash
  InitialSize = 2
  HashBits = 4
  InfoTop = 7
  LoadFactor = 80
  MaxTries = 8
  Reserves = {7}
  MaxTableSize = 16
  NoTableKey = NoTableKey
  Handles = {h1, h2, h3}
  SmallValues = {s1, s2}
  LargeValues = {v1}
  HeapCells = {c1, c2, c3, c4}
  Nothing = Nothing
  Own = Own
  Husk = Husk
  Unborn = Unborn
  Files <- MCFiles
  Parsing = {"greedy", "lazy"}
  InBuf = 8
  OutBuf = 2
  ShortReads = {3}
  DictSize = 8
  MaxMatch = 5
  LongMatch = 5
  FarMatch = 8
  CodeBuf = 24
  BigBlock = 10
  HashSize = 8
  MaxProbes = 4
  Junk = {0, 3}
  BlockBytes = {1, 3}
  SymbolCounts <- MCSymbolCounts
  SizeLimit = 4
  Radix = 4
  SizeLists <- MCSizeLists
SPECIFICATION MCSpec
CHECK_DEADLOCK FALSE
INVARIANT OffIsOff
