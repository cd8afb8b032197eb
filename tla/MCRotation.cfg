CONSTANTS
  MaxBytes = 2
  KeepFiles = 1
  MaxTotal = 0
  Ageing = FALSE
  MaxRetries = 2
  LinkAttempts = 2
  OldFiles = 1
  Lines = 3
  Dues = 1
  Faults = 2
  Stops = TRUE
SPECIFICATION FairSpec
INVARIANTS LogContinuous FdsOpen NamesAccounted
PROPERTIES WriterReturns NamedInTheEnd
CHECK_DEADLOCK FALSE
