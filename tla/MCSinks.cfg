CONSTANTS
  Messages <- MCMessages
  Size <- MCSize
  SinkFilters <- Opposites
  Chains <- MCChains
  Taken = {1}
  Capacity = 3
  MaxIov = 3
  MaxRun = 2
  Window = 2
  CleanupInterval = 1
  Rate = 1
  Second = 2
  Runs = 2
  MaxTime = 3
  Updates = 1
  Faults = 1
SPECIFICATION Spec
INVARIANTS FiltersAlive  
CHECK_DEADLOCK FALSE
ACTION_CONSTRAINT SinksAlone
