CONSTANTS
  Nodes = {1, 2}
  Calls = {c1, c2}
  Nobody = Nobody
  TTL = 2
  DegradedAfter = 1
  Serial = TRUE
  Period = 3
  RetryDelay = 2
  MaxRetries = 2
  CatchUp = TRUE
  CatchUpWindow = 2
  MaxTime = 5
SPECIFICATION MCSpec
INVARIANTS
  TypesOK
  
  LockExclusive
  
  NoHotLoop
  
PROPERTIES
  
  LockEndedByUser
