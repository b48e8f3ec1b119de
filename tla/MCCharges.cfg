CONSTANTS
  Callers = {c1, c2}
  Deliveries = {d1}
  Keys = {k1}
  Providers = {p1, p2}
  EventNumbers = {0, 1}
  MaxEvents = 2
SPECIFICATION Spec
INVARIANTS
  LedgerShowsEveryTry
  SucceededWasTaken
  
  ChargedOnceManual
CHECK_DEADLOCK FALSE
SYMMETRY Interchangeable
