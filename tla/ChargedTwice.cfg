CONSTANTS
  Callers = {c1}
  Deliveries = {}
  Keys = {k1}
  Providers = {p1, p2}
  EventNumbers = {0, 1}
  MaxEvents = 0
SPECIFICATION Spec
INVARIANTS
  ChargedOnce
CHECK_DEADLOCK FALSE
