CONSTANTS
  Renewers = {r1, r2}
  Dunning = dun
  Plans = {"free", "pro"}
  Period = 2
  TrialDays = 1
  DueDays = 9
  GraceDays = 1
  RetrySchedule <- MCRetrySchedule
  Providers = 0
  MaxDay = 4
  MaxInvoices = 2
SPECIFICATION Spec
INVARIANTS
  EveryPeriodInvoiced
PROPERTIES
  
  AccessUntilPeriodEnd
SYMMETRY Interchangeable
CHECK_DEADLOCK FALSE
