CONSTANTS
  Renewers = {r1}
  Dunning = dun
  Plans = {"pro"}
  Period = 1
  TrialDays = 1
  DueDays = 0
  GraceDays = 1
  RetrySchedule <- MCRetrySchedule
  Providers = 1
  MaxDay = 3
  MaxInvoices = 2
SPECIFICATION RenewalLiveSpec
PROPERTIES
  ExpiredIsFinal
  CancellationTakesEffect
CHECK_DEADLOCK FALSE
