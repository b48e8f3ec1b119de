CONSTANTS
  Nodes = {n1}
  Tasks = {t1, t2}
  Reqs = {r1}
  MaxTaskAttempts = 1
  MaxClaimBatch = 2
  MaxTasksPerPoll = 2
  NoReq = NoReq
SPECIFICATION LiveSpec
PROPERTIES
  NotHeldForever
