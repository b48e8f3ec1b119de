CONSTANTS
  Nodes = {n1}
  Tasks = {t1}
  Reqs = {r1, r2}
  MaxTaskAttempts = 2
  MaxClaimBatch = 2
  MaxTasksPerPoll = 2
  NoReq = NoReq
SYMMETRY ReqSymmetry
SPECIFICATION Spec
INVARIANTS
  AttemptBudget
  AttemptsRunInOrder
  SucceededWasRun
PROPERTIES
  TerminalIsFinal
