SPECIFICATION Spec
CONSTANTS
  Workers = {w1, w2}
  Contents = {c1}
  Executions = {e1}
  Platform = "facebook"
  MaxAttempts = 1
  MaxPolls = 1
  Faults = {"record"}
  MaxFaults = 1
  MaxGeneration = 0
  NoWorker = NoWorker
  NoExecution = NoExecution
  NoContent = NoContent
SYMMETRY Interchangeable
CHECK_DEADLOCK FALSE
INVARIANTS OnePublication
