SPECIFICATION Spec
CONSTANTS
  Workers = {w1, w2}
  Contents = {c1, c2}
  Executions = {e1, e2}
  Platform = "youtube"
  MaxAttempts = 1
  MaxPolls = 1
  Faults = {"crash", "heartbeat", "store", "processing"}
  MaxFaults = 1
  MaxGeneration = 1
  NoWorker = NoWorker
  NoExecution = NoExecution
  NoContent = NoContent
SYMMETRY Interchangeable
CHECK_DEADLOCK FALSE
INVARIANTS TypeOK OnePublication RetryIsSafe PublishedIsReal
