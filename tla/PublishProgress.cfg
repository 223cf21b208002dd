SPECIFICATION FairSpec
CONSTANTS
  Workers = {w1, w2}
  Contents = {c1}
  Executions = {e1}
  Platform = "facebook"
  MaxAttempts = 1
  MaxPolls = 1
  Faults = {"crash", "stall", "heartbeat", "read", "record", "store", "reply", "processing"}
  MaxFaults = 1
  MaxGeneration = 1
  NoWorker = NoWorker
  NoExecution = NoExecution
  NoContent = NoContent
CHECK_DEADLOCK FALSE
PROPERTIES EventuallySettled HonoursContract
