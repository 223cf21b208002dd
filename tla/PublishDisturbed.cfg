SPECIFICATION Spec
CONSTANTS
  Workers = {w1, w2}
  Contents = {c1}
  Executions = {e1}
  Platform = "tiktok"
  MaxAttempts = 1
  MaxPolls = 2
  Faults = {"crash", "stall", "heartbeat", "read", "record", "store", "reply", "processing"}
  MaxFaults = 2
  MaxGeneration = 1
  NoWorker = NoWorker
  NoExecution = NoExecution
  NoContent = NoContent
SYMMETRY Interchangeable
CHECK_DEADLOCK FALSE
INVARIANTS OutcomeAgreement UploadExclusive AttemptBound
PROPERTIES TerminalIsFinal
