SPECIFICATION Spec
CONSTANTS
  Workers = {w1, w2}
  Operations <- MCOperations
  Referenced <- MCReferenced
  NoOperation <- MCNoOperation
  Nobody = Nobody
  Faults = {"crash", "stall", "heartbeat", "journal", "vault", "provider", "refused", "destroy", "reply", "lease", "overtaken"}
  MaxFaults = 1
  MaxKeys = 2
  MaxGeneration = 1
  MaxPublications = 1
SYMMETRY WorkerSymmetry
CHECK_DEADLOCK FALSE
INVARIANTS TypeOK NoStrandedKey RetiredKeyUnused CertifiedIsDestroyed ConnectedIsAuthorized
PROPERTIES ErasedAfterRevocation DenialHolds CompletedIsFinal
