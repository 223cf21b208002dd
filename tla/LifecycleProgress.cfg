SPECIFICATION FairSpec
CONSTANTS
  Workers = {w1}
  Operations <- MCOperations
  Referenced <- MCReferenced
  NoOperation <- MCNoOperation
  Nobody = Nobody
  Faults = {"crash", "provider"}
  MaxFaults = 1
  MaxKeys = 2
  MaxGeneration = 1
  MaxPublications = 1
CHECK_DEADLOCK FALSE
INVARIANTS RetentionNotSkipped
PROPERTIES DisconnectEnds ExpiredDataEnds
