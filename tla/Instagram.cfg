SPECIFICATION Spec
CONSTANTS
  e1 = e1
  e2 = e2
  v1 = v1
  Workers = {w1, w2}
  Versions = {v1}
  Executions = {e1, e2}
  VersionOf <- MCVersionOf
  MaxFaults = 1
  MaxAuthorizations = 2
  MaxGeneration = 2
  NoExecution = NoExecution
SYMMETRY Alike
INVARIANTS TypeOK OneReel CheckpointCovers NoLateReel RemovalIsReal
PROPERTY HonoursTrigger
CHECK_DEADLOCK FALSE
