SPECIFICATION FairSpec
CONSTANTS
  Messages = {m1}
  Dispatchers = {d1, d2}
  Workers = {w1, w2}
  MaxRetries = 1
  MaxFaults = 3
  Nobody = Nobody
  NoMessage = NoMessage
CHECK_DEADLOCK FALSE
INVARIANTS TypeOK NoLostMessage
PROPERTIES HonoursContract EventuallyEnded
