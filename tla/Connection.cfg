SPECIFICATION Spec
CONSTANTS
  Platforms = {"youtube", "facebook", "tiktok", "instagram"}
  Requests = {r1, r2}
  MaxAttempts = 2
  MaxKeys = 3
  Faults = {"crash", "destroy", "reply"}
  MaxFaults = 1
SYMMETRY Alike
INVARIANTS TypeOK TokensOfOwnAttempt StoredKeysOpen KeyAccounted
PROPERTY SupersededIsHarmless
CHECK_DEADLOCK FALSE
