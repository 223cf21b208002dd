SPECIFICATION Spec
CONSTANTS
  u1 = u1
  u2 = u2
  r1 = r1
  r2 = r2
  w1 = w1
  NoUser = NoUser
  NoRequest = NoRequest
  Nobody = Nobody
  Users = {u1, u2}
  Requests = {r1, r2}
  Workers = {w1}
  Roles = {"owner_admin", "editor"}
  Operations <- MCOperations
  NoOperation <- MCNoOperation
  Referenced = {}
  Faults = {"crash", "stall", "provider", "object", "identity", "presign"}
  MaxFaults = 2
  MaxRequests = 3
SYMMETRY Symmetry
INVARIANT DeletionAccepted
CHECK_DEADLOCK FALSE
