SPECIFICATION Spec
CONSTANTS
  Request = {r1, r2, r3}
  Contaminator = {r1, r2, r3}
  r1 = r1
  r2 = r2
  r3 = r3
  NoRequest = NoRequest
  Key = {k1}
  k1 = k1
  MaxConcurrency = 2
  FailureLimit = 3
  MaxShutdowns = 0
  Event = {}
SYMMETRY Requests
INVARIANTS
  ResiduePending
