SPECIFICATION Spec
CONSTANTS
  Request = {r1, r2, r3, r4}
  r1 = r1
  r2 = r2
  r3 = r3
  r4 = r4
  NoRequest = NoRequest
  MaxConcurrency = 1
  Event = {"slotTimeout"}
SYMMETRY Requests
INVARIANTS
  AdmittedLimit
