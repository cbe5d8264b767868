SPECIFICATION Spec
CONSTANTS
  Client = {c1, c2}
  ApiKey = {k1, k2, k3}
  Code = {a1, a2}
  c1 = c1
  c2 = c2
  k1 = k1
  k2 = k2
  k3 = k3
  a1 = a1
  a2 = a2
  NoClient = NoClient
  NoKey = NoKey
SYMMETRY Values
INVARIANTS
  IndexesAgree
  CodeOnce
  TokenIsOwn
PROPERTIES
  RevokedForEver
