SPECIFICATION Spec
CONSTANTS
  Process = {p1, p2}
  Client = {c1}
  Stranger = stranger
  NoProcess = noProcess
  Version = {listed, unlisted}
  Configured = {listed}
  NoVersion = noVersion
  Files = 2
  Event <- Faults
SYMMETRY Symmetry
INVARIANTS AloneIsListed PartialOnlyByFault CacheIsOwn
