SPECIFICATION Spec
CONSTANTS
  Process = {p1}
  Client = {c1, c2}
  Stranger = stranger
  NoProcess = noProcess
  Version = {listed, unlisted}
  Configured = {listed}
  NoVersion = noVersion
  Files = 2
  Event <- Calm
INVARIANTS MountedIsComplete
