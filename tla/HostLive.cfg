SPECIFICATION FairSpec
CONSTANTS
  Process = {p1}
  Client = {c1, c2}
  Stranger = stranger
  NoProcess = noProcess
  Version = {listed, unlisted}
  Configured = {listed}
  NoVersion = noVersion
  Files = 1
  Event <- Streams
PROPERTIES StopEnds
