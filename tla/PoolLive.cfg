SPECIFICATION FairSpec
CONSTANTS
  Request = {r1, r2}
  Contaminator = {r1, r2}
  r1 = r1
  r2 = r2
  NoRequest = NoRequest
  Key = {k1}
  k1 = k1
  MaxConcurrency = 1
  FailureLimit = 2
  MaxShutdowns = 1
  Event = {"probeFails", "exit", "removalFails"}
INVARIANTS
  OneStarter
  NoCircularWait
  ActiveAccounting
  HealthyHasPool
PROPERTIES
  EveryRequestEnds
  DestroyingEnds
  DeadContainerNoticed
