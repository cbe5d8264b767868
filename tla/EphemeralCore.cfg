SPECIFICATION FairSpec
CONSTANTS
  Request = {r1, r2, r3}
  r1 = r1
  r2 = r2
  r3 = r3
  NoRequest = NoRequest
  MaxConcurrency = 1
  Event = {"slotTimeout", "probeFails", "idle", "fault"}
INVARIANTS
  NoSlotLost
  LeaseAccounting
  NoCircularWait
  HealthyIsBacked
PROPERTIES
  RemovalSparesLeases
  ImplementsLeases
  EveryRequestEnds
