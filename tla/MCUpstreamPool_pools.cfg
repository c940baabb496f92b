SPECIFICATION Spec
CONSTANTS
  r1 = r1  r2 = r2
  Upstreams = {1, 2}
  Weight <- UnitWeight
  CounterModulus = 2
  Pools = {"main", "archive"}
  PoolOf <- TwoPools
  Algorithm <- WrrAndRandom
  Url <- SameUrl
  Scheme <- AllHttp
  Requests = {r1}
  FailureThreshold = 1
  Cooldown = 1
  HealthyThreshold = 1
  UnhealthyThreshold = 1
  CountModulus = 2
  SkipInitial = TRUE
  MayRecover = {}
  MaxCancels = 1
INVARIANTS
  ConnectionsAccountedFor
PROPERTIES
  ImplementsSelection
