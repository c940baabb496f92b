SPECIFICATION Spec
CONSTANTS
  r1 = r1  r2 = r2
  Upstreams = {1}
  Weight <- UnitWeight
  CounterModulus = 2
  Pools = {"main"}
  PoolOf <- OnePool
  Algorithm <- AllLc
  Url <- OwnUrl
  Scheme <- AllHttp
  Requests = {r1}
  FailureThreshold = 1
  Cooldown = 1
  HealthyThreshold = 1
  UnhealthyThreshold = 1
  CountModulus = 2
  SkipInitial = FALSE
  MayRecover = {}
  MaxCancels = 1
INVARIANTS
  CountsOnlyActiveConnections
