SPECIFICATION Spec
CONSTANTS
  r1 = r1  r2 = r2
  Upstreams = {1, 2}
  Weight <- UnitWeight
  CounterModulus = 2
  Pools = {"main"}
  PoolOf <- OnePool
  Algorithm <- AllLc
  Url <- OwnUrl
  Scheme <- FirstHttp
  Requests = {r1, r2}
  FailureThreshold = 1
  Cooldown = 1
  HealthyThreshold = 1
  UnhealthyThreshold = 1
  CountModulus = 2
  SkipInitial = TRUE
  MayRecover = {}
  MaxCancels = 0
SYMMETRY RequestSymmetry
INVARIANTS
  ConnectionsAccountedFor
  ScanIsSound
  LeastLoadedIsChosen
PROPERTIES
  ImplementsSelection
