SPECIFICATION Spec
CONSTANTS
  r1 = r1  r2 = r2
  Upstreams = {1}
  Weight <- UnitWeight
  CounterModulus = 2
  Pools = {"main"}
  PoolOf <- OnePool
  Algorithm <- AllWrr
  Url <- OwnUrl
  Scheme <- AllHttp
  Requests = {r1, r2}
  FailureThreshold = 2
  Cooldown = 2
  HealthyThreshold = 2
  UnhealthyThreshold = 2
  CountModulus = 3
  SkipInitial = FALSE
  MayRecover = {1}
  MaxCancels = 0
INVARIANTS
  TypeOK
  BreakerConsistent
PROPERTIES
  HealthHasHysteresis
  
  RecoveredIsReadmitted
  AnsweredUnlessBodyStalls
