SPECIFICATION Spec
CONSTANTS
  Methods = {"getLedger", "sendTransaction"}
  PoolNames = {"a", "b"}
  Addresses = {"main", "admin", "metrics"}
  Configs <- MCConfigs
  MaxOpen = 2
INVARIANTS
  RoutesReachAPool
  RoutesLikeTheTable
  CleanExit
PROPERTIES
  StopsWhenTold
CHECK_DEADLOCK FALSE
