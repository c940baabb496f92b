SPECIFICATION Spec
CONSTANTS
  Clients = {"key1", "key2", "key3", "key4", "anon"}
  Tier <- MCTier
  Ip <- MCIp
  Tiers = {"free", "once"}
  TierRps <- MCTierRps
  TierBurst <- MCTierBurst
  IpRps = 1
  IpBurst = 1
  Scale = 3
  MaxTime = 6
INVARIANTS
  TypeOK
  RateBound
  RejectedOnlyWhenSpent
