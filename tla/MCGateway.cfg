SPECIFICATION Spec
CONSTANTS
  r1 = r1  r2 = r2
  NoKey = NoKey  Unreadable = Unreadable  Anonymous = Anonymous  NoQuery = NoQuery
  Requests = {r1, r2}
  Offers <- MCOffers
  ApiKeys = {"k"}
  Ids = {1}
  KeyId <- OneId
  KeyTiers = {"pro"}
  Admins = {"a"}
  Tiers = {"pro"}
  TierRps <- OneRps
  TierBurst <- OneRps
  IpRps = 1
  IpBurst = 1
  Scale = 1
  MaxTime = 1
  Addresses = {"unknown"}
  Queries = {"getLedger"}
  Slots = {"getLedger"}
  Slot <- OwnSlot
  Ttl <- MCTtl
  MaxEntries = 0
  MaxFlushes = 1
INVARIANTS
  ChargedToItsTier
  NothingForTheRevoked
  UpstreamLoadBound
PROPERTIES
  PartsAsSpecified
