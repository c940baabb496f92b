SPECIFICATION Spec
CONSTANTS
  h1 = h1  h2 = h2
  NoQuery = NoQuery
  Queries = {"getAccount", "getLatestLedger", "sendTransaction"}
  Slots = {"getAccount", "getLatestLedger", "sendTransaction"}
  Slot <- OwnSlot
  Ttl <- MCTtl
  Handlers = {h1, h2}
  MaxEntries = 3
  MaxTime = 4
  MaxFlushes = 1
PROPERTIES
  CachedForItsTtl
