SPECIFICATION Spec
CONSTANTS
  h1 = h1  h2 = h2
  NoQuery = NoQuery
  Queries = {"getAccount", "getLatestLedger", "sendTransaction"}
  Slots = {"getAccount", "getLatestLedger", "sendTransaction"}
  Slot <- OwnSlot
  Ttl <- MCTtl
  Handlers = {h1, h2}
  MaxEntries = 1
  MaxTime = 4
  MaxFlushes = 2
SYMMETRY HandlerSymmetry
INVARIANTS
  EntriesBelong
PROPERTIES
  HitIsFresh
  HitAnswersTheQuery
