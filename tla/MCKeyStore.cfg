SPECIFICATION Spec
CONSTANTS
  a1 = a1  a2 = a2
  Keys = {"key1", "key2", "key3"}
  NoKey = "none"
  Unreadable = "unreadable"
  Ids = {"id1", "id2"}
  KeyId <- MCKeyId
  Tiers = {"free", "pro"}
  Anonymous = "anonymous"
  Clients = {"client"}
  Admins = {a1, a2}
SYMMETRY AdminSymmetry
INVARIANTS
  AcksAreDurable
  RevocationIsFinal
  GrantedIsHonoured
  ServedInItsTier
