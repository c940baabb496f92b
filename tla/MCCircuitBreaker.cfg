SPECIFICATION Spec
CONSTANTS
  FailureThreshold = 5
  Cooldown = 30
INVARIANTS
  TypeOK
  TripsExactlyAtThreshold
PROPERTIES
  QuietBeforeReadmission
  ReopensWhenQuiet
