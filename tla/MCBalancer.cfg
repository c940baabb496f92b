SPECIFICATION Spec
CONSTANTS
  Upstreams = {1, 2, 3, 4}
  Weight <- MCWeight
  CounterModulus = 16
INVARIANTS
  PicksExactlyOne
  ProportionalService
