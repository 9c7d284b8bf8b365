\* The known, the blank and two loaded maps, under noise of every sort.
SPECIFICATION Spec
CONSTANTS
  Modulus = 3
  SpanTried = 3
  BitsTried = 1
  MapTried <- MCMaps
  NoiseTried <- MCNoise
  ValueTried <- MCValue
INVARIANTS
  OnlyGapsAreIllegal
  HeartbeatCounts
PROPERTIES
  HeartbeatsGoOn
