\* Overlapping ranges that share the dead tracker, holes in both, a device that changes,
\* a sink that raises.
SPECIFICATION FairSpec
CONSTANTS
  r1 = r1
  r2 = r2
  r3 = r3
  b1 = b1
  b2 = b2
  Ranges = {r1, r2}
  Bank = {b1}
  Address = {0, 1, 2, 3, 4}
  Value = {0, 1}
  NoValue = none
  ScanRange <- Overlapping
  Implemented <- HolesInOverlap
  AtPowerOn <- LateInOverlap
  Broken <- BrokenAtTheEnd
  HeldAtFirst <- AllZero
  MaxChanges = 2
  MaxReadFailures = 1
  MaxSinkFailures = 1
INVARIANTS
  TypeOK
  PollIsComplete
  NoWastedRequest
PROPERTIES
  MirrorsUnlessSinkRaises
  HolesAreFound
