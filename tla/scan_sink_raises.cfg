\* One event on which the console or CSV sink raises: the table never catches up.
SPECIFICATION FairSpec
CONSTANTS
  r1 = r1
  r2 = r2
  r3 = r3
  b1 = b1
  b2 = b2
  Ranges = {r1}
  Bank = {b1}
  Address = {0}
  Value = {0, 1}
  NoValue = none
  ScanRange <- OneShared
  Implemented <- NoHoles
  AtPowerOn <- NoHoles
  Broken <- NoneBroken
  HeldAtFirst <- AllZero
  MaxChanges = 1
  MaxReadFailures = 0
  MaxSinkFailures = 1
PROPERTIES
  EventuallyMirrors
