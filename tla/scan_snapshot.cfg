\* An address two ranges share, the same addresses on another unit, a unit that comes up late,
\* a device that changes while answers are on their way.
SPECIFICATION HistorySpec
CONSTANTS
  r1 = r1
  r2 = r2
  r3 = r3
  b1 = b1
  b2 = b2
  Ranges = {r1, r2, r3}
  Bank = {b1, b2}
  Address = {0, 1}
  Value = {0, 1}
  NoValue = none
  ScanRange <- TwoUnits
  Implemented <- HolesPerUnit
  AtPowerOn <- LatePerUnit
  Broken <- NoneBroken
  HeldAtFirst <- AllZero
  MaxChanges = 2
  MaxReadFailures = 1
  MaxSinkFailures = 1
INVARIANTS
  SnapshotIsLastRead
  DeadIsReal
PROPERTIES
  MirrorsDevice
