\* Points around the edges, all orders, all short texts, three layers.
\* Every item comes to its end.
CHECK_DEADLOCK FALSE
SPECIFICATION Spec
CONSTANTS
  x = x
  y = y
  z = z
  Null = Null
  Byte = {x, y, z}
  Address <- MCAddress
  MaxLength = 4
  BootTried <- MCBoot
  WriteTried <- MCWrite
  ValueTried <- MCValue
INVARIANTS
  NamesAreRead
  ValuesSurvive
  BootIsAsked
  WritesNeedConsent
