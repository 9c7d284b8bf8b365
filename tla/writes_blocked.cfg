\* A write request meets a file that forbids writes in quotes.  Every item comes to its end.
CHECK_DEADLOCK FALSE
SPECIFICATION Spec
CONSTANTS
  x = x
  y = y
  z = z
  Null = Null
  Byte = {x}
  Address = {0}
  MaxLength = 1
  BootTried = {}
  WriteTried <- MCWrite
  ValueTried <- MCValue
INVARIANTS
  BlockedUnlessEnabled
