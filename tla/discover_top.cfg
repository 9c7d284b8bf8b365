\* The range ends with the last address there is.
\* The run is over when it is done.
CHECK_DEADLOCK FALSE
SPECIFICATION Spec
CONSTANTS
  hr = hr
  co = co
  Unit = {1, 2, 3}
  ObjectTypes <- OneType
  ScanSlaves = {FALSE}
  ScanSlavesMax = 3
  SlaveIds <- OnlyOne
  First = 4
  Last = 7
  Top = 7
  BatchSize = 3
  Present = {1, 3}
  Implemented <- Everything
  MaxFaults = 0
  MaxRefusals = 0
  MaxShort = 0
INVARIANTS
  EndIsProbed
