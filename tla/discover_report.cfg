\* Configured units, one of them absent, or a sweep; holes, two faults, one refusal,
\* one short answer.
\* The run is over when it is done.
CHECK_DEADLOCK FALSE
SPECIFICATION FairSpec
CONSTANTS
  hr = hr
  co = co
  Unit = {1, 2, 3}
  ObjectTypes <- TwoTypes
  ScanSlaves = {TRUE, FALSE}
  ScanSlavesMax = 3
  SlaveIds <- OneAndTwo
  First = 0
  Last = 7
  Top = 10
  BatchSize = 5
  Present = {1, 3}
  Implemented <- Holes
  MaxFaults = 2
  MaxRefusals = 1
  MaxShort = 1
INVARIANTS
  TypeOK
  ReportTiles
  ReportIsTrue
  LossesHaveACause
PROPERTIES
  RunEnds
