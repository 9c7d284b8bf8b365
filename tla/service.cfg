\* Two lives of the process, two days, events and reports, crashes, one
\* refusal of the disk.  In the end the process is down for good.
CHECK_DEADLOCK FALSE
SPECIFICATION FairSpec
CONSTANTS
  FlushEvery = 3
  BufferRows = 2
  LastDay = 2
  MaxEvents = 5
  MaxDiskFaults = 1
  ReportLines = 2
  MaxRuns = 2
  MaxStarts = 2
  MaxPages = 1
  MaxWrites = 1
INVARIANTS
  TypeOK
  FilesAreTables
  CrashTakesTheEnd
  FailedRotationHeals
  StopKeepsTheLog
  
PROPERTIES
  LinesStay
  StopTakesEffect
