\* A scanning task and a writer share the pipeline, two faults.
SPECIFICATION FairSpec
CONSTANTS
  s1 = s1
  s2 = s2
  w1 = w1
  c1 = c1
  c2 = c2
  c3 = c3
  c4 = c4
  c5 = c5
  Task = {s1, w1}
  Writer = {w1}
  Client = {c1, c2, c3, c4}
  NoClient = none
  OptionsTried <- MCOptions
  MaxFaults = 2
INVARIANTS
  TypeOK
  StateIsTrue
  WritesGated
  SingleFaultAbsorbed
PROPERTIES
  KeepsTheLine
  CallsReturn
  ConnectionRecovers
