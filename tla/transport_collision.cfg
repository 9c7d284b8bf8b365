\* Two tasks, one fault.
SPECIFICATION Spec
CONSTANTS
  s1 = s1
  s2 = s2
  w1 = w1
  c1 = c1
  c2 = c2
  c3 = c3
  c4 = c4
  c5 = c5
  Task = {s1, s2}
  Writer = {}
  Client = {c1, c2, c3, c4}
  NoClient = none
  OptionsTried <- MCOptions
  MaxFaults = 1
INVARIANTS
  RetrySmoothsOver
