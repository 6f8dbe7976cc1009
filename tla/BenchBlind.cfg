\* The saga experiment with one user, one section and no fault: its first poll is enough.
CONSTANTS
  u1 = u1
  s1 = s1
  UserIds = {u1}
  SectionIds = {s1}
  Base = {u1}
  Degraded = {}
  NumSections = 1
  Concurrency = 1
  MaxFaults = 0
  FaultKinds = {}
SPECIFICATION BenchSpec
INVARIANTS
  CleanedMeansGone
CHECK_DEADLOCK FALSE
