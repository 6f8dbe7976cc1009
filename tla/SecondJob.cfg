\* No fault at all: the second job of one child is enough.
CONSTANTS
  j1 = j1
  j2 = j2
  c1 = c1
  c2 = c2
  p1 = p1
  p2 = p2
  NoJob = NoJob
  Error = Error
  Jobs <- MCJobs
  Children = {c1}
  Polls = {p1}
  MaxFaults = 0
  FaultKinds = {}
SPECIFICATION AiSpec
PROPERTIES
  TasksTell
CHECK_DEADLOCK FALSE
