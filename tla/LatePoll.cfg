\* No fault at all: two polls under way at a time are enough.
CONSTANTS
  j1 = j1
  j2 = j2
  c1 = c1
  c2 = c2
  p1 = p1
  p2 = p2
  NoJob = NoJob
  Error = Error
  Jobs <- MCJobs
  Children <- MCChildren
  Polls <- MCPolls
  MaxFaults = 0
  FaultKinds = {}
SPECIFICATION AiSpec
INVARIANTS
  ShowsOwnJob
CHECK_DEADLOCK FALSE
