\* One fault of any kind, one child, two polls under way at a time.
CONSTANTS
  j1 = j1
  j2 = j2
  c1 = c1
  c2 = c2
  p1 = p1
  p2 = p2
  NoJob = NoJob
  Error = Error
  Jobs <- MCJobs
  Children = {c1}
  Polls <- MCPolls
  MaxFaults = 1
  FaultKinds = {"crash", "child", "llm", "redis", "api", "net"}
SPECIFICATION AiFairSpec
INVARIANTS
  PanelTypeOK
PROPERTIES
  IsJobQueue
  NeverPendingAgain
  DoneHasResult
  JobsKept
  PollingEnds
  RunComesBack
CHECK_DEADLOCK FALSE
